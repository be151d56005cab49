-------------------------- MODULE RoomKeys_proofs ---------------------------
(***************************************************************************)
(* Proofs about the room service and the room keys, for every number of    *)
(* users, rooms, keys and epochs.                                          *)
(*                                                                         *)
(* First the room service alone, for every set of users, channels and DMs  *)
(* and whether or not a database statement may fail.  Inv puts together    *)
(* the type invariant, ReferentialIntegrity, RegistryAgrees and            *)
(* DMIntegrity.  Each is preserved given RoomsTypeOK alone, so there is    *)
(* one lemma for each; the action properties then follow from Inv.         *)
(*                                                                         *)
(* Then the clients do nothing to the room service but what its handlers   *)
(* do: RoomKeys implements Rooms, and what was shown of the room service   *)
(* holds in RoomKeys.  If users stay in the room to which they add members *)
(* (StayPut), keys stay in their room and only reach members: the          *)
(* inductive invariant says the same of every copy of a key under way in a *)
(* client's flow.                                                          *)
(*                                                                         *)
(* Last, if moreover at most one user regenerates, lets it finish, and     *)
(* nobody is removed (OneRegenerates), the members agree on the key of an  *)
(* epoch.  EpochInv says it of every copy under way too (Somewhere), and   *)
(* why it stays so: a room has no key before its creator's, and the one    *)
(* who regenerates has read, or is about to post to himself, a blob as     *)
(* late as any key of the room, so that the epoch he chooses is new.  Each *)
(* copy comes from a copy of the same epoch or is freshly generated        *)
(* (CopyOrigin), and is only generated where there was none (FreshIsFirst).*)
(***************************************************************************)
EXTENDS RoomKeys, TLAPS

Inv == RoomsTypeOK /\ ReferentialIntegrity /\ RegistryAgrees /\ DMIntegrity

-----------------------------------------------------------------------------
(* Each conjunct of Inv is preserved.                                      *)

LEMMA TypeStep == RoomsTypeOK /\ [RoomsNext]_roomVars => RoomsTypeOK'
<1> SUFFICES ASSUME RoomsTypeOK, RoomsNext PROVE RoomsTypeOK'
  BY DEF RoomsTypeOK, roomVars
<1> USE RoomsAssumption DEF RoomsTypeOK, RoomIds, Visibilities, Roles, Statuses
<1>1. CASE Restart
  BY <1>1 DEF Restart
<1>2. ASSUME NEW u \in Users, UpdateVisibilityAfter(u) PROVE RoomsTypeOK'
  BY <1>2 DEF UpdateVisibilityAfter, WriteVisibility
<1>3. ASSUME NEW u \in Users, NEW r \in RoomIds, RoomStep(u, r) PROVE RoomsTypeOK'
  <2>1. ASSUME NEW v \in Visibilities, CreateRoom(u, r, v) PROVE RoomsTypeOK'
    BY <2>1 DEF CreateRoom, InsertRoom, InsertMember
  <2>2. CASE CreateRoomInsertFails(u, r)
    BY <2>2 DEF CreateRoomInsertFails
  <2>3. ASSUME NEW v \in Visibilities, CreateRoomOwnerFails(u, r, v) PROVE RoomsTypeOK'
    BY <2>3 DEF CreateRoomOwnerFails, InsertRoom
  <2>4. CASE CreateDM(u, r)
    BY <2>4 DEF CreateDM, InsertRoom
  <2>5. CASE DeleteRoom(u, r)
    BY <2>5 DEF DeleteRoom, NoMembers, NoKeys
  <2>6. CASE DeleteRoomFails(u, r)
    BY <2>6 DEF DeleteRoomFails
  <2>7. ASSUME NEW v \in Visibilities, UpdateVisibility(u, r, v) PROVE RoomsTypeOK'
    BY <2>7 DEF UpdateVisibility, WriteVisibility
  <2>8. ASSUME NEW v \in Visibilities, UpdateTopicFirst(u, r, v) PROVE RoomsTypeOK'
    BY <2>8 DEF UpdateTopicFirst
  <2>9. CASE SubmitJoinRequest(u, r)
    BY <2>9 DEF SubmitJoinRequest
  <2> QED BY <1>3, <2>1, <2>2, <2>3, <2>4, <2>5, <2>6, <2>7, <2>8, <2>9 DEF RoomStep
<1>4. ASSUME NEW u \in Users, NEW r \in RoomIds, NEW t \in Users, MemberStep(u, r, t)
      PROVE  RoomsTypeOK'
  <2>1. CASE AddMember(u, r, t)
    BY <2>1 DEF AddMember, InsertMember
  <2>2. CASE RemoveMember(u, r, t)
    BY <2>2 DEF RemoveMember
  <2>3. ASSUME NEW role \in Roles, SetRole(u, r, t, role) PROVE RoomsTypeOK'
    BY <2>3 DEF SetRole
  <2>4. CASE ApproveJoinRequest(u, r, t)
    BY <2>4 DEF ApproveJoinRequest, InsertMember
  <2>5. CASE ApproveStatusFails(u, r, t)
    BY <2>5 DEF ApproveStatusFails, InsertMember
  <2>6. CASE DenyJoinRequest(u, r, t)
    BY <2>6 DEF DenyJoinRequest
  <2>7. ASSUME NEW e \in Epochs, NEW b \in Blobs, StoreKey(u, r, t, e, b)
        PROVE  RoomsTypeOK'
    BY <2>7 DEF StoreKey
  <2> QED BY <1>4, <2>1, <2>2, <2>3, <2>4, <2>5, <2>6, <2>7 DEF MemberStep
<1> QED BY <1>1, <1>2, <1>3, <1>4 DEF RoomsNext

\* A room without a row: nothing writes to its members, requests or keys, since
\* every handler first asks for a member or for the row.
LEMMA ReferentialStep ==
  ASSUME RoomsTypeOK, ReferentialIntegrity, [RoomsNext]_roomVars
  PROVE  ReferentialIntegrity'
<1> USE RoomsAssumption DEF RoomsTypeOK, ReferentialIntegrity, NoMembers
<1>1. CASE UNCHANGED roomVars
  BY <1>1 DEF roomVars
<1>2. CASE Restart
  BY <1>2 DEF Restart
<1>3. ASSUME NEW u \in Users, UpdateVisibilityAfter(u) PROVE ReferentialIntegrity'
  BY <1>3 DEF UpdateVisibilityAfter
<1>4. ASSUME NEW u \in Users, NEW r \in RoomIds, RoomStep(u, r)
      PROVE  ReferentialIntegrity'
  <2>1. ASSUME NEW v \in Visibilities, CreateRoom(u, r, v)
        PROVE  ReferentialIntegrity'
    BY <2>1 DEF CreateRoom, InsertRoom, InsertMember
  <2>2. ASSUME NEW v \in Visibilities,
               CreateRoomOwnerFails(u, r, v) \/ UpdateVisibility(u, r, v)
                 \/ UpdateTopicFirst(u, r, v)
        PROVE  ReferentialIntegrity'
    BY <2>2 DEF CreateRoomOwnerFails, UpdateVisibility, UpdateTopicFirst, InsertRoom
  <2>3. CASE CreateDM(u, r)
    BY <2>3 DEF CreateDM, InsertRoom
  <2>4. CASE DeleteRoom(u, r)
    BY <2>4 DEF DeleteRoom
  <2>5. CASE CreateRoomInsertFails(u, r) \/ DeleteRoomFails(u, r)
    BY <2>5 DEF CreateRoomInsertFails, DeleteRoomFails
  <2>6. CASE SubmitJoinRequest(u, r)
    BY <2>6 DEF SubmitJoinRequest
  <2> QED BY <1>4, <2>1, <2>2, <2>3, <2>4, <2>5, <2>6 DEF RoomStep
<1>5. ASSUME NEW u \in Users, NEW r \in RoomIds, NEW t \in Users, MemberStep(u, r, t)
      PROVE  ReferentialIntegrity'
  <2>1. CASE AddMember(u, r, t)
    BY <2>1 DEF AddMember, CanAddMember, check_room_access, IsMember, InsertMember
  <2>2. CASE RemoveMember(u, r, t)
    BY <2>2 DEF RemoveMember, IsMember
  <2>3. ASSUME NEW role \in Roles, SetRole(u, r, t, role)
        PROVE  ReferentialIntegrity'
    BY <2>3 DEF SetRole, check_room_access, IsMember
  <2>4. CASE ApproveJoinRequest(u, r, t)
    BY <2>4 DEF ApproveJoinRequest, CanResolve, check_room_access, IsMember,
                InsertMember
  <2>5. CASE ApproveStatusFails(u, r, t)
    BY <2>5 DEF ApproveStatusFails, CanResolve, check_room_access, IsMember,
                InsertMember
  <2>6. CASE DenyJoinRequest(u, r, t)
    BY <2>6 DEF DenyJoinRequest, CanResolve, check_room_access, IsMember
  <2>7. ASSUME NEW e \in Epochs, NEW b \in Blobs, StoreKey(u, r, t, e, b)
        PROVE  ReferentialIntegrity'
    BY <2>7 DEF StoreKey, CanStoreKey, check_room_access, IsMember
  <2> QED BY <1>5, <2>1, <2>2, <2>3, <2>4, <2>5, <2>6, <2>7 DEF MemberStep
<1> QED BY <1>1, <1>2, <1>3, <1>4, <1>5 DEF RoomsNext

\* The registry and the table change together in every action that does not
\* fail half-way.
LEMMA RegistryStep ==
  ASSUME RoomsTypeOK, RegistryAgrees, [RoomsNext]_roomVars
  PROVE  RegistryAgrees'
<1> SUFFICES ASSUME ~DbMayFail, ROOMS = rooms PROVE ROOMS' = rooms'
  BY DEF RegistryAgrees
<1>1. CASE UNCHANGED roomVars
  BY <1>1 DEF roomVars
<1>2. CASE Restart
  BY <1>2 DEF Restart
<1>3. ASSUME NEW u \in Users, UpdateVisibilityAfter(u) PROVE ROOMS' = rooms'
  BY <1>3 DEF UpdateVisibilityAfter
<1>4. ASSUME NEW u \in Users, NEW r \in RoomIds, RoomStep(u, r) PROVE ROOMS' = rooms'
  BY <1>4 DEF RoomStep, CreateRoom, CreateRoomInsertFails, CreateRoomOwnerFails,
              CreateDM, DeleteRoom, DeleteRoomFails, UpdateVisibility,
              UpdateTopicFirst, SubmitJoinRequest, InsertRoom
<1>5. ASSUME NEW u \in Users, NEW r \in RoomIds, NEW t \in Users, MemberStep(u, r, t)
      PROVE  ROOMS' = rooms'
  BY <1>5 DEF MemberStep, AddMember, RemoveMember, SetRole, ApproveJoinRequest,
              ApproveStatusFails, DenyJoinRequest, StoreKey
<1> QED BY <1>1, <1>2, <1>3, <1>4, <1>5 DEF RoomsNext

\* A DM's participants are inserted with its row and cannot be removed; the
\* handlers that give a role or a visibility ask is_dm.
LEMMA DMStep ==
  ASSUME RoomsTypeOK, DMIntegrity, [RoomsNext]_roomVars
  PROVE  DMIntegrity'
<1> USE RoomsAssumption DEF RoomsTypeOK, DMIntegrity, IsMember
<1>1. CASE UNCHANGED roomVars
  BY <1>1 DEF roomVars
<1>2. CASE Restart
  BY <1>2 DEF Restart
<1>3. ASSUME NEW u \in Users, UpdateVisibilityAfter(u) PROVE DMIntegrity'
  BY <1>3 DEF UpdateVisibilityAfter, WriteVisibility, is_dm
<1>4. ASSUME NEW u \in Users, NEW r \in RoomIds, RoomStep(u, r) PROVE DMIntegrity'
  <2>1. ASSUME NEW v \in Visibilities, CreateRoom(u, r, v) PROVE DMIntegrity'
    BY <2>1 DEF CreateRoom, InsertRoom, InsertMember
  <2>2. ASSUME NEW v \in Visibilities, CreateRoomOwnerFails(u, r, v)
        PROVE  DMIntegrity'
    BY <2>2 DEF CreateRoomOwnerFails, InsertRoom
  <2>3. ASSUME NEW v \in Visibilities, UpdateVisibility(u, r, v) PROVE DMIntegrity'
    BY <2>3 DEF UpdateVisibility, WriteVisibility, is_dm
  <2>7. ASSUME NEW v \in Visibilities, UpdateTopicFirst(u, r, v) PROVE DMIntegrity'
    BY <2>7 DEF UpdateTopicFirst
  <2>4. CASE CreateDM(u, r)
    BY <2>4 DEF CreateDM, InsertRoom
  <2>5. CASE DeleteRoom(u, r)
    BY <2>5 DEF DeleteRoom, CanDelete, is_dm, NoMembers
  <2>6. CASE CreateRoomInsertFails(u, r) \/ DeleteRoomFails(u, r)
             \/ SubmitJoinRequest(u, r)
    BY <2>6 DEF CreateRoomInsertFails, DeleteRoomFails, SubmitJoinRequest
  <2> QED BY <1>4, <2>1, <2>2, <2>3, <2>4, <2>5, <2>6, <2>7 DEF RoomStep
<1>5. ASSUME NEW u \in Users, NEW r \in RoomIds, NEW t \in Users, MemberStep(u, r, t)
      PROVE  DMIntegrity'
  <2>1. CASE AddMember(u, r, t)
    BY <2>1 DEF AddMember, CanAddMember, InsertMember
  <2>2. CASE RemoveMember(u, r, t)
    BY <2>2 DEF RemoveMember, is_dm
  <2>3. ASSUME NEW role \in Roles, SetRole(u, r, t, role) PROVE DMIntegrity'
    BY <2>3 DEF SetRole, is_dm
  <2>4. CASE ApproveJoinRequest(u, r, t)
    BY <2>4 DEF ApproveJoinRequest, InsertMember
  <2>7. CASE ApproveStatusFails(u, r, t)
    BY <2>7 DEF ApproveStatusFails, InsertMember
  <2>5. CASE DenyJoinRequest(u, r, t)
    BY <2>5 DEF DenyJoinRequest
  <2>6. ASSUME NEW e \in Epochs, NEW b \in Blobs, StoreKey(u, r, t, e, b)
        PROVE  DMIntegrity'
    BY <2>6 DEF StoreKey
  <2> QED BY <1>5, <2>1, <2>2, <2>3, <2>4, <2>5, <2>6, <2>7 DEF MemberStep
<1> QED BY <1>1, <1>2, <1>3, <1>4, <1>5 DEF RoomsNext

-----------------------------------------------------------------------------
(* The invariants.                                                         *)

LEMMA InitInv == RoomsInit => Inv
BY RoomsAssumption
   DEF RoomsInit, Inv, RoomsTypeOK, ReferentialIntegrity, RegistryAgrees, DMIntegrity,
       NoMembers, NoKeys, IsMember, RoomIds, Visibilities, Roles, Statuses

LEMMA InvStep == Inv /\ [RoomsNext]_roomVars => Inv'
BY TypeStep, ReferentialStep, RegistryStep, DMStep DEF Inv

\* The invariant of the room service.
THEOREM RoomsInvariant == RoomsSpec => []Inv
BY InitInv, InvStep, PTL DEF RoomsSpec

\* The tables and the registry have the type of the model.
THEOREM RoomsTypes == RoomsSpec => []RoomsTypeOK
<1>1. Inv => RoomsTypeOK
  BY DEF Inv
<1> QED BY <1>1, RoomsInvariant, PTL

\* Of a room without a row nothing is left, even when statements fail half-way:
\* the ON DELETE CASCADE of database.py is never undone by a late insert.
THEOREM NothingWithoutRow == RoomsSpec => []ReferentialIntegrity
<1>1. Inv => ReferentialIntegrity
  BY DEF Inv
<1> QED BY <1>1, RoomsInvariant, PTL

\* When no statement fails, the in-memory registry is the table of rooms.
THEOREM RegistryIsTable == RoomsSpec => []RegistryAgrees
<1>1. Inv => RegistryAgrees
  BY DEF Inv
<1> QED BY <1>1, RoomsInvariant, PTL

\* DMs keep their participants, stay private and have no roles.
THEOREM DMsAreFixed == RoomsSpec => []DMIntegrity
<1>1. Inv => DMIntegrity
  BY DEF Inv
<1> QED BY <1>1, RoomsInvariant, PTL

\* Both at once, for every interleaving of calls, failed statements and restarts of the
\* room service.
THEOREM RoomsStaySound == RoomsSpec => []RoomsAreSound
<1>1. ReferentialIntegrity /\ DMIntegrity => RoomsAreSound
  BY DEF RoomsAreSound
<1> QED BY <1>1, NothingWithoutRow, DMsAreFixed, PTL

-----------------------------------------------------------------------------
(* The action properties.                                                  *)

\* What MembershipByAuthority says of one step.
AuthorityOf(r, t) ==
    \/ room_users[r][t] = "none" /\ room_users'[r][t] # "none"
    \/ room_users[r][t] \in {"voice", "member"} /\ room_users'[r][t] \in {"op", "owner"}
    => HasManager(r)

LEMMA AuthorityStep ==
  ASSUME Inv, [RoomsNext]_roomVars, NEW r \in (rooms \cap ROOMS) \ DMs,
         NEW t \in Users
  PROVE  AuthorityOf(r, t)
<1> SUFFICES ASSUME RoomsNext PROVE AuthorityOf(r, t)
  BY DEF roomVars, AuthorityOf
<1> USE RoomsAssumption DEF Inv, RoomsTypeOK, AuthorityOf, IsMember
<1>1. CASE Restart
  BY <1>1 DEF Restart
<1>2. ASSUME NEW u \in Users, UpdateVisibilityAfter(u) PROVE AuthorityOf(r, t)
  BY <1>2 DEF UpdateVisibilityAfter
<1>3. ASSUME NEW u \in Users, NEW q \in RoomIds, RoomStep(u, q)
      PROVE  AuthorityOf(r, t)
  <2>1. ASSUME NEW v \in Visibilities, CreateRoom(u, q, v) PROVE AuthorityOf(r, t)
    \* A room that can be created is not in the registry, so it is not r.
    BY <2>1 DEF CreateRoom, InsertMember
  <2>2. CASE CreateDM(u, q)
    BY <2>2 DEF CreateDM
  <2>3. CASE DeleteRoom(u, q)
    BY <2>3 DEF DeleteRoom, NoMembers
  <2>4. CASE UNCHANGED room_users
    BY <2>4
  <2> QED BY <1>3, <2>1, <2>2, <2>3, <2>4
          DEF RoomStep, CreateRoomInsertFails, CreateRoomOwnerFails, DeleteRoomFails,
              UpdateVisibility, UpdateTopicFirst, SubmitJoinRequest
<1>4. ASSUME NEW u \in Users, NEW q \in RoomIds, NEW w \in Users, MemberStep(u, q, w)
      PROVE  AuthorityOf(r, t)
  <2>1. CASE AddMember(u, q, w)
    BY <2>1 DEF AddMember, CanAddMember, check_room_access, InsertMember, is_dm, HasManager
  <2>2. CASE RemoveMember(u, q, w)
    BY <2>2 DEF RemoveMember
  <2>3. ASSUME NEW role \in Roles, SetRole(u, q, w, role) PROVE AuthorityOf(r, t)
    BY <2>3 DEF SetRole, check_room_access, HasManager
  <2>4. CASE ApproveJoinRequest(u, q, w)
    BY <2>4 DEF ApproveJoinRequest, CanResolve, check_room_access, InsertMember, HasManager
  <2>5. CASE ApproveStatusFails(u, q, w)
    BY <2>5 DEF ApproveStatusFails, CanResolve, check_room_access, InsertMember, HasManager
  <2>6. CASE UNCHANGED room_users
    BY <2>6
  <2> QED BY <1>4, <2>1, <2>2, <2>3, <2>4, <2>5, <2>6
          DEF MemberStep, DenyJoinRequest, StoreKey
<1> QED BY <1>1, <1>2, <1>3, <1>4 DEF RoomsNext

\* Nobody enters a channel, or rises in it, without a manager of it being there.
THEOREM MembershipNeedsManager == RoomsSpec => MembershipByAuthority
<1>1. Inv /\ [RoomsNext]_roomVars
      => [\A r \in (rooms \cap ROOMS) \ DMs, t \in Users :
            \/ room_users[r][t] = "none" /\ room_users'[r][t] # "none"
            \/ room_users[r][t] \in {"voice", "member"}
               /\ room_users'[r][t] \in {"op", "owner"}
            => HasManager(r)]_roomVars
  BY AuthorityStep DEF AuthorityOf
<1> QED BY <1>1, RoomsInvariant, PTL DEF RoomsSpec, MembershipByAuthority

LEMMA DecisionStep ==
  ASSUME RoomsTypeOK, RoomsNext, NEW r \in RoomIds, NEW t \in Users,
         join_requests[r][t] = "pending", join_requests'[r][t] # "pending"
  PROVE  \/ r \notin rooms'
         \/ /\ \E a \in Users : CanResolve(a, r, t)
            /\ join_requests'[r][t] = "approved" => room_users'[r][t] # "none"
<1> DEFINE Goal == \/ r \notin rooms'
                   \/ /\ \E a \in Users : CanResolve(a, r, t)
                      /\ join_requests'[r][t] = "approved" => room_users'[r][t] # "none"
<1> USE DEF RoomsTypeOK
<1>1. ASSUME NEW u \in Users, NEW q \in RoomIds, DeleteRoom(u, q) PROVE Goal
  BY <1>1 DEF DeleteRoom
<1>2. ASSUME NEW u \in Users, NEW q \in RoomIds, NEW w \in Users,
             ApproveJoinRequest(u, q, w)
      PROVE  Goal
  BY <1>2 DEF ApproveJoinRequest, InsertMember, IsMember
<1>3. ASSUME NEW u \in Users, NEW q \in RoomIds, NEW w \in Users,
             DenyJoinRequest(u, q, w)
      PROVE  Goal
  BY <1>3 DEF DenyJoinRequest
<1>4. ASSUME NEW u \in Users, NEW q \in RoomIds, SubmitJoinRequest(u, q) PROVE Goal
  BY <1>4 DEF SubmitJoinRequest
<1>5. CASE UNCHANGED join_requests
  BY <1>5
<1>6. Goal
  <2> HIDE DEF Goal
  <2> QED
    BY <1>1, <1>2, <1>3, <1>4, <1>5
    DEF RoomsNext, RoomStep, MemberStep, Restart, UpdateVisibilityAfter, CreateRoom,
        CreateRoomInsertFails, CreateRoomOwnerFails, CreateDM, DeleteRoomFails,
        UpdateVisibility, UpdateTopicFirst, AddMember, RemoveMember, SetRole,
        ApproveStatusFails, StoreKey
<1> QED BY <1>6

\* A pending request is decided by a manager or goes with its room.
THEOREM RequestsNeedDecision == RoomsSpec => RequestsAreDecided
<1>1. RoomsTypeOK /\ [RoomsNext]_roomVars
      => [\A r \in RoomIds, t \in Users :
            join_requests[r][t] = "pending" /\ join_requests'[r][t] # "pending"
            => \/ r \notin rooms'
               \/ /\ \E a \in Users : CanResolve(a, r, t)
                  /\ join_requests'[r][t] = "approved" => room_users'[r][t] # "none"
         ]_roomVars
  BY DecisionStep
<1> QED BY <1>1, RoomsTypes, PTL DEF RoomsSpec, RequestsAreDecided


LEMMA StoreKeyStep ==
  ASSUME NEW u \in Users, NEW r \in RoomIds, NEW t \in Users, NEW e \in Epochs,
         NEW k \in Blobs, TryStoreKey(u, r, t, e, k)
  PROVE  [RoomsNext]_roomVars
BY DEF TryStoreKey, RoomsNext, MemberStep

-----------------------------------------------------------------------------
(* Types.                                                                  *)

LEMMA FlowFields ==
  ASSUME NEW f \in Flow
  PROVE  /\ f.at \in {"init", "select"} => f = [at |-> f.at, room |-> f.room] /\ f.room \in RoomIds
         /\ f.at = "dmPosting" => /\ f.room \in RoomIds
                                  /\ f.key \in Blobs
                                  /\ f.left \subseteq Users
         /\ f.at \in {"added", "sharing", "nextTarget"}
            => /\ f.room \in RoomIds
               /\ f.live \in BOOLEAN
               /\ f.held \in KeyMap \cup {Absent}
               /\ f.todo \subseteq Users
         /\ f.at \in {"added", "sharing"} => f.target \in Users
         /\ f.at = "sharing" => f.left \subseteq Epochs
BY DEF Flow, NoFlow

LEMMA LoadFields ==
  ASSUME NEW load \in Load
  PROVE  /\ load.at = "decrypting" => load.rows \in KeyMap /\ load.left \subseteq Epochs
         /\ load.at = "regenerate" => load.epoch \in Epochs
         /\ load.at = "listed" => load.epoch \in Epochs /\ load.left \subseteq Users
         /\ load.at = "posting" => /\ load.epoch \in Epochs
                                   /\ load.key \in Blobs
                                   /\ load.left \subseteq Users
BY DEF Load, NoLoad

\* A request to the room service types as the room service does.
ClientTypeOK ==
    /\ paired \in [Users -> BOOLEAN]
    /\ roomKeys \in [Users -> [RoomIds -> KeyMap \cup {Absent}]]
    /\ currentRoom \in [Users -> RoomIds \cup {NoRoom}]
    /\ loads \in [Users -> [RoomIds -> Load]]
    /\ flow \in [Users -> Flow]
    /\ messages \subseteq Message
    /\ minted \in [Blobs -> [room : RoomIds, by : Users] \cup {Unmade}]

\* What the records do not say: a flow that adds members has a room and a cache
\* before it, and shares epochs which it holds; a load decrypts rows that exist.
Adding == {"added", "sharing", "nextTarget"}

FlowShape(v) ==
    LET f == flow[v] IN
    /\ f.at \in Adding => currentRoom[v] # NoRoom
    /\ f.at \in Adding /\ f.live => roomKeys[v][f.room] # Absent
    /\ f.at \in {"added", "sharing"} => Held(v, f) # Absent
    /\ f.at = "sharing" => f.left \subseteq Has(Held(v, f))

LoadShape(v, q) ==
    loads[v][q].at = "decrypting" => loads[v][q].left \subseteq Has(loads[v][q].rows)

Shape ==
    /\ \A v \in Users : FlowShape(v)
    /\ \A v \in Users, q \in RoomIds : LoadShape(v, q)

LEMMA CacheTypes ==
  ASSUME ClientTypeOK, NEW u \in Users, NEW r \in RoomIds, NEW map \in KeyMap,
         roomKeys' = [roomKeys EXCEPT ![u][r] = map]
  PROVE  roomKeys' \in [Users -> [RoomIds -> KeyMap \cup {Absent}]]
BY DEF ClientTypeOK

LEMMA PutTypes ==
  ASSUME ClientTypeOK, NEW u \in Users, NEW r \in RoomIds, NEW e \in Epochs,
         NEW k \in Blobs \cup {NoBlob}, Put(u, r, e, k)
  PROVE  roomKeys' \in [Users -> [RoomIds -> KeyMap \cup {Absent}]]
<1> USE DEF ClientTypeOK
<1> DEFINE map == IF roomKeys[u][r] = Absent THEN [NoMap EXCEPT ![e] = k]
                  ELSE [roomKeys[u][r] EXCEPT ![e] = k]
<1>1. map \in KeyMap
  BY DEF KeyMap, NoMap
<1>2. roomKeys' = [roomKeys EXCEPT ![u][r] = map]
  BY DEF Put
<1> HIDE DEF map
<1> QED BY <1>1, <1>2

LEMMA ReplaceTypes ==
  ASSUME ClientTypeOK, NEW u \in Users, NEW r \in RoomIds, NEW map \in KeyMap,
         Replace(u, r, map)
  PROVE  /\ roomKeys' \in [Users -> [RoomIds -> KeyMap \cup {Absent}]]
         /\ flow' \in [Users -> Flow]
<1> USE DEF ClientTypeOK
<1>1. roomKeys' \in [Users -> [RoomIds -> KeyMap \cup {Absent}]]
  BY DEF Replace
<1>2. CASE flow' = flow
  BY <1>1, <1>2
<1>3. CASE /\ flow[u].at \in {"added", "sharing", "nextTarget"}
           /\ flow' = [flow EXCEPT ![u].live = FALSE, ![u].held = roomKeys[u][r]]
  <2> DEFINE keys == roomKeys[u][r]
             moved == [flow[u] EXCEPT !.live = FALSE, !.held = keys]
  <2>1. keys \in KeyMap \cup {Absent} /\ flow[u] \in Flow
    OBVIOUS
  <2>2. moved \in Flow
    <3> HIDE DEF keys
    <3>1. CASE flow[u].at = "added"
      BY <2>1, <3>1 DEF Flow, NoFlow
    <3>2. CASE flow[u].at = "sharing"
      BY <2>1, <3>2 DEF Flow, NoFlow
    <3>3. CASE flow[u].at = "nextTarget"
      BY <2>1, <3>3 DEF Flow, NoFlow
    <3> QED BY <1>3, <3>1, <3>2, <3>3
  <2>3. flow' = [flow EXCEPT ![u] = moved]
    BY <1>3
  <2> HIDE DEF moved
  <2> QED BY <1>1, <2>2, <2>3
<1> QED BY <1>2, <1>3 DEF Replace

LEMMA NextTargetTypes ==
  ASSUME NEW f \in Flow, f.at \in {"sharing", "nextTarget"}, NEW todo \in SUBSET Users
  PROVE  NextTarget(f, todo) \in Flow
<1>1. /\ f.room \in RoomIds
      /\ f.live \in BOOLEAN
      /\ f.held \in KeyMap \cup {Absent}
  BY FlowFields
<1> QED BY <1>1 DEF NextTarget, Flow, NoFlow

LEMMA AddToTypes ==
  ASSUME ClientTypeOK, NEW u \in Users, NEW r \in RoomIds, NEW t \in Users,
         NEW f \in Flow, f.at = "nextTarget", AddTo(u, r, t, f)
  PROVE  flow' \in [Users -> Flow]
<1>1. /\ f.room \in RoomIds
      /\ f.live \in BOOLEAN
      /\ f.held \in KeyMap \cup {Absent}
      /\ f.todo \subseteq Users
  BY FlowFields
<1> DEFINE todo == f.todo \ {t}
           added == [at |-> "added", room |-> f.room, live |-> f.live,
                     held |-> f.held, target |-> t, todo |-> todo]
<1>2. NextTarget(f, todo) \in Flow
  BY <1>1, NextTargetTypes
<1>3. added \in Flow
  BY <1>1 DEF Flow
<1>4. \/ flow' = [flow EXCEPT ![u] = NextTarget(f, todo)]
      \/ flow' = [flow EXCEPT ![u] = added]
  BY DEF AddTo, SetFlow
<1> HIDE DEF added, todo
<1> QED BY <1>2, <1>3, <1>4 DEF ClientTypeOK

LEMMA SetFlowTypes ==
  ASSUME ClientTypeOK, NEW u \in Users, NEW f \in Flow, SetFlow(u, f)
  PROVE  flow' \in [Users -> Flow]
BY DEF ClientTypeOK, SetFlow

LEMMA SetLoadTypes ==
  ASSUME ClientTypeOK, NEW u \in Users, NEW r \in RoomIds, NEW load \in Load,
         SetLoad(u, r, load)
  PROVE  loads' \in [Users -> [RoomIds -> Load]]
BY DEF ClientTypeOK, SetLoad

LEMMA SelectTypes ==
  ASSUME ClientTypeOK, NEW u \in Users, NEW r \in RoomIds, Select(u, r)
  PROVE  /\ currentRoom' \in [Users -> RoomIds \cup {NoRoom}]
         /\ loads' \in [Users -> [RoomIds -> Load]]
<1>1. [at |-> "asked"] \in Load
  BY DEF Load
<1> QED BY <1>1, SetLoadTypes DEF Select, ClientTypeOK

LEMMA GenerateTypes ==
  ASSUME ClientTypeOK, NEW u \in Users, NEW k \in Blobs, NEW r \in RoomIds,
         Generate(u, k, r)
  PROVE  minted' \in [Blobs -> [room : RoomIds, by : Users] \cup {Unmade}]
BY DEF ClientTypeOK, Generate

LEMMA FreshPageTypes ==
  ASSUME ClientTypeOK, NEW u \in Users, FreshPage(u), UNCHANGED <<messages, minted>>,
         paired' \in [Users -> BOOLEAN]
  PROVE  ClientTypeOK'
<1>1. NoLoad \in Load /\ NoFlow \in Flow
  BY DEF Load, Flow
<1> QED BY <1>1 DEF ClientTypeOK, FreshPage

LEMMA ClientTypeStep ==
  ASSUME RoomsTypeOK, ClientTypeOK, Shape, Step
  PROVE  ClientTypeOK'
<1> USE RoomKeysAssumption
<1>1. NoLoad \in Load /\ NoFlow \in Flow /\ NoMap \in KeyMap /\ 0 \in Epochs
  BY DEF Load, Flow, NoMap, KeyMap
<1>2. ASSUME NEW u \in Users, PageStep(u) PROVE ClientTypeOK'
  <2>0. flow[u] \in Flow
    BY DEF ClientTypeOK
  <2>1. CASE Reconnect(u)
    <3>1. [at |-> "asked"] \in Load /\ currentRoom[u] \in RoomIds
      BY <2>1 DEF Load, Reconnect, ClientTypeOK
    <3> QED BY <2>1, <3>1, SetLoadTypes DEF Reconnect, ClientTypeOK
  <2>2. CASE InitRoomKey(u)
    <3> DEFINE r == flow[u].room
    <3>1. r \in RoomIds
      BY <2>0, <2>2, FlowFields DEF InitRoomKey
    <3>2. [at |-> "select", room |-> r] \in Flow
      BY <3>1 DEF Flow
    <3>3. \A k \in Blobs : [NoMap EXCEPT ![0] = k] \in KeyMap
      BY <1>1 DEF KeyMap
    <3> QED BY <2>2, <3>1, <3>2, <3>3, SetFlowTypes, GenerateTypes
            DEF InitRoomKey, ClientTypeOK
  <2>3. CASE SelectAfter(u)
    <3>1. flow[u].room \in RoomIds
      BY <2>0, <2>3, FlowFields DEF SelectAfter
    <3> QED BY <1>1, <2>3, <3>1, SelectTypes, SetFlowTypes DEF SelectAfter, ClientTypeOK
  <2>4. CASE ShareBegin(u)
    <3> DEFINE f == flow[u]
               next == [at |-> "sharing", room |-> f.room, live |-> f.live,
                        held |-> f.held, target |-> f.target, todo |-> f.todo,
                        left |-> Has(Held(u, f))]
    <3>1. /\ f.room \in RoomIds
          /\ f.live \in BOOLEAN
          /\ f.held \in KeyMap \cup {Absent}
          /\ f.todo \subseteq Users
          /\ f.target \in Users
      BY <2>0, <2>4, FlowFields DEF ShareBegin
    <3>2. Has(Held(u, f)) \subseteq Epochs
      BY DEF Has
    <3>3. next \in Flow
      BY <3>1, <3>2 DEF Flow
    <3> QED BY <2>4, <3>3, SetFlowTypes DEF ShareBegin, ClientTypeOK
  <2>5. CASE SharePost(u)
    <3> DEFINE f == flow[u]
    <3>1. /\ f.at = "sharing"
          /\ f.room \in RoomIds
          /\ f.live \in BOOLEAN
          /\ f.held \in KeyMap \cup {Absent}
          /\ f.todo \subseteq Users
          /\ f.target \in Users
          /\ f.left \subseteq Epochs
      BY <2>0, <2>5, FlowFields DEF SharePost
    <3>2. NextTarget(f, f.todo) \in Flow
      BY <2>0, <3>1, NextTargetTypes
    <3>3. \A e \in f.left : [f EXCEPT !.left = @ \ {e}] \in Flow
      BY <2>0, <3>1 DEF Flow, NoFlow
    <3> QED BY <2>5, <3>2, <3>3, SetFlowTypes DEF SharePost, ClientTypeOK
  <2>6. CASE SendMessage(u)
    <3> DEFINE r == currentRoom[u]
    <3>1. r \in RoomIds /\ roomKeys[u][r] \in KeyMap
      BY <2>6 DEF SendMessage, ClientTypeOK
    <3>2. \A e \in Has(roomKeys[u][r]) :
            [room |-> r, epoch |-> e, key |-> roomKeys[u][r][e]] \in Message
      BY <3>1 DEF Has, KeyMap, Message
    <3> QED BY <2>6, <3>2 DEF SendMessage, ClientTypeOK
  <2>7. CASE ReloadPage(u)
    BY <2>7, FreshPageTypes DEF ReloadPage, ClientTypeOK
  <2>8. CASE LoseKey(u)
    <3>1. paired' \in [Users -> BOOLEAN]
      BY <2>8 DEF LoseKey, ClientTypeOK
    <3> QED BY <2>8, <3>1, FreshPageTypes DEF LoseKey
  <2> QED BY <1>2, <2>1, <2>2, <2>3, <2>4, <2>5, <2>6, <2>7, <2>8 DEF PageStep
<1>3. ASSUME NEW u \in Users, NEW r \in RoomIds, PageRoomStep(u, r) PROVE ClientTypeOK'
  <2>0. loads[u][r] \in Load
    BY DEF ClientTypeOK
  <2>1. CASE SelectRoom(u, r)
    BY <2>1, SelectTypes DEF SelectRoom, ClientTypeOK
  <2>2. CASE LoadRows(u, r)
    <3> DEFINE rows == room_keys[r][u]
    <3>1. rows \in KeyMap
      BY DEF RoomsTypeOK, KeyMap
    <3>2. [at |-> "decrypting", rows |-> rows, left |-> Has(rows)] \in Load
      BY <3>1 DEF Load, Has
    <3> QED BY <1>1, <2>2, <3>2, SetLoadTypes, ReplaceTypes DEF LoadRows, ClientTypeOK
  <2>3. CASE Decrypt(u, r)
    <3> DEFINE load == loads[u][r]
    <3>1. /\ load.at = "decrypting"
          /\ load.rows \in KeyMap
          /\ load.left \subseteq Epochs
      BY <2>0, <2>3, LoadFields DEF Decrypt
    <3>2. PICK e \in load.left :
            /\ IF paired[u] THEN Put(u, r, e, load.rows[e]) ELSE UNCHANGED roomKeys
            /\ IF load.left = {e}
               THEN AfterLoad(u, r, load.rows)
               ELSE SetLoad(u, r, [load EXCEPT !.left = @ \ {e}])
      BY <2>3 DEF Decrypt
    <3>3. roomKeys' \in [Users -> [RoomIds -> KeyMap \cup {Absent}]]
      <4>1. load.rows[e] \in Blobs \cup {NoBlob}
        BY <3>1 DEF KeyMap
      <4>2. CASE Put(u, r, e, load.rows[e])
        BY <3>1, <4>1, <4>2, PutTypes
      <4> QED BY <3>2, <4>2 DEF ClientTypeOK
    <3>4. [load EXCEPT !.left = @ \ {e}] \in Load
      BY <2>0, <3>1 DEF Load, NoLoad
    <3>5. \A top \in Epochs : top + 1 \in Epochs
            => [at |-> "regenerate", epoch |-> top + 1] \in Load
      BY DEF Load
    <3>6. AfterLoad(u, r, load.rows) => loads' \in [Users -> [RoomIds -> Load]]
      <4> SUFFICES ASSUME AfterLoad(u, r, load.rows),
                          ~SetLoad(u, r, NoLoad)
                   PROVE  loads' \in [Users -> [RoomIds -> Load]]
        BY <1>1, SetLoadTypes
      <4>1. PICK top \in Epochs :
              SetLoad(u, r, IF top + 1 \in Epochs
                            THEN [at |-> "regenerate", epoch |-> top + 1] ELSE NoLoad)
        BY DEF AfterLoad, Has
      <4> QED BY <1>1, <3>5, <4>1, SetLoadTypes
    <3> QED BY <2>3, <3>2, <3>3, <3>4, <3>6, SetLoadTypes DEF Decrypt, ClientTypeOK
  <2>4. CASE RegenerateBegin(u, r)
    <3> DEFINE members == {t \in Users : IsMember(r, t)}
    <3>1. loads[u][r].epoch \in Epochs
      BY <2>0, <2>4, LoadFields DEF RegenerateBegin
    <3>2. [at |-> "listed", epoch |-> loads[u][r].epoch, left |-> members] \in Load
      BY <3>1 DEF Load
    <3> QED BY <1>1, <2>4, <3>2, SetLoadTypes DEF RegenerateBegin, ClientTypeOK
  <2>7. CASE RegenerateKey(u, r)
    <3>1. loads[u][r].epoch \in Epochs /\ loads[u][r].left \subseteq Users
      BY <2>0, <2>7, LoadFields DEF RegenerateKey
    <3>2. \A k \in Blobs : [at |-> "posting", epoch |-> loads[u][r].epoch, key |-> k,
                            left |-> loads[u][r].left] \in Load
      BY <3>1 DEF Load
    <3> QED BY <2>7, <3>2, SetLoadTypes, GenerateTypes DEF RegenerateKey, ClientTypeOK
  <2>5. CASE CreateChannel(u, r)
    <3>1. [at |-> "init", room |-> r] \in Flow
      BY DEF Flow
    <3> QED BY <2>5, <3>1, SetFlowTypes DEF CreateChannel, ClientTypeOK
  <2>6. CASE r \in DMs /\ StartDM(u, r)
    <3>1. r \subseteq Users
      BY <2>6, RoomsAssumption
    <3>2. [at |-> "select", room |-> r] \in Flow
      BY DEF Flow
    <3>3. \A k \in Blobs :
            [at |-> "dmPosting", room |-> r, key |-> k, left |-> r] \in Flow
      BY <3>1 DEF Flow
    <3> QED BY <2>6, <3>2, <3>3, SetFlowTypes, GenerateTypes DEF StartDM, ClientTypeOK
  <2> QED BY <1>3, <2>1, <2>2, <2>3, <2>4, <2>5, <2>6, <2>7 DEF PageRoomStep
<1>4. ASSUME NEW u \in Users, NEW t \in Users, PageUserStep(u, t) PROVE ClientTypeOK'
  <2>0. flow[u] \in Flow
    BY DEF ClientTypeOK
  <2>1. ASSUME NEW r \in RoomIds, RegeneratePost(u, r, t) PROVE ClientTypeOK'
    <3> DEFINE load == loads[u][r]
    <3>1. load \in Load
      BY DEF ClientTypeOK
    <3>2. /\ load.at = "posting"
          /\ load.epoch \in Epochs
          /\ load.key \in Blobs
          /\ load.left \subseteq Users
      BY <2>1, <3>1, LoadFields DEF RegeneratePost
    <3>3. [load EXCEPT !.left = @ \ {t}] \in Load
      BY <3>1, <3>2 DEF Load, NoLoad
    <3> QED BY <1>1, <2>1, <3>2, <3>3, PutTypes, SetLoadTypes
            DEF RegeneratePost, ClientTypeOK
  <2>2. ASSUME NEW r \in RoomIds, Request(u, r, t) PROVE ClientTypeOK'
    BY <2>2 DEF Request, clientVars, ClientTypeOK
  <2>3. ASSUME NEW targets \in SUBSET Users, AddMembers(u, targets, t)
        PROVE  ClientTypeOK'
    <3> DEFINE r == currentRoom[u]
               f == [at |-> "nextTarget", room |-> r, todo |-> targets,
                     live |-> roomKeys[u][r] # Absent, held |-> Absent]
    <3>1. r \in RoomIds
      BY <2>3 DEF AddMembers, ClientTypeOK
    <3>2. f \in Flow
      BY <3>1 DEF Flow
    <3>3. AddTo(u, r, t, f)
      BY <2>3 DEF AddMembers
    <3>4. flow' \in [Users -> Flow]
      <4> HIDE DEF r
      <4> QED BY <3>1, <3>2, <3>3, AddToTypes
    <3> QED BY <2>3, <3>4 DEF AddMembers, ClientTypeOK
  <2>4. CASE DMPost(u, t)
    <3> DEFINE f == flow[u]
    <3>1. /\ f.at = "dmPosting"
          /\ f.room \in RoomIds
          /\ f.key \in Blobs
          /\ f.left \subseteq Users
      BY <2>0, <2>4, FlowFields DEF DMPost
    <3>2. [f EXCEPT !.left = @ \ {t}] \in Flow
      BY <2>0, <3>1 DEF Flow, NoFlow
    <3>3. [at |-> "select", room |-> f.room] \in Flow
      BY <3>1 DEF Flow
    <3>4. [NoMap EXCEPT ![0] = f.key] \in KeyMap
      BY <1>1, <3>1 DEF KeyMap
    <3>5. flow' \in [Users -> Flow]
      <4>1. \/ SetFlow(u, [at |-> "select", room |-> f.room])
            \/ SetFlow(u, [f EXCEPT !.left = @ \ {t}])
        BY <2>4 DEF DMPost
      <4> QED BY <3>2, <3>3, <4>1, SetFlowTypes
    <3>6. roomKeys' \in [Users -> [RoomIds -> KeyMap \cup {Absent}]]
      <4> DEFINE map == [NoMap EXCEPT ![0] = f.key]
                 d == f.room
      <4>1. UNCHANGED roomKeys \/ roomKeys' = [roomKeys EXCEPT ![u][d] = map]
        BY <2>4 DEF DMPost
      <4>2. map \in KeyMap /\ d \in RoomIds
        BY <3>1, <3>4
      <4>3. CASE UNCHANGED roomKeys
        BY <4>3 DEF ClientTypeOK
      <4> HIDE DEF map, d
      <4> QED BY <4>1, <4>2, <4>3, CacheTypes
    <3> QED BY <2>4, <3>5, <3>6 DEF DMPost, ClientTypeOK
  <2>5. CASE AddNext(u, t)
    <3>1. flow[u].at = "nextTarget" /\ currentRoom[u] \in RoomIds
      BY <2>5 DEF AddNext, Shape, FlowShape, Adding, ClientTypeOK
    <3> QED BY <2>0, <2>5, <3>1, AddToTypes DEF AddNext, ClientTypeOK
  <2> QED BY <1>4, <2>1, <2>2, <2>3, <2>4, <2>5 DEF PageUserStep
<1> QED BY <1>2, <1>3, <1>4 DEF Step

\* A page that keeps its flow, its room and, grown perhaps, its cache, keeps its
\* shape.
LEMMA FlowShapeKept ==
  ASSUME ClientTypeOK, NEW v \in Users, FlowShape(v),
         flow'[v] = flow[v],
         currentRoom'[v] \in {currentRoom[v]} \cup RoomIds,
         \A q \in RoomIds : roomKeys[v][q] # Absent =>
            /\ roomKeys'[v][q] # Absent
            /\ Has(roomKeys[v][q]) \subseteq Has(roomKeys'[v][q])
  PROVE  FlowShape(v)'
<1>1. flow[v] \in Flow
  BY DEF ClientTypeOK
<1>2. flow[v].at \in Adding => flow[v].room \in RoomIds
  BY <1>1, FlowFields DEF Adding
<1>3. currentRoom[v] # NoRoom => currentRoom'[v] # NoRoom
  BY RoomKeysAssumption
<1> QED BY <1>2, <1>3 DEF FlowShape, Held, Adding, Has

\* Every page keeps its caches or adds to them.
CachesGrow ==
    \A v \in Users, q \in RoomIds :
        roomKeys[v][q] # Absent =>
            /\ roomKeys'[v][q] # Absent
            /\ Has(roomKeys[v][q]) \subseteq Has(roomKeys'[v][q])

LEMMA PutGrows ==
  ASSUME ClientTypeOK, NEW u \in Users, NEW r \in RoomIds, NEW e \in Epochs,
         NEW k \in Blobs, Put(u, r, e, k)
  PROVE  CachesGrow
<1> USE RoomKeysAssumption, RoomsAssumption
<1> SUFFICES ASSUME NEW v \in Users, NEW q \in RoomIds, roomKeys[v][q] # Absent
             PROVE  /\ roomKeys'[v][q] # Absent
                    /\ Has(roomKeys[v][q]) \subseteq Has(roomKeys'[v][q])
  BY DEF CachesGrow
<1>1. CASE v = u /\ q = r
  <2>1. roomKeys'[v][q] = [roomKeys[v][q] EXCEPT ![e] = k]
    BY <1>1 DEF Put, ClientTypeOK
  <2>2. roomKeys[v][q] \in KeyMap
    BY DEF ClientTypeOK
  <2>3. roomKeys'[v][q] \in KeyMap
    BY <2>1, <2>2 DEF KeyMap
  <2> QED BY <2>1, <2>2, <2>3 DEF KeyMap, Has
<1>2. CASE ~(v = u /\ q = r)
  <2>1. roomKeys'[v][q] = roomKeys[v][q]
    BY <1>2 DEF Put, ClientTypeOK
  <2> QED BY <2>1
<1> QED BY <1>1, <1>2

LEMMA SetLoadShape ==
  ASSUME ClientTypeOK, Shape, NEW u \in Users, NEW r \in RoomIds, NEW load \in Load,
         SetLoad(u, r, load),
         load.at = "decrypting" => load.left \subseteq Has(load.rows),
         NEW v \in Users, NEW q \in RoomIds
  PROVE  LoadShape(v, q)'
<1>1. CASE v = u /\ q = r
  <2>1. loads'[v][q] = load
    BY <1>1 DEF SetLoad, ClientTypeOK
  <2> QED BY <2>1 DEF LoadShape, Has
<1>2. CASE ~(v = u /\ q = r)
  <2>1. loads'[v][q] = loads[v][q]
    BY <1>2 DEF SetLoad, ClientTypeOK
  <2> QED BY <2>1 DEF LoadShape, Shape, Has
<1> QED BY <1>1, <1>2

LEMMA LoadShapeKept ==
  ASSUME Shape, NEW v \in Users, NEW q \in RoomIds, loads'[v][q] = loads[v][q]
  PROVE  LoadShape(v, q)'
BY DEF LoadShape, Shape, Has

LEMMA SelectShape ==
  ASSUME ClientTypeOK, Shape, NEW u \in Users, NEW r \in RoomIds, Select(u, r),
         NEW v \in Users, NEW q \in RoomIds
  PROVE  LoadShape(v, q)'
<1> DEFINE asked == [at |-> "asked"]
<1>1. asked \in Load /\ asked.at # "decrypting"
  BY DEF Load
<1>2. UNCHANGED loads \/ SetLoad(u, r, asked)
  BY DEF Select
<1> HIDE DEF asked
<1>3. CASE UNCHANGED loads
  BY <1>3, LoadShapeKept
<1> QED BY <1>1, <1>2, <1>3, SetLoadShape

LEMMA FreshPageShape ==
  ASSUME ClientTypeOK, Shape, NEW u \in Users, FreshPage(u),
         NEW v \in Users, NEW q \in RoomIds
  PROVE  LoadShape(v, q)'
<1>1. loads'[v][q] = IF v = u THEN NoLoad ELSE loads[v][q]
  BY DEF FreshPage, ClientTypeOK
<1>2. CASE v = u
  BY <1>1, <1>2 DEF LoadShape, NoLoad
<1> QED BY <1>1, <1>2, LoadShapeKept

\* Loads: only LoadRows starts to decrypt, and Decrypt has less left each time.
LEMMA LoadShapeStep ==
  ASSUME RoomsTypeOK, ClientTypeOK, Shape, Step, NEW v \in Users, NEW q \in RoomIds
  PROVE  LoadShape(v, q)'
<1> DEFINE Goal == LoadShape(v, q)'
<1>0. /\ NoLoad \in Load /\ NoLoad.at # "decrypting"
      /\ [at |-> "asked"] \in Load /\ [at |-> "asked"].at # "decrypting"
  BY DEF Load, NoLoad
<1>1. ASSUME NEW u \in Users, PageStep(u) PROVE Goal
  <2>1. CASE Reconnect(u)
    <3>1. currentRoom[u] \in RoomIds
      BY <2>1 DEF Reconnect, ClientTypeOK
    <3> QED BY <1>0, <2>1, <3>1, SetLoadShape DEF Reconnect
  <2>2. CASE SelectAfter(u)
    <3>1. flow[u].room \in RoomIds
      BY <2>2, FlowFields DEF SelectAfter, ClientTypeOK
    <3> QED BY <2>2, <3>1, SelectShape DEF SelectAfter
  <2>3. CASE FreshPage(u)
    BY <2>3, FreshPageShape
  <2>4. CASE UNCHANGED loads
    BY <2>4, LoadShapeKept
  <2> QED BY <1>1, <2>1, <2>2, <2>3, <2>4
          DEF PageStep, InitRoomKey, ShareBegin, SharePost, SendMessage, ReloadPage,
              LoseKey
<1>2. ASSUME NEW u \in Users, NEW r \in RoomIds, PageRoomStep(u, r) PROVE Goal
  <2>1. CASE SelectRoom(u, r)
    BY <2>1, SelectShape DEF SelectRoom
  <2>2. CASE LoadRows(u, r)
    <3> DEFINE rows == room_keys[r][u]
               load == [at |-> "decrypting", rows |-> rows, left |-> Has(rows)]
    <3>1. load \in Load /\ load.left \subseteq Has(load.rows)
      BY DEF RoomsTypeOK, KeyMap, Load, Has
    <3>2. SetLoad(u, r, load) \/ SetLoad(u, r, NoLoad)
      BY <2>2 DEF LoadRows
    <3> HIDE DEF load
    <3> QED BY <1>0, <3>1, <3>2, SetLoadShape
  <2>3. CASE Decrypt(u, r)
    <3> DEFINE load == loads[u][r]
    <3>1. /\ load \in Load
          /\ load.at = "decrypting"
          /\ load.rows \in KeyMap
          /\ load.left \subseteq Epochs
          /\ load.left \subseteq Has(load.rows)
      BY <2>3, LoadFields DEF Decrypt, ClientTypeOK, Shape, LoadShape
    <3>2. PICK e \in load.left : \/ AfterLoad(u, r, load.rows)
                                \/ SetLoad(u, r, [load EXCEPT !.left = @ \ {e}])
      BY <2>3 DEF Decrypt
    <3>3. CASE AfterLoad(u, r, load.rows)
      <4>1. PICK next \in Load : SetLoad(u, r, next) /\ next.at # "decrypting"
        <5>1. SetLoad(u, r, NoLoad)
              \/ \E top \in Epochs :
                    /\ top + 1 \in Epochs
                    /\ SetLoad(u, r, [at |-> "regenerate", epoch |-> top + 1])
          BY <3>3 DEF AfterLoad, Has
        <5>2. \A top \in Epochs : top + 1 \in Epochs =>
                /\ [at |-> "regenerate", epoch |-> top + 1] \in Load
                /\ [at |-> "regenerate", epoch |-> top + 1].at # "decrypting"
          BY DEF Load
        <5> QED BY <1>0, <5>1, <5>2
      <4> QED BY <4>1, SetLoadShape
    <3>4. CASE SetLoad(u, r, [load EXCEPT !.left = @ \ {e}])
      <4> DEFINE next == [load EXCEPT !.left = @ \ {e}]
      <4>1. next \in Load /\ next.left \subseteq Has(next.rows)
        BY <3>1 DEF Load, NoLoad, Has
      <4>2. SetLoad(u, r, next)
        BY <3>4
      <4> HIDE DEF next
      <4> QED BY <4>1, <4>2, SetLoadShape
    <3> QED BY <3>2, <3>3, <3>4
  <2>4. CASE RegenerateBegin(u, r)
    <3> DEFINE members == {t \in Users : IsMember(r, t)}
               listed == [at |-> "listed", epoch |-> loads[u][r].epoch, left |-> members]
    <3>1. loads[u][r].epoch \in Epochs
      BY <2>4, LoadFields DEF RegenerateBegin, ClientTypeOK
    <3>2. listed \in Load /\ listed.at # "decrypting"
      BY <3>1 DEF Load
    <3>3. SetLoad(u, r, NoLoad) \/ SetLoad(u, r, listed)
      BY <2>4 DEF RegenerateBegin
    <3> HIDE DEF listed
    <3> QED BY <1>0, <3>2, <3>3, SetLoadShape
  <2>6. CASE RegenerateKey(u, r)
    <3> DEFINE posting(k) == [at |-> "posting", epoch |-> loads[u][r].epoch,
                              key |-> k, left |-> loads[u][r].left]
    <3>1. loads[u][r].epoch \in Epochs /\ loads[u][r].left \subseteq Users
      BY <2>6, LoadFields DEF RegenerateKey, ClientTypeOK
    <3>2. \A k \in Blobs : posting(k) \in Load /\ posting(k).at # "decrypting"
      BY <3>1 DEF Load
    <3>3. \E k \in Blobs : SetLoad(u, r, posting(k))
      BY <2>6 DEF RegenerateKey
    <3> HIDE DEF posting
    <3> QED BY <3>2, <3>3, SetLoadShape
  <2>5. CASE CreateChannel(u, r) \/ StartDM(u, r)
    BY <2>5, LoadShapeKept DEF CreateChannel, StartDM
  <2> QED BY <1>2, <2>1, <2>2, <2>3, <2>4, <2>5, <2>6 DEF PageRoomStep
<1>3. ASSUME NEW u \in Users, NEW t \in Users, PageUserStep(u, t) PROVE Goal
  <2>1. ASSUME NEW r \in RoomIds, RegeneratePost(u, r, t) PROVE Goal
    <3> DEFINE next == [loads[u][r] EXCEPT !.left = @ \ {t}]
    <3>1. loads[u][r] \in Load /\ loads[u][r].at = "posting"
      BY <2>1 DEF RegeneratePost, ClientTypeOK
    <3>2. next \in Load /\ next.at # "decrypting"
      BY <3>1 DEF Load, NoLoad
    <3>3. SetLoad(u, r, NoLoad) \/ SetLoad(u, r, next)
      BY <2>1 DEF RegeneratePost
    <3> HIDE DEF next
    <3> QED BY <1>0, <3>2, <3>3, SetLoadShape
  <2>2. CASE UNCHANGED loads
    BY <2>2, LoadShapeKept
  <2> QED BY <1>3, <2>1, <2>2
          DEF PageUserStep, Request, clientVars, AddMembers, DMPost, AddNext
<1> QED BY <1>1, <1>2, <1>3 DEF Step

\* What is to be shown of a new flow f of page u.
GoodShape(u, f) ==
    /\ f.at \in Adding => currentRoom'[u] # NoRoom
    /\ f.at \in Adding /\ f.live => roomKeys'[u][f.room] # Absent
    /\ f.at \in {"added", "sharing"} =>
          (IF f.live THEN roomKeys'[u][f.room] ELSE f.held) # Absent
    /\ f.at = "sharing" =>
          f.left \subseteq Has(IF f.live THEN roomKeys'[u][f.room] ELSE f.held)

LEMMA SetFlowShape ==
  ASSUME ClientTypeOK, Shape, NEW u \in Users, NEW f, SetFlow(u, f), GoodShape(u, f),
         NEW v \in Users, v # u => currentRoom'[v] = currentRoom[v],
         v # u => roomKeys'[v] = roomKeys[v]
  PROVE  FlowShape(v)'
<1>1. CASE v = u
  <2>1. flow'[v] = f
    BY <1>1 DEF SetFlow, ClientTypeOK
  <2> QED BY <1>1, <2>1 DEF GoodShape, FlowShape, Held, Has
<1>2. CASE v # u
  <2>1. flow'[v] = flow[v] /\ currentRoom'[v] = currentRoom[v]
        /\ roomKeys'[v] = roomKeys[v]
    BY <1>2 DEF SetFlow, ClientTypeOK
  <2> QED BY <2>1 DEF FlowShape, Shape, Held, Has
<1> QED BY <1>1, <1>2

LEMMA FreshPageFlowShape ==
  ASSUME ClientTypeOK, Shape, NEW u \in Users, FreshPage(u), NEW v \in Users
  PROVE  FlowShape(v)'
<1>1. SetFlow(u, NoFlow) /\ GoodShape(u, NoFlow)
  BY DEF FreshPage, SetFlow, GoodShape, NoFlow, Adding
<1>2. v # u => currentRoom'[v] = currentRoom[v] /\ roomKeys'[v] = roomKeys[v]
  BY DEF FreshPage, ClientTypeOK
<1> QED BY <1>1, <1>2, SetFlowShape

LEMMA AddToShape ==
  ASSUME ClientTypeOK, Shape, NEW u \in Users, NEW r \in RoomIds, NEW t \in Users,
         NEW f \in Flow, f.at = "nextTarget", AddTo(u, r, t, f),
         f.live => roomKeys[u][f.room] # Absent,
         currentRoom[u] # NoRoom, UNCHANGED <<roomKeys, currentRoom>>,
         NEW v \in Users
  PROVE  FlowShape(v)'
<1> DEFINE todo == f.todo \ {t}
           added == [at |-> "added", room |-> f.room, live |-> f.live,
                     held |-> f.held, target |-> t, todo |-> todo]
<1>1. GoodShape(u, NextTarget(f, todo))
  BY DEF GoodShape, NextTarget, NoFlow, Adding
<1>2. Held(u, f) \notin {Absent, NoMap} => GoodShape(u, added)
  BY DEF GoodShape, Adding, Held
<1>3. \/ SetFlow(u, NextTarget(f, todo))
      \/ Held(u, f) \notin {Absent, NoMap} /\ SetFlow(u, added)
  BY DEF AddTo
<1> HIDE DEF added, todo
<1> QED BY <1>1, <1>2, <1>3, SetFlowShape

LEMMA ReplaceShape ==
  ASSUME ClientTypeOK, Shape, NEW u \in Users, NEW r \in RoomIds, NEW map \in KeyMap,
         Replace(u, r, map), UNCHANGED currentRoom, NEW v \in Users
  PROVE  FlowShape(v)'
<1> USE RoomKeysAssumption
<1>1. map # Absent
  BY DEF KeyMap
<1>2. roomKeys'[v] = IF v = u THEN [roomKeys[v] EXCEPT ![r] = map] ELSE roomKeys[v]
  BY DEF Replace, ClientTypeOK
<1>3. flow[v] \in Flow
  BY DEF ClientTypeOK
<1>4. flow[v].at \in Adding => flow[v].room \in RoomIds
  BY <1>3, FlowFields DEF Adding
<1>5. CASE flow'[v] = flow[v]
  <2>1. CASE v = u /\ flow[v].at \in Adding /\ flow[v].room = r /\ flow[v].live
    \* Then Replace would have changed the flow.
    <3>1. flow' = [flow EXCEPT ![u].live = FALSE, ![u].held = roomKeys[u][r]]
      BY <2>1 DEF Replace, Adding
    <3>2. flow'[v] = [flow[v] EXCEPT !.live = FALSE, !.held = roomKeys[u][r]]
      BY <2>1, <3>1 DEF ClientTypeOK
    <3>3. flow'[v].live = FALSE
      BY <2>1, <3>2 DEF Adding, Flow, NoFlow, ClientTypeOK
    <3> QED BY <1>5, <2>1, <3>3
  <2>2. CASE ~(v = u /\ flow[v].at \in Adding /\ flow[v].room = r /\ flow[v].live)
    <3>1. flow[v].at \in Adding /\ flow[v].live
          => roomKeys'[v][flow[v].room] = roomKeys[v][flow[v].room]
      BY <1>2, <1>4, <2>2 DEF ClientTypeOK
    <3> QED BY <1>5, <3>1 DEF FlowShape, Shape, Held, Has, Adding
  <2> QED BY <2>1, <2>2
<1>6. CASE flow'[v] # flow[v]
  <2> DEFINE keys == roomKeys[u][r]
  <2>1. /\ v = u
        /\ flow[u].at \in Adding /\ flow[u].room = r /\ flow[u].live
        /\ flow'[u] = [flow[u] EXCEPT !.live = FALSE, !.held = keys]
    BY <1>6 DEF Replace, Adding, ClientTypeOK
  <2>2. /\ flow'[u].at = flow[u].at
        /\ flow'[u].live = FALSE
        /\ flow'[u].held = keys
        /\ flow[u].at = "sharing" => flow'[u].left = flow[u].left
    <3> HIDE DEF keys
    <3>1. CASE flow[u].at = "added"
      BY <1>3, <2>1, <3>1 DEF Flow, NoFlow
    <3>2. CASE flow[u].at = "sharing"
      BY <1>3, <2>1, <3>2 DEF Flow, NoFlow
    <3>3. CASE flow[u].at = "nextTarget"
      BY <1>3, <2>1, <3>3 DEF Flow, NoFlow
    <3> QED BY <2>1, <3>1, <3>2, <3>3 DEF Adding
  <2>3. /\ FlowShape(u)
        /\ flow[u].at \in {"added", "sharing"} => Held(u, flow[u]) = keys
    BY <2>1 DEF Shape, Held
  <2> HIDE DEF keys
  <2> QED BY <2>1, <2>2, <2>3 DEF FlowShape, Held, Has, Adding
<1> QED BY <1>5, <1>6

\* Flows: one case per action, by what it does to the flow, the room shown and
\* the caches.
LEMMA FlowShapeStep ==
  ASSUME RoomsTypeOK, ClientTypeOK, Shape, Step, NEW v \in Users
  PROVE  FlowShape(v)'
<1> DEFINE Goal == FlowShape(v)'
<1> USE RoomKeysAssumption
<1>0. UNCHANGED roomKeys => CachesGrow
  BY DEF CachesGrow
<1>a. ASSUME UNCHANGED <<flow, currentRoom>>, CachesGrow PROVE Goal
  BY <1>a, FlowShapeKept DEF CachesGrow, Shape
<1>b. ASSUME NEW u \in Users, NEW f, SetFlow(u, f), f.at \notin Adding,
             v # u => currentRoom'[v] = currentRoom[v],
             v # u => roomKeys'[v] = roomKeys[v]
      PROVE  Goal
  <2>1. GoodShape(u, f)
    BY <1>b DEF GoodShape, Adding
  <2> QED BY <1>b, <2>1, SetFlowShape
<1>1. ASSUME NEW u \in Users, PageStep(u) PROVE Goal
  <2>0. flow[u] \in Flow /\ FlowShape(u)
    BY DEF ClientTypeOK, Shape
  <2>1. CASE Reconnect(u) \/ SendMessage(u)
    BY <1>0, <1>a, <2>1 DEF Reconnect, SendMessage
  <2>2. CASE InitRoomKey(u)
    <3>1. v # u => currentRoom'[v] = currentRoom[v] /\ roomKeys'[v] = roomKeys[v]
      BY <2>2 DEF InitRoomKey, ClientTypeOK
    <3>2. [at |-> "select", room |-> flow[u].room].at \notin Adding
      BY DEF Adding
    <3> QED BY <1>b, <2>2, <3>1, <3>2 DEF InitRoomKey
  <2>3. CASE SelectAfter(u)
    <3>1. v # u => currentRoom'[v] = currentRoom[v] /\ roomKeys'[v] = roomKeys[v]
      BY <2>3 DEF SelectAfter, Select, ClientTypeOK
    <3>2. NoFlow.at \notin Adding
      BY DEF Adding, NoFlow
    <3> QED BY <1>b, <2>3, <3>1, <3>2 DEF SelectAfter
  <2>4. CASE ShareBegin(u)
    <3> DEFINE f == flow[u]
               next == [at |-> "sharing", room |-> f.room, live |-> f.live,
                        held |-> f.held, target |-> f.target, todo |-> f.todo,
                        left |-> Has(Held(u, f))]
    <3>1. /\ currentRoom[u] # NoRoom
          /\ f.live => roomKeys[u][f.room] # Absent
          /\ Held(u, f) # Absent
      BY <2>0, <2>4 DEF FlowShape, Adding, ShareBegin
    <3>2. GoodShape(u, next)
      BY <2>4, <3>1 DEF GoodShape, Held, Adding, ShareBegin
    <3>3. SetFlow(u, next) /\ UNCHANGED <<roomKeys, currentRoom>>
      BY <2>4 DEF ShareBegin
    <3> HIDE DEF next
    <3> QED BY <3>2, <3>3, SetFlowShape
  <2>5. CASE SharePost(u)
    <3> DEFINE f == flow[u]
               next(e) == [f EXCEPT !.left = @ \ {e}]
    <3>1. /\ f.at = "sharing"
          /\ currentRoom[u] # NoRoom
          /\ f.live => roomKeys[u][f.room] # Absent
          /\ Held(u, f) # Absent
          /\ f.left \subseteq Has(Held(u, f))
      BY <2>0, <2>5 DEF FlowShape, Adding, SharePost
    <3>2. UNCHANGED <<roomKeys, currentRoom>>
      BY <2>5 DEF SharePost
    <3>3. GoodShape(u, NextTarget(f, f.todo))
      BY <3>1, <3>2 DEF GoodShape, NextTarget, NoFlow, Adding
    <3>4. \A e : GoodShape(u, next(e))
      <4> SUFFICES ASSUME NEW e PROVE GoodShape(u, next(e))
        OBVIOUS
      <4>1. /\ next(e).at = "sharing"
            /\ next(e).live = f.live
            /\ next(e).held = f.held
            /\ next(e).room = f.room
            /\ next(e).left = f.left \ {e}
        BY <2>0, <3>1 DEF Flow, NoFlow
      <4> HIDE DEF next
      <4> QED BY <3>1, <3>2, <4>1 DEF GoodShape, Held
    <3>5. \/ SetFlow(u, NextTarget(f, f.todo))
          \/ \E e : SetFlow(u, next(e))
      BY <2>5 DEF SharePost
    <3> HIDE DEF next
    <3> QED BY <3>2, <3>3, <3>4, <3>5, SetFlowShape
  <2>6. CASE FreshPage(u)
    BY <2>6, FreshPageFlowShape
  <2> QED BY <1>1, <2>1, <2>2, <2>3, <2>4, <2>5, <2>6 DEF PageStep, ReloadPage, LoseKey
<1>2. ASSUME NEW u \in Users, NEW r \in RoomIds, PageRoomStep(u, r) PROVE Goal
  <2>1. CASE SelectRoom(u, r)
    <3>1. currentRoom'[v] \in {currentRoom[v]} \cup RoomIds
      BY <2>1 DEF SelectRoom, Select, ClientTypeOK
    <3>2. flow'[v] = flow[v] /\ roomKeys'[v] = roomKeys[v]
      BY <2>1 DEF SelectRoom
    <3> QED BY <3>1, <3>2, FlowShapeKept DEF Shape
  <2>2. CASE LoadRows(u, r)
    <3>1. NoMap \in KeyMap
      BY DEF NoMap, KeyMap
    <3>2. CASE Replace(u, r, NoMap)
      BY <2>2, <3>1, <3>2, ReplaceShape DEF LoadRows
    <3>3. CASE UNCHANGED <<roomKeys, flow>>
      BY <1>0, <1>a, <2>2, <3>3 DEF LoadRows
    <3> QED BY <2>2, <3>2, <3>3 DEF LoadRows
  <2>3. CASE Decrypt(u, r)
    <3> DEFINE load == loads[u][r]
    <3>1. /\ load.rows \in KeyMap
          /\ load.left \subseteq Epochs
          /\ load.left \subseteq Has(load.rows)
      BY <2>3, LoadFields DEF Decrypt, ClientTypeOK, Shape, LoadShape
    <3>2. PICK e \in load.left :
            IF paired[u] THEN Put(u, r, e, load.rows[e]) ELSE UNCHANGED roomKeys
      BY <2>3 DEF Decrypt
    <3>3. e \in Epochs /\ load.rows[e] \in Blobs
      BY <3>1 DEF Has, KeyMap
    <3>4. CachesGrow
      <4> HIDE DEF load
      <4> QED BY <1>0, <3>2, <3>3, PutGrows
    <3> QED BY <1>a, <2>3, <3>4 DEF Decrypt
  <2>4. CASE RegenerateBegin(u, r) \/ RegenerateKey(u, r)
    BY <1>0, <1>a, <2>4 DEF RegenerateBegin, RegenerateKey
  <2>5. CASE CreateChannel(u, r)
    <3>1. [at |-> "init", room |-> r].at \notin Adding
      BY DEF Adding
    <3> QED BY <1>b, <2>5, <3>1 DEF CreateChannel
  <2>6. CASE StartDM(u, r)
    <3>1. PICK f : SetFlow(u, f) /\ f.at \notin Adding
      <4>1. [at |-> "select", room |-> r].at \notin Adding
        BY DEF Adding
      <4>2. \A k : [at |-> "dmPosting", room |-> r, key |-> k, left |-> r].at \notin Adding
        BY DEF Adding
      <4>3. \/ SetFlow(u, [at |-> "select", room |-> r])
            \/ \E k \in Blobs :
                  SetFlow(u, [at |-> "dmPosting", room |-> r, key |-> k, left |-> r])
        BY <2>6 DEF StartDM
      <4> QED BY <4>1, <4>2, <4>3
    <3> QED BY <1>b, <2>6, <3>1 DEF StartDM
  <2> QED BY <1>2, <2>1, <2>2, <2>3, <2>4, <2>5, <2>6 DEF PageRoomStep
<1>3. ASSUME NEW u \in Users, NEW t \in Users, PageUserStep(u, t) PROVE Goal
  <2>0. flow[u] \in Flow /\ FlowShape(u)
    BY DEF ClientTypeOK, Shape
  <2>1. ASSUME NEW r \in RoomIds, RegeneratePost(u, r, t) PROVE Goal
    <3> DEFINE load == loads[u][r]
    <3>1. load.epoch \in Epochs /\ load.key \in Blobs
      BY <2>1, LoadFields DEF RegeneratePost, ClientTypeOK
    <3>2. Put(u, r, load.epoch, load.key) \/ UNCHANGED roomKeys
      BY <2>1 DEF RegeneratePost
    <3>3. CachesGrow
      <4> HIDE DEF load
      <4> QED BY <1>0, <3>1, <3>2, PutGrows
    <3> QED BY <1>a, <2>1, <3>3 DEF RegeneratePost
  <2>2. ASSUME NEW r \in RoomIds, Request(u, r, t) PROVE Goal
    BY <1>0, <1>a, <2>2 DEF Request, clientVars
  <2>3. ASSUME NEW targets \in SUBSET Users, AddMembers(u, targets, t) PROVE Goal
    <3> DEFINE r == currentRoom[u]
               f == [at |-> "nextTarget", room |-> r, todo |-> targets,
                     live |-> roomKeys[u][r] # Absent, held |-> Absent]
    <3>1. r \in RoomIds /\ r # NoRoom
      BY <2>3 DEF AddMembers, ClientTypeOK
    <3>2. f \in Flow /\ f.at = "nextTarget" /\ (f.live => roomKeys[u][f.room] # Absent)
      BY <3>1 DEF Flow
    <3>3. AddTo(u, r, t, f) /\ UNCHANGED <<roomKeys, currentRoom>>
      BY <2>3 DEF AddMembers
    <3>4. currentRoom[u] # NoRoom
      BY <3>1
    <3> HIDE DEF f, r
    <3> QED BY <3>1, <3>2, <3>3, <3>4, AddToShape
  <2>4. CASE DMPost(u, t)
    <3> DEFINE next == [flow[u] EXCEPT !.left = @ \ {t}]
    <3>1. PICK f : SetFlow(u, f) /\ f.at \notin Adding
      <4>1. [at |-> "select", room |-> flow[u].room].at \notin Adding
        BY DEF Adding
      <4>2. next.at \notin Adding
        BY <2>0, <2>4 DEF Adding, DMPost, Flow, NoFlow
      <4>3. \/ SetFlow(u, [at |-> "select", room |-> flow[u].room])
            \/ SetFlow(u, next)
        BY <2>4 DEF DMPost
      <4> HIDE DEF next
      <4> QED BY <4>1, <4>2, <4>3
    <3>2. v # u => currentRoom'[v] = currentRoom[v] /\ roomKeys'[v] = roomKeys[v]
      BY <2>4 DEF DMPost, ClientTypeOK
    <3> QED BY <1>b, <3>1, <3>2
  <2>5. CASE AddNext(u, t)
    <3>1. /\ flow[u].at = "nextTarget"
          /\ currentRoom[u] \in RoomIds
          /\ flow[u].live => roomKeys[u][flow[u].room] # Absent
      BY <2>0, <2>5 DEF AddNext, FlowShape, Adding, ClientTypeOK
    <3>2. AddTo(u, currentRoom[u], t, flow[u]) /\ UNCHANGED <<roomKeys, currentRoom>>
      BY <2>5 DEF AddNext
    <3> QED BY <2>0, <3>1, <3>2, AddToShape
  <2> QED BY <1>3, <2>1, <2>2, <2>3, <2>4, <2>5 DEF PageUserStep
<1> QED BY <1>1, <1>2, <1>3 DEF Step

-----------------------------------------------------------------------------
(* The room service sees only requests it knows.                           *)

\* A use of TryStoreKey in a well-shaped state is a step of the service.
LEMMA ServiceStep ==
  ASSUME RoomsTypeOK, ClientTypeOK, Shape, Step
  PROVE  [RoomsNext]_roomVars
<1> USE RoomKeysAssumption
<1>1. ASSUME NEW u \in Users, PageStep(u) PROVE [RoomsNext]_roomVars
  <2>1. CASE InitRoomKey(u)
    <3>1. flow[u].room \in RoomIds
      BY <2>1, FlowFields DEF InitRoomKey, ClientTypeOK
    <3>2. PICK k \in Blobs : TryStoreKey(u, flow[u].room, u, 0, k)
      BY <2>1 DEF InitRoomKey
    <3> QED BY <3>1, <3>2, StoreKeyStep
  <2>2. CASE SharePost(u)
    <3> DEFINE f == flow[u]
               r == currentRoom[u]
               held == Held(u, f)
    <3>1. /\ f \in Flow
          /\ f.at = "sharing"
          /\ r \in RoomIds
          /\ f.live => roomKeys[u][f.room] # Absent
          /\ held # Absent
          /\ f.left \subseteq Has(held)
      BY <2>2 DEF SharePost, ClientTypeOK, Shape, FlowShape, Adding
    <3>2. /\ f.room \in RoomIds
          /\ f.held \in KeyMap \cup {Absent}
          /\ f.target \in Users
      BY <3>1, FlowFields
    <3>3. held \in KeyMap
      BY <3>1, <3>2 DEF Held, ClientTypeOK
    <3>4. PICK e \in f.left : TryStoreKey(u, r, f.target, e, held[e])
      BY <2>2 DEF SharePost
    <3>5. e \in Epochs /\ held[e] \in Blobs
      BY <3>1, <3>3, <3>4 DEF Has, KeyMap
    <3> HIDE DEF r, held
    <3> QED BY <3>1, <3>2, <3>4, <3>5, StoreKeyStep
  <2>3. CASE UNCHANGED roomVars
    BY <2>3
  <2> QED BY <1>1, <2>1, <2>2, <2>3
          DEF PageStep, Reconnect, SelectAfter, ShareBegin, SendMessage, ReloadPage,
              LoseKey
<1>2. ASSUME NEW u \in Users, NEW r \in RoomIds, PageRoomStep(u, r)
      PROVE  [RoomsNext]_roomVars
  <2>1. ASSUME NEW w \in Visibilities, CreateRoom(u, r, w) PROVE [RoomsNext]_roomVars
    BY <2>1 DEF RoomsNext, RoomStep
  <2>2. CASE CreateDM(u, r)
    BY <2>2 DEF RoomsNext, RoomStep
  <2>3. CASE UNCHANGED roomVars
    BY <2>3
  <2> QED BY <1>2, <2>1, <2>2, <2>3
          DEF PageRoomStep, SelectRoom, LoadRows, Decrypt, RegenerateBegin,
              RegenerateKey, CreateChannel, StartDM
<1>3. ASSUME NEW u \in Users, NEW t \in Users, PageUserStep(u, t)
      PROVE  [RoomsNext]_roomVars
  <2>1. ASSUME NEW r \in RoomIds, RegeneratePost(u, r, t) PROVE [RoomsNext]_roomVars
    <3>1. loads[u][r].epoch \in Epochs /\ loads[u][r].key \in Blobs
      BY <2>1, LoadFields DEF RegeneratePost, ClientTypeOK
    <3>2. TryStoreKey(u, r, t, loads[u][r].epoch, loads[u][r].key)
      BY <2>1 DEF RegeneratePost
    <3> QED BY <3>1, <3>2, StoreKeyStep
  <2>2. ASSUME NEW r \in RoomIds, Request(u, r, t) PROVE [RoomsNext]_roomVars
    BY <2>2 DEF Request, RoomsNext, RoomStep, MemberStep, Roles
  <2>3. ASSUME NEW r \in RoomIds, AddMember(u, r, t) PROVE [RoomsNext]_roomVars
    BY <2>3 DEF RoomsNext, MemberStep
  <2>4. ASSUME NEW targets \in SUBSET Users, AddMembers(u, targets, t)
        PROVE  [RoomsNext]_roomVars
    <3>1. currentRoom[u] \in RoomIds
      BY <2>4 DEF AddMembers, ClientTypeOK
    <3>2. AddMember(u, currentRoom[u], t) \/ UNCHANGED roomVars
      BY <2>4 DEF AddMembers, AddTo
    <3> QED BY <2>3, <3>1, <3>2
  <2>5. CASE DMPost(u, t)
    <3>1. /\ flow[u].room \in RoomIds
          /\ flow[u].key \in Blobs
      BY <2>5, FlowFields DEF DMPost, ClientTypeOK
    <3>2. TryStoreKey(u, flow[u].room, t, 0, flow[u].key)
      BY <2>5 DEF DMPost
    <3> QED BY <3>1, <3>2, StoreKeyStep
  <2>6. CASE AddNext(u, t)
    <3>1. currentRoom[u] \in RoomIds
      BY <2>6 DEF AddNext, ClientTypeOK, Shape, FlowShape, Adding
    <3>2. AddMember(u, currentRoom[u], t) \/ UNCHANGED roomVars
      BY <2>6 DEF AddNext, AddTo
    <3> QED BY <2>3, <3>1, <3>2
  <2> QED BY <1>3, <2>1, <2>2, <2>4, <2>5, <2>6 DEF PageUserStep
<1> QED BY <1>1, <1>2, <1>3 DEF Step

-----------------------------------------------------------------------------
(* Type correctness and the refinement of the room service.                *)

TypeInv == TypeOK /\ Shape

LEMMA InitTypeInv == Init => TypeInv
<1> SUFFICES ASSUME Init PROVE TypeInv
  OBVIOUS
<1>1. RoomsTypeOK
  BY InitInv DEF Init, Inv
<1>2. ClientTypeOK /\ entitled \in [Blobs -> SUBSET Users]
  BY DEF Init, ClientTypeOK, Load, Flow
<1>3. Shape
  BY DEF Init, Shape, FlowShape, LoadShape, NoFlow, NoLoad, Adding
<1> QED BY <1>1, <1>2, <1>3 DEF TypeInv, TypeOK, ClientTypeOK

LEMMA TypeInvStep == TypeInv /\ [Next]_vars => TypeInv'
<1> SUFFICES ASSUME TypeInv, [Next]_vars PROVE TypeInv'
  OBVIOUS
<1>0. RoomsTypeOK /\ ClientTypeOK /\ Shape /\ entitled \in [Blobs -> SUBSET Users]
  BY DEF TypeInv, TypeOK, ClientTypeOK
<1>1. CASE UNCHANGED vars
  BY <1>1 DEF vars, clientVars, roomVars, TypeInv, TypeOK, RoomsTypeOK, Shape, FlowShape,
              LoadShape, Held, Has
<1>2. CASE Next
  <2>1. Step
    BY <1>2 DEF Next
  <2>2. RoomsTypeOK'
    BY <1>0, <2>1, ServiceStep, TypeStep
  <2>3. ClientTypeOK'
    BY <1>0, <2>1, ClientTypeStep
  <2>4. Shape'
    BY <1>0, <2>1, FlowShapeStep, LoadShapeStep DEF Shape
  <2>5. entitled' \in [Blobs -> SUBSET Users]
    BY <1>0, <1>2 DEF Next
  <2> QED BY <2>2, <2>3, <2>4, <2>5 DEF TypeInv, TypeOK, ClientTypeOK
<1> QED BY <1>1, <1>2

LEMMA TypeInvariant == Spec => []TypeInv
BY InitTypeInv, TypeInvStep, PTL DEF Spec

\* The state of the server and of every page has the type of the model.
THEOREM RoomKeysTypes == Spec => []TypeOK
<1>1. TypeInv => TypeOK
  BY DEF TypeInv
<1> QED BY <1>1, TypeInvariant, PTL

\* Whatever the clients' flows do, in whatever order, the room service makes a
\* step of its own: what is shown above of the room service holds with the real clients.
THEOREM ClientsUseTheService == Spec => RoomsSpec
<1>1. Init => RoomsInit
  BY DEF Init
<1>2. TypeInv /\ [Next]_vars => [RoomsNext]_roomVars
  <2> SUFFICES ASSUME TypeInv, Next PROVE [RoomsNext]_roomVars
    BY DEF vars, roomVars
  <2>1. RoomsTypeOK /\ ClientTypeOK /\ Shape /\ Step
    BY DEF TypeInv, TypeOK, ClientTypeOK, Next
  <2> QED BY <2>1, ServiceStep
<1> QED BY <1>1, <1>2, TypeInvariant, PTL DEF Spec, RoomsSpec

-----------------------------------------------------------------------------
(* Keys stay in their room and reach only members.                         *)

\* A copy of k in the hands of u for room r is where it should be.
Good(u, r, k) ==
    k # NoBlob => minted[k] # Unmade /\ minted[k].room = r /\ Entitled(u, k)

GoodNext(u, r, k) ==
    k # NoBlob => /\ minted'[k] # Unmade
                  /\ minted'[k].room = r
                  /\ u = minted'[k].by \/ u \in entitled'[k]

\* The copies: blobs at the server, caches, blobs being decrypted and keys being
\* posted, the caches held by a flow that adds members.  Such a flow runs in the
\* room whose keys it holds: this is what StayPut gives.
RowsGood == \A v \in Users, q \in RoomIds, e \in Epochs : Good(v, q, room_keys[q][v][e])

CachesGood ==
    \A v \in Users, q \in RoomIds : roomKeys[v][q] # Absent =>
        \A e \in Epochs : Good(v, q, roomKeys[v][q][e])

LoadGood(v, q) ==
    /\ loads[v][q].at = "decrypting" =>
          \A e \in Epochs : Good(v, q, loads[v][q].rows[e])
    /\ loads[v][q].at = "posting" => Good(v, q, loads[v][q].key)

FlowGood(v) ==
    /\ flow[v].at = "dmPosting" => Good(v, flow[v].room, flow[v].key)
    /\ flow[v].at \in Adding =>
          /\ currentRoom[v] = flow[v].room
          /\ flow[v].held # Absent =>
                \A e \in Epochs : Good(v, flow[v].room, flow[v].held[e])

CopiesGood ==
    /\ RowsGood
    /\ CachesGood
    /\ \A v \in Users, q \in RoomIds : LoadGood(v, q)
    /\ \A v \in Users : FlowGood(v)

\* What was generated stays so.
LEMMA MintedStays ==
  ASSUME TypeInv, Step, NEW k \in Blobs, minted[k] # Unmade
  PROVE  minted'[k] = minted[k]
<1>1. ASSUME NEW u \in Users, NEW j \in Blobs, NEW r, Generate(u, j, r)
      PROVE  minted'[k] = minted[k]
  BY <1>1 DEF Generate, TypeInv, TypeOK
<1>2. CASE UNCHANGED minted
  BY <1>2
<1>3. ASSUME NEW u \in Users, PageStep(u) PROVE minted'[k] = minted[k]
  BY <1>1, <1>2, <1>3 DEF PageStep, Reconnect, InitRoomKey, SelectAfter, ShareBegin,
     SharePost, SendMessage, ReloadPage, LoseKey
<1>4. ASSUME NEW u \in Users, NEW r \in RoomIds, PageRoomStep(u, r)
      PROVE  minted'[k] = minted[k]
  BY <1>1, <1>2, <1>4 DEF PageRoomStep, SelectRoom, LoadRows, Decrypt, RegenerateBegin,
     RegenerateKey, CreateChannel, StartDM
<1>5. ASSUME NEW u \in Users, NEW t \in Users, PageUserStep(u, t)
      PROVE  minted'[k] = minted[k]
  BY <1>2, <1>5 DEF PageUserStep, RegeneratePost, Request, clientVars, AddMembers,
     DMPost, AddNext
<1> QED BY <1>3, <1>4, <1>5 DEF Step

LEMMA GoodStays ==
  ASSUME TypeInv, Next, NEW v \in Users, NEW q \in RoomIds,
         NEW k \in Blobs \cup {NoBlob}, Good(v, q, k)
  PROVE  GoodNext(v, q, k)
<1> SUFFICES ASSUME k # NoBlob PROVE GoodNext(v, q, k)
  BY DEF GoodNext
<1>1. k \in Blobs /\ minted[k] # Unmade /\ Step
  BY DEF Good, Next
<1>2. minted'[k] = minted[k]
  BY <1>1, MintedStays
<1>3. entitled[k] \subseteq entitled'[k]
  BY <1>1 DEF Next
<1> QED BY <1>2, <1>3 DEF Good, GoodNext, Entitled

\* A member of the room of a key is entitled to it.
LEMMA MemberGood ==
  ASSUME TypeInv, Next, NEW v \in Users, NEW q \in RoomIds, NEW k \in Blobs,
         minted'[k] # Unmade, minted'[k].room = q, room_users'[q][v] # "none"
  PROVE  GoodNext(v, q, k)
BY DEF Next, GoodNext

\* So is the one who generated it.
LEMMA AuthorGood ==
  ASSUME TypeInv, NEW v \in Users, NEW q \in RoomIds, NEW k \in Blobs, Generate(v, k, q)
  PROVE  GoodNext(v, q, k)
<1>1. minted'[k] = [room |-> q, by |-> v]
  BY DEF Generate, TypeInv, TypeOK
<1>2. minted'[k] # Unmade
  BY <1>1, RoomKeysAssumption
<1> QED BY <1>1, <1>2 DEF GoodNext

-----------------------------------------------------------------------------
(* The blobs at the server.                                                *)

LEMMA StoreKeyGood ==
  ASSUME TypeInv, RowsGood, Next, NEW u \in Users, NEW r \in RoomIds, NEW t \in Users,
         NEW e \in Epochs, NEW k \in Blobs, TryStoreKey(u, r, t, e, k),
         minted'[k] # Unmade, minted'[k].room = r
  PROVE  RowsGood'
<1> SUFFICES ASSUME NEW v \in Users, NEW q \in RoomIds, NEW d \in Epochs
             PROVE  GoodNext(v, q, room_keys'[q][v][d])
  BY DEF RowsGood, Good, GoodNext, Entitled
<1>0. room_keys[q][v][d] \in Blobs \cup {NoBlob} /\ RoomsTypeOK
  BY DEF TypeInv, TypeOK, RoomsTypeOK
<1>1. CASE room_keys'[q][v][d] = room_keys[q][v][d]
  BY <1>0, <1>1, GoodStays DEF RowsGood
<1>2. CASE room_keys'[q][v][d] # room_keys[q][v][d]
  <2>1. StoreKey(u, r, t, e, k)
    BY <1>2 DEF TryStoreKey, roomVars
  <2>2. q = r /\ v = t /\ room_keys'[q][v][d] = k
    BY <1>0, <1>2, <2>1 DEF StoreKey, RoomsTypeOK
  <2>3. room_users'[r][t] # "none"
    BY <2>1 DEF StoreKey, CanStoreKey, check_room_access, IsMember
  <2> QED BY <2>2, <2>3, MemberGood
<1> QED BY <1>1, <1>2

LEMMA RowsGoodStep ==
  ASSUME TypeInv, StayPut, CopiesGood, Next
  PROVE  RowsGood'
<1> USE RoomKeysAssumption
<1>0. RowsGood /\ Step /\ RoomsTypeOK /\ ClientTypeOK /\ Shape
  BY DEF CopiesGood, Next, TypeInv, TypeOK, ClientTypeOK
<1>a. ASSUME \A q \in RoomIds, v \in Users, e \in Epochs :
               room_keys'[q][v][e] \in {room_keys[q][v][e], NoBlob}
      PROVE  RowsGood'
  <2> SUFFICES ASSUME NEW v \in Users, NEW q \in RoomIds, NEW e \in Epochs
               PROVE  GoodNext(v, q, room_keys'[q][v][e])
    BY DEF RowsGood, Good, GoodNext, Entitled
  <2>1. room_keys[q][v][e] \in Blobs \cup {NoBlob}
    BY <1>0 DEF RoomsTypeOK
  <2>2. GoodNext(v, q, room_keys[q][v][e])
    BY <1>0, <2>1, GoodStays DEF RowsGood
  <2>3. GoodNext(v, q, NoBlob)
    BY DEF GoodNext
  <2> QED BY <1>a, <2>2, <2>3
<1>b. UNCHANGED room_keys => RowsGood'
  BY <1>a
<1>1. ASSUME NEW u \in Users, PageStep(u) PROVE RowsGood'
  <2>1. CASE InitRoomKey(u)
    <3> DEFINE r == flow[u].room
    <3>1. r \in RoomIds
      BY <1>0, <2>1, FlowFields DEF InitRoomKey, ClientTypeOK
    <3>2. PICK k \in Blobs : Generate(u, k, r) /\ TryStoreKey(u, r, u, 0, k)
      BY <2>1 DEF InitRoomKey
    <3>3. minted'[k] = [room |-> r, by |-> u]
      BY <3>2 DEF Generate, TypeInv, TypeOK
    <3>4. minted'[k] # Unmade /\ minted'[k].room = r
      BY <3>1, <3>3
    <3> HIDE DEF r
    <3> QED BY <1>0, <3>1, <3>2, <3>4, StoreKeyGood
  <2>2. CASE SharePost(u)
    <3> DEFINE f == flow[u]
               r == currentRoom[u]
               held == Held(u, f)
    <3>1. /\ f \in Flow
          /\ f.at = "sharing"
          /\ r = f.room
          /\ f.live => roomKeys[u][r] # Absent
          /\ held # Absent
          /\ f.left \subseteq Has(held)
          /\ f.held # Absent => \A e \in Epochs : Good(u, r, f.held[e])
      BY <1>0, <2>2 DEF SharePost, ClientTypeOK, Shape, FlowShape, Adding, CopiesGood,
                        FlowGood
    <3>2. /\ r \in RoomIds
          /\ f.held \in KeyMap \cup {Absent}
          /\ f.target \in Users
      BY <3>1, FlowFields
    <3>3. held \in KeyMap /\ \A e \in Epochs : Good(u, r, held[e])
      BY <1>0, <3>1, <3>2 DEF Held, ClientTypeOK, CopiesGood, CachesGood
    <3>4. PICK e \in f.left : TryStoreKey(u, r, f.target, e, held[e])
      BY <2>2 DEF SharePost
    <3>5. e \in Epochs /\ held[e] \in Blobs
      BY <3>1, <3>3, <3>4 DEF Has, KeyMap
    <3>6. minted'[held[e]] # Unmade /\ minted'[held[e]].room = r
      <4> DEFINE k == held[e]
      <4>1. k \in Blobs /\ k # NoBlob /\ Good(u, r, k)
        BY <3>3, <3>5, RoomsAssumption
      <4> HIDE DEF r, k
      <4>2. GoodNext(u, r, k)
        BY <3>2, <4>1, GoodStays
      <4>3. minted'[k] # Unmade /\ minted'[k].room = r
        BY <4>1, <4>2 DEF GoodNext
      <4> QED BY <4>3 DEF k
    <3> HIDE DEF r, held
    <3> QED BY <1>0, <3>2, <3>4, <3>5, <3>6, StoreKeyGood
  <2>3. CASE UNCHANGED roomVars
    BY <1>b, <2>3 DEF roomVars
  <2> QED BY <1>1, <2>1, <2>2, <2>3
          DEF PageStep, Reconnect, SelectAfter, ShareBegin, SendMessage, ReloadPage,
              LoseKey
<1>2. ASSUME NEW u \in Users, NEW r \in RoomIds, PageRoomStep(u, r) PROVE RowsGood'
  BY <1>b, <1>2 DEF PageRoomStep, SelectRoom, LoadRows, Decrypt, RegenerateBegin,
     RegenerateKey, CreateChannel, StartDM, CreateRoom, CreateDM, roomVars
<1>3. ASSUME NEW u \in Users, NEW t \in Users, PageUserStep(u, t) PROVE RowsGood'
  <2>1. ASSUME NEW r \in RoomIds, RegeneratePost(u, r, t) PROVE RowsGood'
    <3> DEFINE load == loads[u][r]
    <3>1. load.at = "posting" /\ load.epoch \in Epochs /\ load.key \in Blobs
      BY <1>0, <2>1, LoadFields DEF RegeneratePost, ClientTypeOK
    <3>2. TryStoreKey(u, r, t, load.epoch, load.key)
      BY <2>1 DEF RegeneratePost
    <3>3. Good(u, r, load.key)
      BY <3>1 DEF CopiesGood, LoadGood
    <3>4. minted'[load.key] # Unmade /\ minted'[load.key].room = r
      <4>1. load.key # NoBlob
        BY <3>1, RoomsAssumption
      <4> HIDE DEF load
      <4> QED BY <3>1, <3>3, <4>1, GoodStays DEF GoodNext
    <3> HIDE DEF load
    <3> QED BY <1>0, <3>1, <3>2, <3>4, StoreKeyGood
  <2>2. CASE DMPost(u, t)
    <3> DEFINE f == flow[u]
               d == f.room
    <3>1. f.at = "dmPosting" /\ d \in RoomIds /\ f.key \in Blobs
      BY <1>0, <2>2, FlowFields DEF DMPost, ClientTypeOK
    <3>2. TryStoreKey(u, d, t, 0, f.key)
      BY <2>2 DEF DMPost
    <3>3. Good(u, d, f.key)
      BY <3>1 DEF CopiesGood, FlowGood
    <3>4. minted'[f.key] # Unmade /\ minted'[f.key].room = d
      <4>1. f.key # NoBlob
        BY <3>1, RoomsAssumption
      <4> HIDE DEF f, d
      <4> QED BY <3>1, <3>3, <4>1, GoodStays DEF GoodNext
    <3> HIDE DEF f, d
    <3> QED BY <1>0, <3>1, <3>2, <3>4, StoreKeyGood
  <2>3. ASSUME NEW r \in RoomIds, Request(u, r, t) PROVE RowsGood'
    <3>1. CASE DeleteRoom(u, r)
      <4>1. room_keys' = [room_keys EXCEPT ![r] = NoKeys]
        BY <3>1 DEF DeleteRoom
      <4> QED BY <1>0, <1>a, <4>1 DEF NoKeys, RoomsTypeOK
    <3>2. CASE UNCHANGED room_keys
      BY <1>b, <3>2
    <3> QED BY <2>3, <3>1, <3>2
            DEF Request, RemoveMember, SetRole, SubmitJoinRequest, ApproveJoinRequest
  <2>4. CASE UNCHANGED room_keys
    BY <1>b, <2>4
  <2> QED BY <1>3, <2>1, <2>2, <2>3, <2>4
          DEF PageUserStep, AddMembers, AddNext, AddTo, AddMember, roomVars
<1> QED BY <1>0, <1>1, <1>2, <1>3 DEF Step

-----------------------------------------------------------------------------
(* The caches.                                                             *)

\* A cache entry that stays is good, and so is what is put beside it.
LEMMA CacheGoodStays ==
  ASSUME TypeInv, CopiesGood, Next, NEW v \in Users, NEW q \in RoomIds,
         roomKeys[v][q] # Absent, NEW e \in Epochs
  PROVE  GoodNext(v, q, roomKeys[v][q][e])
<1>1. roomKeys[v][q][e] \in Blobs \cup {NoBlob}
  BY DEF TypeInv, TypeOK, KeyMap
<1> QED BY <1>1, GoodStays DEF CopiesGood, CachesGood

LEMMA CachesGoodIf ==
  ASSUME \A v \in Users, q \in RoomIds : roomKeys'[v][q] # Absent =>
            \A e \in Epochs : GoodNext(v, q, roomKeys'[v][q][e])
  PROVE  CachesGood'
BY DEF CachesGood, Good, GoodNext, Entitled

\* It is enough to look at the cache that is written.
LEMMA SetCacheGood ==
  ASSUME TypeInv, CopiesGood, Next, NEW u \in Users, NEW r \in RoomIds,
         NEW map, roomKeys' = [roomKeys EXCEPT ![u][r] = map],
         \A e \in Epochs : GoodNext(u, r, map[e])
  PROVE  CachesGood'
<1> SUFFICES ASSUME NEW v \in Users, NEW q \in RoomIds, roomKeys'[v][q] # Absent,
                    NEW e \in Epochs
             PROVE  GoodNext(v, q, roomKeys'[v][q][e])
  BY CachesGoodIf
<1>1. CASE v = u /\ q = r
  BY <1>1 DEF TypeInv, TypeOK
<1>2. CASE ~(v = u /\ q = r)
  <2>1. roomKeys'[v][q] = roomKeys[v][q]
    BY <1>2 DEF TypeInv, TypeOK
  <2> QED BY <2>1, CacheGoodStays
<1> QED BY <1>1, <1>2

LEMMA SameCachesGood ==
  ASSUME TypeInv, CopiesGood, Next, UNCHANGED roomKeys
  PROVE  CachesGood'
<1> SUFFICES ASSUME NEW v \in Users, NEW q \in RoomIds, roomKeys[v][q] # Absent,
                    NEW e \in Epochs
             PROVE  GoodNext(v, q, roomKeys[v][q][e])
  BY CachesGoodIf
<1> QED BY CacheGoodStays

LEMMA PutGood ==
  ASSUME TypeInv, CopiesGood, Next, NEW u \in Users, NEW r \in RoomIds,
         NEW e \in Epochs, NEW k \in Blobs, Put(u, r, e, k), GoodNext(u, r, k)
  PROVE  CachesGood'
<1> DEFINE old == IF roomKeys[u][r] = Absent THEN NoMap ELSE roomKeys[u][r]
           map == [old EXCEPT ![e] = k]
<1>1. old \in KeyMap /\ \A d \in Epochs : GoodNext(u, r, old[d])
  <2>1. CASE roomKeys[u][r] = Absent
    BY <2>1 DEF NoMap, KeyMap, GoodNext
  <2>2. CASE roomKeys[u][r] # Absent
    BY <2>2, CacheGoodStays DEF TypeInv, TypeOK
  <2> QED BY <2>1, <2>2
<1>2. roomKeys' = [roomKeys EXCEPT ![u][r] = map]
  BY DEF Put
<1> HIDE DEF old
<1>3. \A d \in Epochs : GoodNext(u, r, map[d])
  BY <1>1 DEF KeyMap
<1> HIDE DEF map
<1> QED BY <1>2, <1>3, SetCacheGood

\* A cache with one key in it.
LEMMA OneKeyGood ==
  ASSUME NEW u \in Users, NEW r \in RoomIds, NEW k \in Blobs, GoodNext(u, r, k)
  PROVE  \A e \in Epochs : GoodNext(u, r, [NoMap EXCEPT ![0] = k][e])
BY RoomKeysAssumption DEF NoMap, GoodNext

LEMMA CachesGoodStep ==
  ASSUME TypeInv, CopiesGood, Next
  PROVE  CachesGood'
<1> USE RoomKeysAssumption
<1>0. Step /\ RoomsTypeOK /\ ClientTypeOK /\ Shape
  BY DEF Next, TypeInv, TypeOK, ClientTypeOK
<1>1. ASSUME NEW u \in Users, PageStep(u) PROVE CachesGood'
  <2>1. CASE InitRoomKey(u)
    <3> DEFINE r == flow[u].room
    <3>1. r \in RoomIds
      BY <1>0, <2>1, FlowFields DEF InitRoomKey, ClientTypeOK
    <3>2. PICK k \in Blobs :
            /\ Generate(u, k, r)
            /\ roomKeys' = [roomKeys EXCEPT ![u][r] = [NoMap EXCEPT ![0] = k]]
      BY <2>1 DEF InitRoomKey
    <3> HIDE DEF r
    <3>3. GoodNext(u, r, k)
      BY <3>1, <3>2, AuthorGood
    <3> QED BY <3>1, <3>2, <3>3, OneKeyGood, SetCacheGood
  <2>2. CASE FreshPage(u)
    <3> SUFFICES ASSUME NEW v \in Users, NEW q \in RoomIds, roomKeys'[v][q] # Absent,
                        NEW e \in Epochs
                 PROVE  GoodNext(v, q, roomKeys'[v][q][e])
      BY CachesGoodIf
    <3>1. roomKeys'[v][q] = roomKeys[v][q]
      BY <1>0, <2>2 DEF FreshPage, ClientTypeOK
    <3> QED BY <3>1, CacheGoodStays
  <2>3. CASE UNCHANGED roomKeys
    BY <2>3, SameCachesGood
  <2> QED BY <1>1, <2>1, <2>2, <2>3
          DEF PageStep, Reconnect, SelectAfter, ShareBegin, SharePost, SendMessage,
              ReloadPage, LoseKey
<1>2. ASSUME NEW u \in Users, NEW r \in RoomIds, PageRoomStep(u, r) PROVE CachesGood'
  <2>1. CASE Replace(u, r, NoMap)
    <3>1. \A e \in Epochs : GoodNext(u, r, NoMap[e])
      BY DEF NoMap, GoodNext
    <3>2. roomKeys' = [roomKeys EXCEPT ![u][r] = NoMap]
      BY <2>1 DEF Replace
    <3> QED BY <3>1, <3>2, SetCacheGood
  <2>2. CASE Decrypt(u, r)
    <3> DEFINE load == loads[u][r]
    <3>1. /\ load.at = "decrypting"
          /\ load.rows \in KeyMap
          /\ load.left \subseteq Epochs
          /\ load.left \subseteq Has(load.rows)
      BY <1>0, <2>2, LoadFields DEF Decrypt, ClientTypeOK, Shape, LoadShape
    <3>2. PICK e \in load.left :
            Put(u, r, e, load.rows[e]) \/ UNCHANGED roomKeys
      BY <2>2 DEF Decrypt
    <3>3. /\ e \in Epochs
          /\ load.rows[e] \in Blobs
          /\ Good(u, r, load.rows[e])
      BY <3>1 DEF Has, KeyMap, CopiesGood, LoadGood
    <3> HIDE DEF load
    <3>4. GoodNext(u, r, load.rows[e])
      BY <3>3, GoodStays
    <3> QED BY <3>2, <3>3, <3>4, PutGood, SameCachesGood
  <2>3. CASE UNCHANGED roomKeys
    BY <2>3, SameCachesGood
  <2> QED BY <1>2, <2>1, <2>2, <2>3
          DEF PageRoomStep, SelectRoom, LoadRows, RegenerateBegin, RegenerateKey,
              CreateChannel, StartDM
<1>3. ASSUME NEW u \in Users, NEW t \in Users, PageUserStep(u, t) PROVE CachesGood'
  <2>1. ASSUME NEW r \in RoomIds, RegeneratePost(u, r, t) PROVE CachesGood'
    <3> DEFINE load == loads[u][r]
    <3>1. load.at = "posting" /\ load.epoch \in Epochs /\ load.key \in Blobs
      BY <1>0, <2>1, LoadFields DEF RegeneratePost, ClientTypeOK
    <3>2. Put(u, r, load.epoch, load.key) \/ UNCHANGED roomKeys
      BY <2>1 DEF RegeneratePost
    <3>3. Good(u, r, load.key)
      BY <3>1 DEF CopiesGood, LoadGood
    <3> HIDE DEF load
    <3>4. GoodNext(u, r, load.key)
      BY <3>1, <3>3, GoodStays
    <3> QED BY <3>1, <3>2, <3>4, PutGood, SameCachesGood
  <2>2. CASE DMPost(u, t)
    <3> DEFINE f == flow[u]
               d == f.room
               map == [NoMap EXCEPT ![0] = f.key]
    <3>1. f.at = "dmPosting" /\ d \in RoomIds /\ f.key \in Blobs
      BY <1>0, <2>2, FlowFields DEF DMPost, ClientTypeOK
    <3>2. roomKeys' = [roomKeys EXCEPT ![u][d] = map] \/ UNCHANGED roomKeys
      BY <2>2 DEF DMPost
    <3>3. Good(u, d, f.key)
      BY <3>1 DEF CopiesGood, FlowGood
    <3> HIDE DEF f, d
    <3>4. GoodNext(u, d, f.key)
      BY <3>1, <3>3, GoodStays
    <3>5. \A e \in Epochs : GoodNext(u, d, map[e])
      BY <3>1, <3>4, OneKeyGood
    <3> HIDE DEF map
    <3> QED BY <3>1, <3>2, <3>5, SetCacheGood, SameCachesGood
  <2>3. CASE UNCHANGED roomKeys
    BY <2>3, SameCachesGood
  <2> QED BY <1>3, <2>1, <2>2, <2>3
          DEF PageUserStep, Request, clientVars, AddMembers, AddNext
<1> QED BY <1>0, <1>1, <1>2, <1>3 DEF Step

-----------------------------------------------------------------------------
(* The key loads.                                                          *)

GoodLoadNext(u, r, load) ==
    /\ load.at = "decrypting" => \A e \in Epochs : GoodNext(u, r, load.rows[e])
    /\ load.at = "posting" => GoodNext(u, r, load.key)

LEMMA SameLoadGood ==
  ASSUME TypeInv, CopiesGood, Next, NEW v \in Users, NEW q \in RoomIds,
         loads'[v][q] = loads[v][q]
  PROVE  LoadGood(v, q)'
<1>1. loads[v][q] \in Load /\ LoadGood(v, q)
  BY DEF TypeInv, TypeOK, CopiesGood
<1>2. GoodLoadNext(v, q, loads[v][q])
  <2>1. CASE loads[v][q].at = "decrypting"
    <3>1. \A e \in Epochs : loads[v][q].rows[e] \in Blobs \cup {NoBlob}
      BY <1>1, <2>1, LoadFields DEF KeyMap
    <3> QED BY <1>1, <2>1, <3>1, GoodStays DEF LoadGood, GoodLoadNext
  <2>2. CASE loads[v][q].at = "posting"
    <3>1. loads[v][q].key \in Blobs
      BY <1>1, <2>2, LoadFields
    <3> QED BY <1>1, <2>2, <3>1, GoodStays DEF LoadGood, GoodLoadNext
  <2> QED BY <2>1, <2>2 DEF GoodLoadNext
<1> QED BY <1>2 DEF LoadGood, GoodLoadNext, Good, GoodNext, Entitled

LEMMA SetLoadGood ==
  ASSUME TypeInv, CopiesGood, Next, NEW u \in Users, NEW r \in RoomIds, NEW load,
         SetLoad(u, r, load), GoodLoadNext(u, r, load),
         NEW v \in Users, NEW q \in RoomIds
  PROVE  LoadGood(v, q)'
<1>1. CASE v = u /\ q = r
  <2>1. loads'[v][q] = load
    BY <1>1 DEF SetLoad, TypeInv, TypeOK
  <2> QED BY <1>1, <2>1 DEF LoadGood, GoodLoadNext, Good, GoodNext, Entitled
<1>2. CASE ~(v = u /\ q = r)
  <2>1. loads'[v][q] = loads[v][q]
    BY <1>2 DEF SetLoad, TypeInv, TypeOK
  <2> QED BY <2>1, SameLoadGood
<1> QED BY <1>1, <1>2

LEMMA SelectLoadGood ==
  ASSUME TypeInv, CopiesGood, Next, NEW u \in Users, NEW r \in RoomIds, Select(u, r),
         NEW v \in Users, NEW q \in RoomIds
  PROVE  LoadGood(v, q)'
<1> DEFINE asked == [at |-> "asked"]
<1>1. GoodLoadNext(u, r, asked)
  BY DEF GoodLoadNext
<1>2. UNCHANGED loads \/ SetLoad(u, r, asked)
  BY DEF Select
<1> HIDE DEF asked
<1> QED BY <1>1, <1>2, SetLoadGood, SameLoadGood

LEMMA LoadGoodStep ==
  ASSUME TypeInv, CopiesGood, Next, NEW v \in Users, NEW q \in RoomIds
  PROVE  LoadGood(v, q)'
<1> DEFINE Goal == LoadGood(v, q)'
<1>0. /\ Step /\ RoomsTypeOK /\ ClientTypeOK /\ Shape
      /\ \A u, r : GoodLoadNext(u, r, NoLoad)
      /\ \A u, r : GoodLoadNext(u, r, [at |-> "asked"])
      /\ \A u, r, d : GoodLoadNext(u, r, [at |-> "regenerate", epoch |-> d])
  BY DEF Next, TypeInv, TypeOK, ClientTypeOK, GoodLoadNext, NoLoad
<1>1. ASSUME NEW u \in Users, PageStep(u) PROVE Goal
  <2>1. CASE Reconnect(u)
    <3>1. currentRoom[u] \in RoomIds
      BY <1>0, <2>1 DEF Reconnect, ClientTypeOK
    <3> QED BY <1>0, <2>1, <3>1, SetLoadGood DEF Reconnect
  <2>2. CASE SelectAfter(u)
    <3>1. flow[u].room \in RoomIds
      BY <1>0, <2>2, FlowFields DEF SelectAfter, ClientTypeOK
    <3> QED BY <2>2, <3>1, SelectLoadGood DEF SelectAfter
  <2>3. CASE FreshPage(u)
    <3>1. loads'[v][q] = IF v = u THEN NoLoad ELSE loads[v][q]
      BY <1>0, <2>3 DEF FreshPage, ClientTypeOK
    <3>2. CASE v = u
      BY <3>1, <3>2 DEF LoadGood, NoLoad
    <3> QED BY <3>1, <3>2, SameLoadGood
  <2>4. CASE UNCHANGED loads
    BY <2>4, SameLoadGood
  <2> QED BY <1>1, <2>1, <2>2, <2>3, <2>4
          DEF PageStep, InitRoomKey, ShareBegin, SharePost, SendMessage, ReloadPage,
              LoseKey
<1>2. ASSUME NEW u \in Users, NEW r \in RoomIds, PageRoomStep(u, r) PROVE Goal
  <2>1. CASE SelectRoom(u, r)
    BY <2>1, SelectLoadGood DEF SelectRoom
  <2>2. CASE LoadRows(u, r)
    <3> DEFINE rows == room_keys[r][u]
               load == [at |-> "decrypting", rows |-> rows, left |-> Has(rows)]
    <3>1. \A e \in Epochs : rows[e] \in Blobs \cup {NoBlob} /\ Good(u, r, rows[e])
      BY <1>0 DEF RoomsTypeOK, CopiesGood, RowsGood
    <3>2. GoodLoadNext(u, r, load)
      BY <3>1, GoodStays DEF GoodLoadNext
    <3>3. SetLoad(u, r, load) \/ SetLoad(u, r, NoLoad)
      BY <2>2 DEF LoadRows
    <3> HIDE DEF load
    <3> QED BY <1>0, <3>2, <3>3, SetLoadGood
  <2>3. CASE Decrypt(u, r)
    <3> DEFINE load == loads[u][r]
               next(e) == [load EXCEPT !.left = @ \ {e}]
    <3>1. /\ load \in Load
          /\ load.at = "decrypting"
          /\ load.rows \in KeyMap
          /\ \A e \in Epochs : Good(u, r, load.rows[e])
      BY <1>0, <2>3, LoadFields DEF Decrypt, ClientTypeOK, CopiesGood, LoadGood
    <3>2. \A e : next(e).at = "decrypting" /\ next(e).rows = load.rows
      BY <3>1 DEF Load, NoLoad
    <3>3. \A e \in Epochs : load.rows[e] \in Blobs \cup {NoBlob}
      BY <3>1 DEF KeyMap
    <3>4. \/ SetLoad(u, r, NoLoad)
          \/ \E d : SetLoad(u, r, [at |-> "regenerate", epoch |-> d])
          \/ \E e : SetLoad(u, r, next(e))
      BY <2>3 DEF Decrypt, AfterLoad
    <3> HIDE DEF next, load
    <3>5. \A e : GoodLoadNext(u, r, next(e))
      BY <3>1, <3>2, <3>3, GoodStays DEF GoodLoadNext
    <3> QED BY <1>0, <3>4, <3>5, SetLoadGood
  <2>6. CASE RegenerateBegin(u, r)
    <3> DEFINE members == {t \in Users : IsMember(r, t)}
               listed == [at |-> "listed", epoch |-> loads[u][r].epoch, left |-> members]
    <3>1. SetLoad(u, r, NoLoad) \/ SetLoad(u, r, listed)
      BY <2>6 DEF RegenerateBegin
    <3>2. GoodLoadNext(u, r, listed)
      BY DEF GoodLoadNext
    <3> HIDE DEF listed
    <3> QED BY <1>0, <3>1, <3>2, SetLoadGood
  <2>4. CASE RegenerateKey(u, r)
    <3> DEFINE posting(k) == [at |-> "posting", epoch |-> loads[u][r].epoch,
                              key |-> k, left |-> loads[u][r].left]
    <3>1. \E k \in Blobs : Generate(u, k, r) /\ SetLoad(u, r, posting(k))
      BY <2>4 DEF RegenerateKey
    <3>2. \A k \in Blobs : posting(k).at = "posting" /\ posting(k).key = k
      OBVIOUS
    <3> HIDE DEF posting
    <3>3. \A k \in Blobs : Generate(u, k, r) => GoodLoadNext(u, r, posting(k))
      BY <3>2, AuthorGood DEF GoodLoadNext
    <3> QED BY <1>0, <3>1, <3>3, SetLoadGood
  <2>5. CASE CreateChannel(u, r) \/ StartDM(u, r)
    BY <2>5, SameLoadGood DEF CreateChannel, StartDM
  <2> QED BY <1>2, <2>1, <2>2, <2>3, <2>4, <2>5, <2>6 DEF PageRoomStep
<1>3. ASSUME NEW u \in Users, NEW t \in Users, PageUserStep(u, t) PROVE Goal
  <2>1. ASSUME NEW r \in RoomIds, RegeneratePost(u, r, t) PROVE Goal
    <3> DEFINE load == loads[u][r]
               next == [load EXCEPT !.left = @ \ {t}]
    <3>1. load \in Load /\ load.at = "posting" /\ Good(u, r, load.key)
      BY <1>0, <2>1 DEF RegeneratePost, ClientTypeOK, CopiesGood, LoadGood
    <3>2. load.key \in Blobs
      BY <3>1, LoadFields
    <3>3. next.at = "posting" /\ next.key = load.key
      BY <3>1 DEF Load, NoLoad
    <3>4. SetLoad(u, r, NoLoad) \/ SetLoad(u, r, next)
      BY <2>1 DEF RegeneratePost
    <3> HIDE DEF next, load
    <3>5. GoodLoadNext(u, r, next)
      BY <3>1, <3>2, <3>3, GoodStays DEF GoodLoadNext
    <3> QED BY <1>0, <3>4, <3>5, SetLoadGood
  <2>2. CASE UNCHANGED loads
    BY <2>2, SameLoadGood
  <2> QED BY <1>3, <2>1, <2>2
          DEF PageUserStep, Request, clientVars, AddMembers, DMPost, AddNext
<1> QED BY <1>0, <1>1, <1>2, <1>3 DEF Step

-----------------------------------------------------------------------------
(* The flows.                                                              *)

GoodFlowNext(u, f) ==
    /\ f.at = "dmPosting" => GoodNext(u, f.room, f.key)
    /\ f.at \in Adding =>
          /\ currentRoom'[u] = f.room
          /\ f.held # Absent => \A e \in Epochs : GoodNext(u, f.room, f.held[e])

\* A flow that was good is good, if its room is still shown.
LEMMA OldFlowGood ==
  ASSUME TypeInv, CopiesGood, Next, NEW v \in Users,
         flow[v].at \in Adding => currentRoom'[v] = currentRoom[v]
  PROVE  GoodFlowNext(v, flow[v])
<1>1. flow[v] \in Flow /\ FlowGood(v)
  BY DEF TypeInv, TypeOK, CopiesGood
<1>2. CASE flow[v].at = "dmPosting"
  <2>1. flow[v].room \in RoomIds /\ flow[v].key \in Blobs
    BY <1>1, <1>2, FlowFields
  <2> QED BY <1>1, <1>2, <2>1, GoodStays DEF FlowGood, GoodFlowNext, Adding
<1>3. CASE flow[v].at \in Adding
  <2>1. flow[v].room \in RoomIds /\ flow[v].held \in KeyMap \cup {Absent}
    BY <1>1, <1>3, FlowFields DEF Adding
  <2>2. flow[v].held # Absent =>
          \A e \in Epochs : flow[v].held[e] \in Blobs \cup {NoBlob}
    BY <2>1 DEF KeyMap
  <2> QED BY <1>1, <1>3, <2>1, <2>2, GoodStays DEF FlowGood, GoodFlowNext, Adding
<1> QED BY <1>2, <1>3 DEF GoodFlowNext

LEMMA SameFlowGood ==
  ASSUME TypeInv, CopiesGood, Next, NEW v \in Users, flow'[v] = flow[v],
         flow[v].at \in Adding => currentRoom'[v] = currentRoom[v]
  PROVE  FlowGood(v)'
<1>1. GoodFlowNext(v, flow'[v])
  BY OldFlowGood
<1> QED BY <1>1 DEF FlowGood, GoodFlowNext, Good, GoodNext, Entitled

LEMMA SetFlowGood ==
  ASSUME TypeInv, CopiesGood, Next, NEW u \in Users, NEW f, SetFlow(u, f),
         GoodFlowNext(u, f), NEW v \in Users,
         v # u => currentRoom'[v] = currentRoom[v]
  PROVE  FlowGood(v)'
<1>1. CASE v = u
  <2>1. flow'[v] = f
    BY <1>1 DEF SetFlow, TypeInv, TypeOK
  <2> QED BY <1>1, <2>1 DEF FlowGood, GoodFlowNext, Good, GoodNext, Entitled
<1>2. CASE v # u
  <2>1. flow'[v] = flow[v]
    BY <1>2 DEF SetFlow, TypeInv, TypeOK
  <2> QED BY <1>2, <2>1, SameFlowGood
<1> QED BY <1>1, <1>2

LEMMA NextTargetGood ==
  ASSUME NEW u \in Users, NEW f, f.at \in {"sharing", "nextTarget"}, GoodFlowNext(u, f),
         NEW todo
  PROVE  GoodFlowNext(u, NextTarget(f, todo))
BY DEF GoodFlowNext, NextTarget, NoFlow, Adding

LEMMA AddToGood ==
  ASSUME TypeInv, CopiesGood, Next, NEW u \in Users, NEW r \in RoomIds,
         NEW t \in Users, NEW f, f.at = "nextTarget", GoodFlowNext(u, f),
         AddTo(u, r, t, f), UNCHANGED currentRoom, NEW v \in Users
  PROVE  FlowGood(v)'
<1> DEFINE todo == f.todo \ {t}
           added == [at |-> "added", room |-> f.room, live |-> f.live,
                     held |-> f.held, target |-> t, todo |-> todo]
<1>1. GoodFlowNext(u, NextTarget(f, todo))
  BY NextTargetGood
<1>2. GoodFlowNext(u, added)
  BY DEF GoodFlowNext, Adding
<1>3. SetFlow(u, NextTarget(f, todo)) \/ SetFlow(u, added)
  BY DEF AddTo
<1> HIDE DEF added, todo
<1> QED BY <1>1, <1>2, <1>3, SetFlowGood

\* The cache that a load replaces is the one of the flow's own room.
LEMMA ReplaceGood ==
  ASSUME TypeInv, CopiesGood, Next, NEW u \in Users, NEW r \in RoomIds, NEW map,
         Replace(u, r, map), UNCHANGED currentRoom, NEW v \in Users
  PROVE  FlowGood(v)'
<1>1. CASE flow'[v] = flow[v]
  BY <1>1, SameFlowGood
<1>2. CASE flow'[v] # flow[v]
  <2> DEFINE keys == roomKeys[u][r]
             moved == [flow[u] EXCEPT !.live = FALSE, !.held = keys]
  <2>1. /\ v = u
        /\ flow[u] \in Flow
        /\ flow[u].at \in Adding /\ flow[u].room = r
        /\ SetFlow(u, moved)
    BY <1>2 DEF Replace, Adding, SetFlow, TypeInv, TypeOK
  <2>2. keys # Absent => \A e \in Epochs : GoodNext(u, r, keys[e])
    BY CacheGoodStays
  <2>3. moved.at = flow[u].at /\ moved.room = r /\ moved.held = keys
    <3> HIDE DEF keys
    <3>1. CASE flow[u].at = "added"
      BY <2>1, <3>1 DEF Flow, NoFlow
    <3>2. CASE flow[u].at = "sharing"
      BY <2>1, <3>2 DEF Flow, NoFlow
    <3>3. CASE flow[u].at = "nextTarget"
      BY <2>1, <3>3 DEF Flow, NoFlow
    <3> QED BY <2>1, <3>1, <3>2, <3>3 DEF Adding
  <2>4. currentRoom'[u] = r
    BY <2>1 DEF CopiesGood, FlowGood
  <2> HIDE DEF keys, moved
  <2>5. GoodFlowNext(u, moved)
    BY <2>1, <2>2, <2>3, <2>4 DEF GoodFlowNext, Adding
  <2> QED BY <2>1, <2>5, SetFlowGood
<1> QED BY <1>1, <1>2

LEMMA FlowGoodStep ==
  ASSUME TypeInv, StayPut, CopiesGood, Next, NEW v \in Users
  PROVE  FlowGood(v)'
<1> DEFINE Goal == FlowGood(v)'
<1>0. /\ Step /\ RoomsTypeOK /\ ClientTypeOK /\ Shape
      /\ \A u : GoodFlowNext(u, NoFlow)
      /\ \A u, q : GoodFlowNext(u, [at |-> "select", room |-> q])
      /\ \A u, q : GoodFlowNext(u, [at |-> "init", room |-> q])
  BY DEF Next, TypeInv, TypeOK, ClientTypeOK, GoodFlowNext, NoFlow, Adding
<1>a. ASSUME UNCHANGED <<flow, currentRoom>> PROVE Goal
  BY <1>a, SameFlowGood
<1>1. ASSUME NEW u \in Users, PageStep(u) PROVE Goal
  <2>1. CASE InitRoomKey(u)
    BY <1>0, <2>1, SetFlowGood DEF InitRoomKey
  <2>2. CASE SelectAfter(u)
    <3>1. v # u => currentRoom'[v] = currentRoom[v]
      BY <1>0, <2>2 DEF SelectAfter, Select, ClientTypeOK
    <3> QED BY <1>0, <2>2, <3>1, SetFlowGood DEF SelectAfter
  <2>3. CASE ShareBegin(u)
    <3> DEFINE f == flow[u]
               next == [at |-> "sharing", room |-> f.room, live |-> f.live,
                        held |-> f.held, target |-> f.target, todo |-> f.todo,
                        left |-> Has(Held(u, f))]
    <3>1. GoodFlowNext(u, f) /\ f.at \in Adding
      BY <2>3, OldFlowGood DEF ShareBegin, Adding
    <3>2. GoodFlowNext(u, next)
      BY <3>1 DEF GoodFlowNext, Adding
    <3>3. SetFlow(u, next) /\ UNCHANGED currentRoom
      BY <2>3 DEF ShareBegin
    <3> HIDE DEF next
    <3> QED BY <3>2, <3>3, SetFlowGood
  <2>4. CASE SharePost(u)
    <3> DEFINE f == flow[u]
               next(e) == [f EXCEPT !.left = @ \ {e}]
    <3>1. f \in Flow /\ f.at = "sharing" /\ UNCHANGED currentRoom
      BY <1>0, <2>4 DEF SharePost, ClientTypeOK
    <3>2. GoodFlowNext(u, f)
      BY <3>1, OldFlowGood
    <3>3. \A e : /\ next(e).at = "sharing"
                 /\ next(e).room = f.room
                 /\ next(e).held = f.held
      BY <3>1 DEF Flow, NoFlow
    <3>4. SetFlow(u, NextTarget(f, f.todo)) \/ \E e : SetFlow(u, next(e))
      BY <2>4 DEF SharePost
    <3> HIDE DEF next, f
    <3>5. \A e : GoodFlowNext(u, next(e))
      BY <3>1, <3>2, <3>3 DEF GoodFlowNext, Adding
    <3>6. GoodFlowNext(u, NextTarget(f, f.todo))
      BY <3>1, <3>2, NextTargetGood
    <3> QED BY <3>1, <3>4, <3>5, <3>6, SetFlowGood
  <2>5. CASE FreshPage(u)
    <3>1. SetFlow(u, NoFlow) /\ (v # u => currentRoom'[v] = currentRoom[v])
      BY <1>0, <2>5 DEF FreshPage, SetFlow, ClientTypeOK
    <3> QED BY <1>0, <3>1, SetFlowGood
  <2>6. CASE Reconnect(u) \/ SendMessage(u)
    BY <1>a, <2>6 DEF Reconnect, SendMessage
  <2> QED BY <1>1, <2>1, <2>2, <2>3, <2>4, <2>5, <2>6 DEF PageStep, ReloadPage, LoseKey
<1>2. ASSUME NEW u \in Users, NEW r \in RoomIds, PageRoomStep(u, r) PROVE Goal
  <2>1. CASE SelectRoom(u, r)
    \* Whoever is adding members does not select another room.
    <3>1. flow'[v] = flow[v] /\ (v # u => currentRoom'[v] = currentRoom[v])
      BY <1>0, <2>1 DEF SelectRoom, Select, ClientTypeOK
    <3>2. v = u => flow[v].at \notin Adding
      BY <2>1 DEF SelectRoom, Adding
    <3> QED BY <3>1, <3>2, SameFlowGood
  <2>2. CASE LoadRows(u, r)
    <3>1. UNCHANGED currentRoom /\ (Replace(u, r, NoMap) \/ UNCHANGED flow)
      BY <2>2 DEF LoadRows
    <3> QED BY <1>a, <3>1, ReplaceGood
  <2>3. CASE UNCHANGED <<flow, currentRoom>>
    BY <1>a, <2>3
  <2>4. CASE CreateChannel(u, r)
    BY <1>0, <2>4, SetFlowGood DEF CreateChannel
  <2>5. CASE StartDM(u, r)
    <3> DEFINE posting(k) == [at |-> "dmPosting", room |-> r, key |-> k, left |-> r]
    <3>1. /\ UNCHANGED currentRoom
          /\ \/ SetFlow(u, [at |-> "select", room |-> r])
             \/ \E k \in Blobs : Generate(u, k, r) /\ SetFlow(u, posting(k))
      BY <2>5 DEF StartDM
    <3>2. \A k \in Blobs : Generate(u, k, r) => GoodFlowNext(u, posting(k))
      BY AuthorGood DEF GoodFlowNext, Adding
    <3> HIDE DEF posting
    <3> QED BY <1>0, <3>1, <3>2, SetFlowGood
  <2> QED BY <1>2, <2>1, <2>2, <2>3, <2>4, <2>5
          DEF PageRoomStep, Decrypt, RegenerateBegin, RegenerateKey
<1>3. ASSUME NEW u \in Users, NEW t \in Users, PageUserStep(u, t) PROVE Goal
  <2>1. CASE UNCHANGED <<flow, currentRoom>>
    BY <1>a, <2>1
  <2>2. ASSUME NEW targets \in SUBSET Users, AddMembers(u, targets, t) PROVE Goal
    <3> DEFINE r == currentRoom[u]
               f == [at |-> "nextTarget", room |-> r, todo |-> targets,
                     live |-> roomKeys[u][r] # Absent, held |-> Absent]
    <3>1. r \in RoomIds /\ AddTo(u, r, t, f) /\ UNCHANGED currentRoom
      BY <1>0, <2>2 DEF AddMembers, ClientTypeOK
    <3>2. f.at = "nextTarget" /\ GoodFlowNext(u, f)
      BY <3>1 DEF GoodFlowNext, Adding
    <3> HIDE DEF f, r
    <3> QED BY <3>1, <3>2, AddToGood
  <2>3. CASE DMPost(u, t)
    <3> DEFINE f == flow[u]
               next == [f EXCEPT !.left = @ \ {t}]
    <3>1. f \in Flow /\ f.at = "dmPosting" /\ UNCHANGED currentRoom
      BY <1>0, <2>3 DEF DMPost, ClientTypeOK
    <3>2. GoodFlowNext(u, f)
      BY <3>1, OldFlowGood DEF Adding
    <3>3. next.at = "dmPosting" /\ next.room = f.room /\ next.key = f.key
      BY <3>1 DEF Flow, NoFlow
    <3>4. SetFlow(u, [at |-> "select", room |-> f.room]) \/ SetFlow(u, next)
      BY <2>3 DEF DMPost
    <3> HIDE DEF next, f
    <3>5. GoodFlowNext(u, next)
      BY <3>1, <3>2, <3>3 DEF GoodFlowNext, Adding
    <3> QED BY <1>0, <3>1, <3>4, <3>5, SetFlowGood
  <2>4. CASE AddNext(u, t)
    <3>1. /\ flow[u].at = "nextTarget"
          /\ currentRoom[u] \in RoomIds
          /\ AddTo(u, currentRoom[u], t, flow[u])
          /\ UNCHANGED currentRoom
      BY <1>0, <2>4 DEF AddNext, Shape, FlowShape, Adding, ClientTypeOK
    <3>2. GoodFlowNext(u, flow[u])
      BY <3>1, OldFlowGood
    <3> QED BY <3>1, <3>2, AddToGood
  <2> QED BY <1>3, <2>1, <2>2, <2>3, <2>4
          DEF PageUserStep, RegeneratePost, Request, clientVars
<1> QED BY <1>0, <1>1, <1>2, <1>3 DEF Step

-----------------------------------------------------------------------------
(* The theorems.                                                           *)

KeyInv == TypeInv /\ CopiesGood

LEMMA InitKeyInv == Init => KeyInv
<1> SUFFICES ASSUME Init PROVE CopiesGood
  BY InitTypeInv DEF KeyInv
<1>1. RowsGood /\ CachesGood
  BY DEF Init, RoomsInit, NoKeys, RowsGood, CachesGood, Good
<1>2. \A v \in Users, q \in RoomIds : LoadGood(v, q)
  BY DEF Init, LoadGood, NoLoad
<1>3. \A v \in Users : FlowGood(v)
  BY DEF Init, FlowGood, NoFlow, Adding
<1> QED BY <1>1, <1>2, <1>3 DEF CopiesGood

LEMMA KeyInvStep ==
  ASSUME StayPut, KeyInv, [Next]_vars
  PROVE  KeyInv'
<1>1. TypeInv' /\ TypeInv /\ CopiesGood
  BY TypeInvStep DEF KeyInv
<1>2. CASE Next
  BY <1>1, <1>2, RowsGoodStep, CachesGoodStep, LoadGoodStep, FlowGoodStep
     DEF KeyInv, CopiesGood
<1>3. CASE UNCHANGED vars
  BY <1>1, <1>3 DEF vars, clientVars, roomVars, KeyInv, CopiesGood, RowsGood, CachesGood,
                    LoadGood, FlowGood, Good, Entitled
<1> QED BY <1>2, <1>3

LEMMA KeyInvariant ==
  ASSUME StayPut
  PROVE  Spec => []KeyInv
<1>1. KeyInv /\ [Next]_vars => KeyInv'
  BY KeyInvStep
<1> QED BY <1>1, InitKeyInv, PTL DEF Spec

\* If users stay in the room to which they add members, a key is only ever stored
\* and cached under the room it was generated for.
THEOREM KeysStay ==
  ASSUME StayPut
  PROVE  Spec => []KeysStayInRoom
<1>1. KeyInv => KeysStayInRoom
  BY DEF KeyInv, CopiesGood, RowsGood, CachesGood, Good, KeysStayInRoom, Has
<1> QED BY <1>1, KeyInvariant, PTL

\* Under the same assumption, whoever holds a key generated it or has been in its
\* room since: who was removed before gets nothing of it, whatever was under way.
THEOREM KeysReachMembersOnly ==
  ASSUME StayPut
  PROVE  Spec => []OnlyMembersGetKeys
<1>1. KeyInv => OnlyMembersGetKeys
  BY DEF KeyInv, CopiesGood, RowsGood, CachesGood, Good, OnlyMembersGetKeys, Has
<1> QED BY <1>1, KeyInvariant, PTL

-----------------------------------------------------------------------------
(* One key per epoch.                                                      *)

\* What the agreement on the keys rests on: at most one user ever regenerates, lets it
\* finish, and neither memberships nor rooms end in between; and no DM is started,
\* since starting one makes an epoch 0 whether there was one or not.
OneRegenerates ==
    /\ StayPut /\ LetFinish
    /\ Features \cap {"dm", "kick", "delete"} = {}
    /\ \A u, v \in Losers : u = v

\* u has a copy of k as the key of an epoch of room q: as a blob at the server, in the
\* cache, in the answer to a load, being posted, or in the hands of a flow.
Copy(u, q, e, k) ==
    \/ room_keys[q][u][e] = k
    \/ roomKeys[u][q] # Absent /\ roomKeys[u][q][e] = k
    \/ loads[u][q].at = "decrypting" /\ loads[u][q].rows[e] = k
    \/ loads[u][q].at = "posting" /\ loads[u][q].epoch = e /\ loads[u][q].key = k
    \/ flow[u].at \in Adding /\ flow[u].room = q
       /\ flow[u].held # Absent /\ flow[u].held[e] = k

Somewhere(q, e, k) == \E u \in Users : Copy(u, q, e, k)
Nowhere(q, e) == \A k \in Blobs : ~Somewhere(q, e, k)

Agreed ==
    \A q \in RoomIds, e \in Epochs, j, k \in Blobs :
       Somewhere(q, e, j) /\ Somewhere(q, e, k) => j = k

\* A room has no key before its creator's, and one creator.
Unkeyed(q) == q \notin ROOMS \/ \E u \in Users : flow[u].at = "init" /\ flow[u].room = q

Creations ==
    /\ \A q \in RoomIds : Unkeyed(q) => \A e \in Epochs : Nowhere(q, e)
    /\ \A u \in Users : flow[u].at = "init" =>
          /\ flow[u].room \in ROOMS
          /\ \A v \in Users : flow[v].at = "init" /\ flow[v].room = flow[u].room => u = v
    /\ \A u \in Users : flow[u].at # "dmPosting"

\* Whoever lost the key and may regenerate has, or is about to post to himself, a blob as
\* late as any key of the room, and had one when the load read them; the epoch chosen is
\* then one that nobody has.
LoserIsUpToDate(u, q) ==
    LET load == loads[u][q] IN
    /\ \A e \in Epochs \ {0}, k \in Blobs : Somewhere(q, e, k) =>
          \/ \E d \in Epochs : d >= e /\ room_keys[q][u][d] # NoBlob
          \/ load.at = "posting" /\ u \in load.left /\ e <= load.epoch
    /\ load.at = "decrypting" =>
          \A e \in Epochs \ {0}, k \in Blobs : Somewhere(q, e, k) =>
             \E d \in Epochs : d >= e /\ load.rows[d] # NoBlob

RegenerationIsNew(u, q) ==
    LET load == loads[u][q] IN
    /\ load.at = "decrypting" =>
          \A d \in Epochs : load.rows[d] # NoBlob => room_keys[q][u][d] # NoBlob
    /\ load.at \in {"regenerate", "listed", "posting"} => ~paired[u]
    /\ load.at \in {"regenerate", "listed"} =>
          /\ load.epoch # 0
          /\ \A e \in Epochs : e >= load.epoch => Nowhere(q, e)
          /\ \E d \in Epochs : room_keys[q][u][d] # NoBlob
    /\ load.at \in {"listed", "posting"} => check_room_access(q, u)
    /\ load.at = "listed" => u \in load.left

EpochInv ==
    /\ KeyInv
    /\ Agreed
    /\ Creations
    /\ \A u \in Users : paired[u] \/ u \in Losers
    /\ \A u \in Losers, q \in RoomIds : LoserIsUpToDate(u, q)
    /\ \A u \in Users, q \in RoomIds : RegenerationIsNew(u, q)

\* Where a copy that was not there may come from: a regeneration, or the creation of the
\* room.
Fresh(q, e, k) ==
    \/ \E u \in Users : RegenerateKey(u, q) /\ loads[u][q].epoch = e /\ loads'[u][q].key = k
    \/ \E u \in Users : /\ InitRoomKey(u) /\ flow[u].room = q
                        /\ e = 0 /\ roomKeys'[u][q][0] = k

Comes(q, e, k) == Somewhere(q, e, k) \/ Fresh(q, e, k)

LEMMA CopyIsSomewhere ==
  ASSUME NEW u \in Users, NEW q, NEW e, NEW k, Copy(u, q, e, k)
  PROVE  Comes(q, e, k)
BY DEF Somewhere, Comes

\* A blob that TryStoreKey leaves was there, or is the one it is to store.
LEMMA StoreOrigin ==
  ASSUME TypeInv, NEW u \in Users, NEW r \in RoomIds, NEW t \in Users, NEW d \in Epochs,
         NEW j \in Blobs, TryStoreKey(u, r, t, d, j),
         NEW v \in Users, NEW q \in RoomIds, NEW e \in Epochs, NEW k \in Blobs,
         room_keys'[q][v][e] = k
  PROVE  Comes(q, e, k) \/ (q = r /\ e = d /\ k = j)
<1>0. RoomsTypeOK
  BY DEF TypeInv, TypeOK
<1>1. CASE room_keys'[q][v][e] = room_keys[q][v][e]
  BY <1>1, CopyIsSomewhere DEF Copy
<1>2. CASE room_keys'[q][v][e] # room_keys[q][v][e]
  <2>1. StoreKey(u, r, t, d, j)
    BY <1>2 DEF TryStoreKey, roomVars
  <2>2. room_keys' = [room_keys EXCEPT ![r][t][d] = j]
    BY <2>1 DEF StoreKey
  <2>3. q = r
    BY <1>0, <1>2, <2>2 DEF RoomsTypeOK
  <2>4. v = t
    BY <1>0, <1>2, <2>2, <2>3 DEF RoomsTypeOK
  <2>5. e = d
    BY <1>0, <1>2, <2>2, <2>3, <2>4 DEF RoomsTypeOK
  <2>6. k = j
    BY <1>0, <2>2, <2>3, <2>4, <2>5 DEF RoomsTypeOK
  <2> QED BY <2>3, <2>5, <2>6
<1> QED BY <1>1, <1>2

\* A cache entry that Put leaves was there, or is the one it puts.
LEMMA PutOrigin ==
  ASSUME TypeInv, NEW u \in Users, NEW r \in RoomIds, NEW d \in Epochs, NEW j \in Blobs,
         Put(u, r, d, j) \/ UNCHANGED roomKeys,
         NEW v \in Users, NEW q \in RoomIds, NEW e \in Epochs, NEW k \in Blobs,
         roomKeys'[v][q] # Absent, roomKeys'[v][q][e] = k
  PROVE  Comes(q, e, k) \/ (q = r /\ e = d /\ k = j)
<1> DEFINE old == IF roomKeys[u][r] = Absent THEN NoMap ELSE roomKeys[u][r]
           map == [old EXCEPT ![d] = j]
<1>0. roomKeys \in [Users -> [RoomIds -> KeyMap \cup {Absent}]]
  BY DEF TypeInv, TypeOK
<1>1. CASE roomKeys'[v][q] = roomKeys[v][q]
  BY <1>1, CopyIsSomewhere DEF Copy
<1>2. CASE roomKeys'[v][q] # roomKeys[v][q]
  <2>1. roomKeys' = [roomKeys EXCEPT ![u][r] = map]
    BY <1>2 DEF Put
  <2>2. old \in KeyMap
    BY <1>0 DEF KeyMap, NoMap
  <2> HIDE DEF map
  <2>3. v = u /\ q = r /\ roomKeys'[v][q] = map
    BY <1>0, <1>2, <2>1
  <2> HIDE DEF old
  <2>4. CASE e = d
    BY <2>2, <2>3, <2>4 DEF map, KeyMap
  <2>5. CASE e # d
    <3>1. old[e] = k
      BY <2>2, <2>3, <2>5 DEF map, KeyMap
    <3>2. k # NoBlob
      BY RoomsAssumption
    <3>3. roomKeys[v][q] # Absent /\ roomKeys[v][q][e] = k
      BY <2>3, <3>1, <3>2 DEF old, NoMap
    <3> QED BY <3>3, CopyIsSomewhere DEF Copy
  <2> QED BY <2>4, <2>5
<1> QED BY <1>1, <1>2

\* What a flow that shares has in its hands.
LEMMA HeldIsCopy ==
  ASSUME TypeInv, NEW u \in Users, flow[u].at \in Adding, NEW e \in Epochs, NEW k \in Blobs,
         Held(u, flow[u]) # Absent, Held(u, flow[u])[e] = k
  PROVE  Copy(u, flow[u].room, e, k)
BY DEF Held, Copy, TypeInv, Shape, FlowShape

LEMMA RowOrigin ==
  ASSUME TypeInv, CopiesGood, OneRegenerates, Creations, Step,
         NEW v \in Users, NEW q \in RoomIds, NEW e \in Epochs, NEW k \in Blobs,
         room_keys'[q][v][e] = k
  PROVE  Comes(q, e, k)
<1> USE RoomKeysAssumption
<1> DEFINE Goal == Comes(q, e, k)
<1>0. RoomsTypeOK /\ ClientTypeOK /\ Shape
  BY DEF TypeInv, TypeOK, ClientTypeOK
<1>a. ASSUME UNCHANGED room_keys PROVE Goal
  BY <1>a, CopyIsSomewhere DEF Copy
<1>1. ASSUME NEW u \in Users, PageStep(u) PROVE Goal
  <2>1. CASE InitRoomKey(u)
    <3> DEFINE r == flow[u].room
    <3>1. r \in RoomIds
      BY <1>0, <2>1, FlowFields DEF InitRoomKey, ClientTypeOK
    <3>2. PICK j \in Blobs : /\ TryStoreKey(u, r, u, 0, j)
                             /\ roomKeys' = [roomKeys EXCEPT ![u][r] = [NoMap EXCEPT ![0] = j]]
      BY <2>1 DEF InitRoomKey
    <3>3. roomKeys'[u][r][0] = j
      BY <1>0, <3>1, <3>2 DEF ClientTypeOK, NoMap
    <3>4. Goal \/ (q = r /\ e = 0 /\ k = j)
      <4> HIDE DEF r
      <4> QED BY <3>1, <3>2, StoreOrigin
    <3> QED BY <2>1, <3>3, <3>4 DEF Fresh, Comes
  <2>2. CASE SharePost(u)
    <3> DEFINE f == flow[u]
               r == currentRoom[u]
               held == Held(u, f)
    <3>1. f \in Flow /\ f.at = "sharing" /\ r = f.room /\ held # Absent
          /\ f.left \subseteq Has(held)
      BY <1>0, <2>2 DEF SharePost, ClientTypeOK, Shape, FlowShape, Adding, CopiesGood,
                        FlowGood
    <3>2. r \in RoomIds /\ f.target \in Users /\ f.left \subseteq Epochs
          /\ f.held \in KeyMap \cup {Absent}
      BY <3>1, FlowFields
    <3>3. held \in KeyMap
      BY <1>0, <3>1, <3>2 DEF Held, ClientTypeOK, Shape, FlowShape, Adding
    <3>4. PICK d \in f.left : TryStoreKey(u, r, f.target, d, held[d])
      BY <2>2 DEF SharePost
    <3>5. d \in Epochs /\ held[d] \in Blobs
      BY <3>1, <3>2, <3>3 DEF Has, KeyMap
    <3>6. Copy(u, r, d, held[d])
      BY <3>1, <3>5, HeldIsCopy DEF Adding
    <3> HIDE DEF f, r, held
    <3>7. Goal \/ (q = r /\ e = d /\ k = held[d])
      BY <3>2, <3>4, <3>5, StoreOrigin
    <3> QED BY <3>6, <3>7, CopyIsSomewhere
  <2>3. CASE UNCHANGED roomVars
    BY <1>a, <2>3 DEF roomVars
  <2> QED BY <1>1, <2>1, <2>2, <2>3
          DEF PageStep, Reconnect, SelectAfter, ShareBegin, SendMessage, ReloadPage,
              LoseKey
<1>2. ASSUME NEW u \in Users, NEW r \in RoomIds, PageRoomStep(u, r) PROVE Goal
  BY <1>a, <1>2 DEF PageRoomStep, SelectRoom, LoadRows, Decrypt, RegenerateBegin,
     RegenerateKey, CreateChannel, StartDM, CreateRoom, CreateDM, roomVars
<1>3. ASSUME NEW u \in Users, NEW t \in Users, PageUserStep(u, t) PROVE Goal
  <2>1. ASSUME NEW r \in RoomIds, RegeneratePost(u, r, t) PROVE Goal
    <3> DEFINE load == loads[u][r]
    <3>1. load.at = "posting" /\ load.epoch \in Epochs /\ load.key \in Blobs
      BY <1>0, <2>1, LoadFields DEF RegeneratePost, ClientTypeOK
    <3>2. TryStoreKey(u, r, t, load.epoch, load.key)
      BY <2>1 DEF RegeneratePost
    <3>3. Copy(u, r, load.epoch, load.key)
      BY <3>1 DEF Copy
    <3> DEFINE d == load.epoch
               j == load.key
    <3> HIDE DEF d, j
    <3>4. Goal \/ (q = r /\ e = d /\ k = j)
      <4>1. d \in Epochs /\ j \in Blobs /\ TryStoreKey(u, r, t, d, j)
        BY <3>1, <3>2 DEF d, j
      <4> QED BY <1>0, <4>1, StoreOrigin
    <3> QED BY <3>3, <3>4, CopyIsSomewhere DEF d, j
  <2>2. ~DMPost(u, t)
    BY DEF DMPost, Creations
  <2>3. ASSUME NEW r \in RoomIds, Request(u, r, t) PROVE Goal
    BY <1>a, <2>3 DEF Request, RemoveMember, SetRole, SubmitJoinRequest,
                      ApproveJoinRequest, OneRegenerates
  <2>4. CASE UNCHANGED room_keys
    BY <1>a, <2>4
  <2> QED BY <1>3, <2>1, <2>2, <2>3, <2>4
          DEF PageUserStep, AddMembers, AddNext, AddTo, AddMember, roomVars
<1> QED BY <1>1, <1>2, <1>3 DEF Step

LEMMA CacheOrigin ==
  ASSUME TypeInv, OneRegenerates, Creations, Step,
         NEW v \in Users, NEW q \in RoomIds, NEW e \in Epochs, NEW k \in Blobs,
         roomKeys'[v][q] # Absent, roomKeys'[v][q][e] = k
  PROVE  Comes(q, e, k)
<1> USE RoomKeysAssumption
<1> DEFINE Goal == Comes(q, e, k)
<1>0. RoomsTypeOK /\ ClientTypeOK /\ Shape /\ k # NoBlob
  BY RoomsAssumption DEF TypeInv, TypeOK, ClientTypeOK
<1>a. ASSUME roomKeys'[v][q] = roomKeys[v][q] PROVE Goal
  BY <1>a, CopyIsSomewhere DEF Copy
<1>1. ASSUME NEW u \in Users, PageStep(u) PROVE Goal
  <2>1. CASE InitRoomKey(u)
    <3> DEFINE r == flow[u].room
    <3>1. r \in RoomIds
      BY <1>0, <2>1, FlowFields DEF InitRoomKey, ClientTypeOK
    <3>2. PICK j \in Blobs :
            roomKeys' = [roomKeys EXCEPT ![u][r] = [NoMap EXCEPT ![0] = j]]
      BY <2>1 DEF InitRoomKey
    <3>3. CASE v = u /\ q = r
      <4>1. roomKeys'[v][q] = [NoMap EXCEPT ![0] = j]
        BY <1>0, <3>1, <3>2, <3>3 DEF ClientTypeOK
      <4>2. e = 0 /\ roomKeys'[u][q][0] = k
        BY <1>0, <3>3, <4>1 DEF NoMap
      <4> QED BY <2>1, <3>3, <4>2 DEF Fresh, Comes
    <3>4. CASE ~(v = u /\ q = r)
      <4>1. roomKeys'[v][q] = roomKeys[v][q]
        BY <1>0, <3>1, <3>2, <3>4 DEF ClientTypeOK
      <4> QED BY <1>a, <4>1
    <3> QED BY <3>3, <3>4
  <2>2. CASE FreshPage(u)
    <3>1. roomKeys'[v][q] = roomKeys[v][q]
      BY <1>0, <2>2 DEF FreshPage, ClientTypeOK
    <3> QED BY <3>1, <1>a
  <2>3. CASE UNCHANGED roomKeys
    BY <2>3, <1>a
  <2> QED BY <1>1, <2>1, <2>2, <2>3
          DEF PageStep, Reconnect, SelectAfter, ShareBegin, SharePost, SendMessage,
              ReloadPage, LoseKey
<1>2. ASSUME NEW u \in Users, NEW r \in RoomIds, PageRoomStep(u, r) PROVE Goal
  <2>1. CASE Replace(u, r, NoMap)
    <3>1. roomKeys' = [roomKeys EXCEPT ![u][r] = NoMap]
      BY <2>1 DEF Replace
    <3>2. NoMap[e] = NoBlob
      BY DEF NoMap
    <3>3. roomKeys'[v][q] = roomKeys[v][q]
      BY <1>0, <3>1, <3>2 DEF ClientTypeOK
    <3> QED BY <3>3, <1>a
  <2>2. CASE Decrypt(u, r)
    <3> DEFINE load == loads[u][r]
    <3>1. /\ load.at = "decrypting"
          /\ load.rows \in KeyMap
          /\ load.left \subseteq Epochs
          /\ load.left \subseteq Has(load.rows)
      BY <1>0, <2>2, LoadFields DEF Decrypt, ClientTypeOK, Shape, LoadShape
    <3>2. PICK d \in load.left :
            Put(u, r, d, load.rows[d]) \/ UNCHANGED roomKeys
      BY <2>2 DEF Decrypt
    <3>3. d \in Epochs /\ load.rows[d] \in Blobs
      BY <3>1 DEF Has, KeyMap
    <3>4. Copy(u, r, d, load.rows[d])
      BY <3>1 DEF Copy
    <3> HIDE DEF load
    <3>5. Goal \/ (q = r /\ e = d /\ k = load.rows[d])
      BY <3>2, <3>3, PutOrigin
    <3> QED BY <3>4, <3>5, CopyIsSomewhere
  <2>3. CASE UNCHANGED roomKeys
    BY <2>3, <1>a
  <2> QED BY <1>2, <2>1, <2>2, <2>3
          DEF PageRoomStep, SelectRoom, LoadRows, RegenerateBegin, RegenerateKey,
              CreateChannel, StartDM
<1>3. ASSUME NEW u \in Users, NEW t \in Users, PageUserStep(u, t) PROVE Goal
  <2>1. ASSUME NEW r \in RoomIds, RegeneratePost(u, r, t) PROVE Goal
    <3> DEFINE load == loads[u][r]
    <3>1. load.at = "posting" /\ load.epoch \in Epochs /\ load.key \in Blobs
      BY <1>0, <2>1, LoadFields DEF RegeneratePost, ClientTypeOK
    <3>2. Put(u, r, load.epoch, load.key) \/ UNCHANGED roomKeys
      BY <2>1 DEF RegeneratePost
    <3>3. Copy(u, r, load.epoch, load.key)
      BY <3>1 DEF Copy
    <3> DEFINE d == load.epoch
               j == load.key
    <3> HIDE DEF d, j
    <3>4. Goal \/ (q = r /\ e = d /\ k = j)
      <4>1. d \in Epochs /\ j \in Blobs /\ (Put(u, r, d, j) \/ UNCHANGED roomKeys)
        BY <3>1, <3>2 DEF d, j
      <4> QED BY <1>0, <4>1, PutOrigin
    <3> QED BY <3>3, <3>4, CopyIsSomewhere DEF d, j
  <2>2. ~DMPost(u, t)
    BY DEF DMPost, Creations
  <2>3. CASE UNCHANGED roomKeys
    BY <2>3, <1>a
  <2> QED BY <1>3, <2>1, <2>2, <2>3
          DEF PageUserStep, Request, clientVars, AddMembers, AddNext
<1> QED BY <1>1, <1>2, <1>3 DEF Step

\* What a step makes of the load of room q on the page of v, from load to next.
Asked(v, q, next) ==
    /\ next.at \in {"idle", "asked"}
    /\ loads[v][q].at = "posting" =>
          \/ ReloadPage(v) \/ LoseKey(v)
          \/ \E t \in Users : RegeneratePost(v, q, t) /\ loads[v][q].left = {t}

Read(v, q, next) ==
    /\ LoadRows(v, q)
    /\ next.at = "decrypting" /\ next.rows = room_keys[q][v]

Decrypting(v, q, next) ==
    /\ loads[v][q].at = "decrypting"
    /\ next.at = "decrypting" /\ next.rows = loads[v][q].rows

NoneDecrypted(v, q, next) ==
    /\ Decrypt(v, q) /\ roomKeys'[v][q] = NoMap
    /\ \E top \in Has(loads[v][q].rows) :
          /\ \A e \in Has(loads[v][q].rows) : e <= top
          /\ next = [at |-> "regenerate", epoch |-> top + 1]

Listed(v, q, next) ==
    /\ RegenerateBegin(v, q) /\ check_room_access(q, v)
    /\ next.at = "listed" /\ next.epoch = loads[v][q].epoch
    /\ next.left = {t \in Users : IsMember(q, t)}

Generated(v, q, next) ==
    /\ RegenerateKey(v, q)
    /\ next.at = "posting" /\ next.epoch = loads[v][q].epoch
    /\ next.left = loads[v][q].left

Posted(v, q, next) ==
    /\ \E t \in Users : RegeneratePost(v, q, t) /\ next.left = loads[v][q].left \ {t}
    /\ next.at = "posting" /\ next.epoch = loads[v][q].epoch
    /\ next.key = loads[v][q].key

Advanced(v, q, next) ==
    \/ next = loads[v][q] \/ Asked(v, q, next) \/ Read(v, q, next)
    \/ Decrypting(v, q, next) \/ NoneDecrypted(v, q, next) \/ Listed(v, q, next)
    \/ Generated(v, q, next) \/ Posted(v, q, next)

LEMMA SetLoadIs ==
  ASSUME TypeInv, NEW u \in Users, NEW r \in RoomIds, NEW load, SetLoad(u, r, load),
         NEW v \in Users, NEW q \in RoomIds
  PROVE  loads'[v][q] = IF v = u /\ q = r THEN load ELSE loads[v][q]
BY DEF SetLoad, TypeInv, TypeOK

LEMMA LoadNext ==
  ASSUME TypeInv, Step, NEW v \in Users, NEW q \in RoomIds
  PROVE  Advanced(v, q, loads'[v][q])
<1> DEFINE Goal == Advanced(v, q, loads'[v][q])
           asked == [at |-> "asked"]
<1>0. /\ RoomsTypeOK /\ ClientTypeOK /\ Shape
      /\ NoLoad.at = "idle" /\ asked.at = "asked"
  BY DEF TypeInv, TypeOK, ClientTypeOK, NoLoad
<1>a. ASSUME loads'[v][q] = loads[v][q] PROVE Goal
  BY <1>a DEF Advanced
<1>b. ASSUME NEW u \in Users, NEW r \in RoomIds, NEW load, SetLoad(u, r, load),
             v = u /\ q = r => Advanced(v, q, load)
      PROVE  Goal
  BY <1>a, <1>b, SetLoadIs
<1>c. ASSUME NEW load, load.at \in {"idle", "asked"}, loads[v][q].at # "posting"
      PROVE  Advanced(v, q, load)
  BY <1>c DEF Advanced, Asked
<1>d. ASSUME NEW u \in Users, NEW r \in RoomIds, Select(u, r) PROVE Goal
  <2>1. CASE UNCHANGED loads
    BY <1>a, <2>1
  <2>2. CASE SetLoad(u, r, asked) /\ loads[u][r] = NoLoad
    BY <1>0, <1>b, <1>c, <2>2
  <2> QED BY <1>d, <2>1, <2>2 DEF Select
<1> HIDE DEF asked
<1>1. ASSUME NEW u \in Users, PageStep(u) PROVE Goal
  <2>1. CASE Reconnect(u)
    <3> DEFINE r == currentRoom[u]
    <3>1. r \in RoomIds /\ SetLoad(u, r, asked) /\ loads[u][r] = NoLoad
      BY <1>0, <2>1 DEF Reconnect, ClientTypeOK, asked
    <3> HIDE DEF r
    <3> QED BY <1>0, <1>b, <1>c, <3>1
  <2>2. CASE SelectAfter(u)
    <3>1. flow[u].room \in RoomIds
      BY <1>0, <2>2, FlowFields DEF SelectAfter, ClientTypeOK
    <3> QED BY <1>d, <2>2, <3>1 DEF SelectAfter
  <2>3. CASE ReloadPage(u) \/ LoseKey(u)
    <3>1. loads'[v][q] = IF v = u THEN NoLoad ELSE loads[v][q]
      BY <1>0, <2>3 DEF ReloadPage, LoseKey, FreshPage, ClientTypeOK
    <3>2. CASE v = u
      BY <1>0, <2>3, <3>1, <3>2 DEF Advanced, Asked
    <3> QED BY <1>a, <3>1, <3>2
  <2>4. CASE UNCHANGED loads
    BY <2>4, <1>a
  <2> QED BY <1>1, <2>1, <2>2, <2>3, <2>4
          DEF PageStep, InitRoomKey, ShareBegin, SharePost, SendMessage
<1>2. ASSUME NEW u \in Users, NEW r \in RoomIds, PageRoomStep(u, r) PROVE Goal
  <2>1. CASE SelectRoom(u, r)
    BY <1>d, <2>1 DEF SelectRoom
  <2>2. CASE LoadRows(u, r)
    <3> DEFINE rows == room_keys[r][u]
               load == [at |-> "decrypting", rows |-> rows, left |-> Has(rows)]
    <3>1. loads[u][r].at = "asked" /\ (SetLoad(u, r, load) \/ SetLoad(u, r, NoLoad))
      BY <2>2 DEF LoadRows
    <3>2. Read(u, r, load)
      BY <2>2 DEF Read
    <3> HIDE DEF load
    <3> QED BY <1>0, <1>b, <1>c, <3>1, <3>2 DEF Advanced
  <2>3. CASE Decrypt(u, r)
    <3> DEFINE load == loads[u][r]
               rest(d) == [load EXCEPT !.left = @ \ {d}]
               next(d) == [at |-> "regenerate", epoch |-> d + 1]
    <3>1. load \in Load /\ load.at = "decrypting"
      BY <1>0, <2>3 DEF Decrypt, ClientTypeOK
    <3>2. \A d : rest(d).at = "decrypting" /\ rest(d).rows = load.rows
      BY <3>1 DEF Load, NoLoad
    <3>3. \/ SetLoad(u, r, NoLoad)
          \/ \E d : SetLoad(u, r, rest(d))
          \/ /\ roomKeys'[u][r] = NoMap
             /\ \E d \in Has(load.rows) : /\ \A e \in Has(load.rows) : e <= d
                                          /\ SetLoad(u, r, next(d))
      BY <2>3 DEF Decrypt, AfterLoad
    <3> HIDE DEF rest
    <3>4. CASE SetLoad(u, r, NoLoad)
      BY <1>0, <1>b, <1>c, <3>1, <3>4
    <3>5. ASSUME NEW d, SetLoad(u, r, rest(d)) PROVE Goal
      <4>1. Decrypting(u, r, rest(d))
        BY <3>1, <3>2 DEF Decrypting
      <4> QED BY <1>b, <3>5, <4>1 DEF Advanced
    <3>6. ASSUME roomKeys'[u][r] = NoMap, NEW d \in Has(load.rows),
                 \A e \in Has(load.rows) : e <= d, SetLoad(u, r, next(d))
          PROVE  Goal
      <4>1. NoneDecrypted(u, r, next(d))
        BY <2>3, <3>6 DEF NoneDecrypted
      <4> HIDE DEF next
      <4> QED BY <1>b, <3>6, <4>1 DEF Advanced
    <3> QED BY <3>3, <3>4, <3>5, <3>6
  <2>4. CASE RegenerateBegin(u, r)
    <3> DEFINE members == {t \in Users : IsMember(r, t)}
               listed == [at |-> "listed", epoch |-> loads[u][r].epoch, left |-> members]
    <3>1. /\ loads[u][r].at = "regenerate"
          /\ \/ SetLoad(u, r, NoLoad)
             \/ SetLoad(u, r, listed) /\ check_room_access(r, u)
      BY <2>4 DEF RegenerateBegin
    <3>2. check_room_access(r, u) => Listed(u, r, listed)
      BY <2>4 DEF Listed
    <3> HIDE DEF listed
    <3> QED BY <1>0, <1>b, <1>c, <3>1, <3>2 DEF Advanced
  <2>5. CASE RegenerateKey(u, r)
    <3> DEFINE posting(j) == [at |-> "posting", epoch |-> loads[u][r].epoch,
                              key |-> j, left |-> loads[u][r].left]
    <3>1. PICK j \in Blobs : SetLoad(u, r, posting(j))
      BY <2>5 DEF RegenerateKey
    <3>2. Generated(u, r, posting(j))
      BY <2>5 DEF Generated
    <3> HIDE DEF posting
    <3> QED BY <1>b, <3>1, <3>2 DEF Advanced
  <2>6. CASE CreateChannel(u, r) \/ StartDM(u, r)
    BY <2>6, <1>a DEF CreateChannel, StartDM
  <2> QED BY <1>2, <2>1, <2>2, <2>3, <2>4, <2>5, <2>6 DEF PageRoomStep
<1>3. ASSUME NEW u \in Users, NEW t \in Users, PageUserStep(u, t) PROVE Goal
  <2>1. ASSUME NEW r \in RoomIds, RegeneratePost(u, r, t) PROVE Goal
    <3> DEFINE load == loads[u][r]
               rest == [load EXCEPT !.left = @ \ {t}]
    <3>1. load \in Load /\ load.at = "posting"
      BY <1>0, <2>1 DEF RegeneratePost, ClientTypeOK
    <3>2. /\ rest.at = "posting" /\ rest.key = load.key /\ rest.epoch = load.epoch
          /\ rest.left = load.left \ {t}
      BY <3>1 DEF Load, NoLoad
    <3>3. (SetLoad(u, r, NoLoad) /\ load.left = {t}) \/ SetLoad(u, r, rest)
      BY <2>1 DEF RegeneratePost
    <3> HIDE DEF rest
    <3>4. CASE SetLoad(u, r, NoLoad) /\ load.left = {t}
      <4>1. Asked(u, r, NoLoad)
        BY <1>0, <2>1, <3>4 DEF Asked
      <4> QED BY <1>b, <3>4, <4>1 DEF Advanced
    <3>5. CASE SetLoad(u, r, rest)
      <4>1. Posted(u, r, rest)
        BY <2>1, <3>2 DEF Posted
      <4> QED BY <1>b, <3>5, <4>1 DEF Advanced
    <3> QED BY <3>3, <3>4, <3>5
  <2>2. CASE UNCHANGED loads
    BY <2>2, <1>a
  <2> QED BY <1>3, <2>1, <2>2
          DEF PageUserStep, Request, clientVars, AddMembers, DMPost, AddNext
<1> QED BY <1>1, <1>2, <1>3 DEF Step

\* What a load has of epoch e.
InLoad(load, e, k) ==
    \/ load.at = "decrypting" /\ load.rows[e] = k
    \/ load.at = "posting" /\ load.epoch = e /\ load.key = k

LEMMA LoadOrigin ==
  ASSUME TypeInv, Step, NEW v \in Users, NEW q \in RoomIds, NEW e \in Epochs,
         NEW k \in Blobs, InLoad(loads'[v][q], e, k)
  PROVE  Comes(q, e, k)
<1> DEFINE load == loads[v][q]
           next == loads'[v][q]
<1>1. Advanced(v, q, next)
  BY LoadNext
<1>2. CASE Generated(v, q, next)
  BY <1>2 DEF Generated, InLoad, Comes, Fresh
<1>3. CASE Read(v, q, next)
  BY <1>3, CopyIsSomewhere DEF Read, InLoad, Copy
<1>4. CASE Decrypting(v, q, next)
  BY <1>4, CopyIsSomewhere DEF Decrypting, InLoad, Copy
<1>5. CASE Posted(v, q, next)
  <2>1. load.at = "posting"
    BY <1>5 DEF Posted, RegeneratePost
  <2> QED BY <1>5, <2>1, CopyIsSomewhere DEF Posted, InLoad, Copy
<1>6. CASE next = load
  BY <1>6, CopyIsSomewhere DEF InLoad, Copy
<1>7. ~Asked(v, q, next) /\ ~Listed(v, q, next)
  BY DEF Asked, Listed, InLoad
<1>8. ~NoneDecrypted(v, q, next)
  <2>1. NoneDecrypted(v, q, next) => next.at = "regenerate"
    BY DEF NoneDecrypted
  <2> QED BY <2>1 DEF InLoad
<1> QED BY <1>1, <1>2, <1>3, <1>4, <1>5, <1>6, <1>7, <1>8 DEF Advanced

\* What a flow was handed when its cache was replaced.
InHand(f, q, e, k) ==
    f.at \in Adding /\ f.room = q /\ f.held # Absent /\ f.held[e] = k

LEMMA SetFlowOrigin ==
  ASSUME TypeInv, NEW u \in Users, NEW f, SetFlow(u, f), NEW v \in Users,
         NEW q, NEW e, NEW k, InHand(flow'[v], q, e, k)
  PROVE  Comes(q, e, k) \/ (v = u /\ InHand(f, q, e, k))
<1>1. CASE v = u
  BY <1>1 DEF SetFlow, TypeInv, TypeOK
<1>2. CASE v # u
  <2>1. flow'[v] = flow[v]
    BY <1>2 DEF SetFlow, TypeInv, TypeOK
  <2> QED BY <2>1, CopyIsSomewhere DEF InHand, Copy
<1> QED BY <1>1, <1>2

\* A flow that keeps what it has in hand.
LEMMA SameHand ==
  ASSUME NEW u \in Users, NEW f, f.at \in Adding => flow[u].at \in Adding
                                    /\ f.room = flow[u].room /\ f.held = flow[u].held,
         NEW q, NEW e, NEW k, InHand(f, q, e, k)
  PROVE  Comes(q, e, k)
BY CopyIsSomewhere DEF InHand, Copy

LEMMA AddToOrigin ==
  ASSUME TypeInv, NEW u \in Users, NEW r, NEW t, NEW f,
         AddTo(u, r, t, f), NEW v \in Users,
         NEW q, NEW e, NEW k, InHand(flow'[v], q, e, k)
  PROVE  \/ Comes(q, e, k)
         \/ v = u /\ f.room = q /\ f.held # Absent /\ f.held[e] = k
<1> DEFINE todo == f.todo \ {t}
           added == [at |-> "added", room |-> f.room, live |-> f.live,
                     held |-> f.held, target |-> t, todo |-> todo]
<1>1. SetFlow(u, NextTarget(f, todo)) \/ SetFlow(u, added)
  BY DEF AddTo
<1>2. InHand(added, q, e, k) => f.room = q /\ f.held # Absent /\ f.held[e] = k
  BY DEF InHand
<1>3. InHand(NextTarget(f, todo), q, e, k) => f.room = q /\ f.held # Absent /\ f.held[e] = k
  BY DEF InHand, NextTarget, NoFlow, Adding
<1> HIDE DEF added, todo
<1> QED BY <1>1, <1>2, <1>3, SetFlowOrigin

LEMMA HandOrigin ==
  ASSUME TypeInv, Step, NEW v \in Users, NEW q \in RoomIds, NEW e \in Epochs,
         NEW k \in Blobs, InHand(flow'[v], q, e, k)
  PROVE  Comes(q, e, k)
<1> DEFINE Goal == Comes(q, e, k)
<1>0. RoomsTypeOK /\ ClientTypeOK /\ Shape
  BY DEF TypeInv, TypeOK, ClientTypeOK
<1>a. ASSUME flow'[v] = flow[v] PROVE Goal
  BY <1>a, CopyIsSomewhere DEF InHand, Copy
<1>b. ASSUME NEW u \in Users, NEW f, SetFlow(u, f), f.at \notin Adding PROVE Goal
  BY <1>b, SetFlowOrigin DEF InHand
<1>1. ASSUME NEW u \in Users, PageStep(u) PROVE Goal
  <2>1. CASE InitRoomKey(u)
    <3>1. SetFlow(u, [at |-> "select", room |-> flow[u].room])
      BY <2>1 DEF InitRoomKey
    <3> QED BY <1>b, <3>1 DEF Adding
  <2>2. CASE SelectAfter(u)
    BY <1>b, <2>2 DEF SelectAfter, NoFlow, Adding
  <2>3. CASE ShareBegin(u)
    <3> DEFINE f == flow[u]
               next == [at |-> "sharing", room |-> f.room, live |-> f.live,
                        held |-> f.held, target |-> f.target, todo |-> f.todo,
                        left |-> Has(Held(u, f))]
    <3>1. SetFlow(u, next) /\ f.at = "added"
      BY <2>3 DEF ShareBegin
    <3>2. f.at \in Adding /\ next.room = f.room /\ next.held = f.held
      BY <3>1 DEF Adding
    <3> HIDE DEF next
    <3> QED BY <3>1, <3>2, SetFlowOrigin, SameHand
  <2>4. CASE SharePost(u)
    <3> DEFINE f == flow[u]
               next(d) == [f EXCEPT !.left = @ \ {d}]
               over == NextTarget(f, f.todo)
    <3>1. f \in Flow /\ f.at = "sharing" /\ f.at \in Adding
      BY <1>0, <2>4 DEF SharePost, ClientTypeOK, Adding
    <3>2. \A d : next(d).room = f.room /\ next(d).held = f.held
      BY <3>1 DEF Flow, NoFlow
    <3>3. over.at \in Adding => over.room = f.room /\ over.held = f.held
      BY DEF NextTarget, NoFlow, Adding
    <3>4. SetFlow(u, over) \/ \E d : SetFlow(u, next(d))
      BY <2>4 DEF SharePost
    <3> HIDE DEF next, over
    <3>5. CASE SetFlow(u, over)
      BY <3>1, <3>3, <3>5, SetFlowOrigin, SameHand
    <3>6. ASSUME NEW d, SetFlow(u, next(d)) PROVE Goal
      BY <3>1, <3>2, <3>6, SetFlowOrigin, SameHand
    <3> QED BY <3>4, <3>5, <3>6
  <2>5. CASE FreshPage(u)
    <3>1. SetFlow(u, NoFlow)
      BY <2>5 DEF FreshPage, SetFlow
    <3> QED BY <1>b, <3>1 DEF NoFlow, Adding
  <2>6. CASE Reconnect(u) \/ SendMessage(u)
    BY <1>a, <2>6 DEF Reconnect, SendMessage
  <2> QED BY <1>1, <2>1, <2>2, <2>3, <2>4, <2>5, <2>6 DEF PageStep, ReloadPage, LoseKey
<1>2. ASSUME NEW u \in Users, NEW r \in RoomIds, PageRoomStep(u, r) PROVE Goal
  <2>1. CASE Replace(u, r, NoMap)
    <3>1. CASE flow'[v] = flow[v]
      BY <1>a, <3>1
    <3>2. CASE flow'[v] # flow[v]
      <4> DEFINE keys == roomKeys[u][r]
                 moved == [flow[u] EXCEPT !.live = FALSE, !.held = keys]
      <4>1. /\ v = u /\ flow[u] \in Flow
            /\ flow[u].at \in Adding /\ flow[u].room = r
            /\ flow' = [flow EXCEPT ![u] = moved]
        BY <1>0, <2>1, <3>2 DEF Replace, Adding, ClientTypeOK
      <4>2. moved.room = r /\ moved.held = keys
        <5> HIDE DEF keys
        <5>1. CASE flow[u].at = "added"
          BY <4>1, <5>1 DEF Flow, NoFlow
        <5>2. CASE flow[u].at = "sharing"
          BY <4>1, <5>2 DEF Flow, NoFlow
        <5>3. CASE flow[u].at = "nextTarget"
          BY <4>1, <5>3 DEF Flow, NoFlow
        <5> QED BY <4>1, <5>1, <5>2, <5>3 DEF Adding
      <4> HIDE DEF moved
      <4>3. flow'[v] = moved
        BY <1>0, <4>1 DEF ClientTypeOK
      <4>4. r = q /\ keys # Absent /\ keys[e] = k
        BY <4>2, <4>3 DEF InHand
      <4> QED BY <4>4, CopyIsSomewhere DEF Copy
    <3> QED BY <3>1, <3>2
  <2>2. CASE UNCHANGED flow
    BY <1>a, <2>2
  <2>3. CASE CreateChannel(u, r)
    <3>1. SetFlow(u, [at |-> "init", room |-> r])
      BY <2>3 DEF CreateChannel
    <3> QED BY <1>b, <3>1 DEF Adding
  <2>4. CASE StartDM(u, r)
    <3> DEFINE posting(j) == [at |-> "dmPosting", room |-> r, key |-> j, left |-> r]
    <3>1. \/ SetFlow(u, [at |-> "select", room |-> r])
          \/ \E j \in Blobs : SetFlow(u, posting(j))
      BY <2>4 DEF StartDM
    <3>2. \A j : posting(j).at \notin Adding
      BY DEF Adding
    <3> HIDE DEF posting
    <3> QED BY <1>b, <3>1, <3>2 DEF Adding
  <2> QED BY <1>2, <2>1, <2>2, <2>3, <2>4
          DEF PageRoomStep, SelectRoom, LoadRows, Decrypt, RegenerateBegin, RegenerateKey
<1>3. ASSUME NEW u \in Users, NEW t \in Users, PageUserStep(u, t) PROVE Goal
  <2>1. CASE UNCHANGED flow
    BY <1>a, <2>1
  <2>2. ASSUME NEW targets \in SUBSET Users, AddMembers(u, targets, t) PROVE Goal
    <3> DEFINE r == currentRoom[u]
               f == [at |-> "nextTarget", room |-> r, todo |-> targets,
                     live |-> roomKeys[u][r] # Absent, held |-> Absent]
    <3>1. AddTo(u, r, t, f) /\ f.held = Absent
      BY <2>2 DEF AddMembers
    <3> HIDE DEF f, r
    <3> QED BY <3>1, AddToOrigin
  <2>3. CASE DMPost(u, t)
    <3> DEFINE f == flow[u]
               next == [f EXCEPT !.left = @ \ {t}]
    <3>1. f \in Flow /\ f.at = "dmPosting"
      BY <1>0, <2>3 DEF DMPost, ClientTypeOK
    <3>2. next.at \notin Adding
      BY <3>1 DEF Flow, NoFlow, Adding
    <3>3. SetFlow(u, [at |-> "select", room |-> f.room]) \/ SetFlow(u, next)
      BY <2>3 DEF DMPost
    <3> HIDE DEF next, f
    <3> QED BY <1>b, <3>2, <3>3 DEF Adding
  <2>4. CASE AddNext(u, t)
    <3>1. flow[u].at \in Adding /\ AddTo(u, currentRoom[u], t, flow[u])
      BY <2>4 DEF AddNext, Adding
    <3>2. Goal \/ (flow[u].room = q /\ flow[u].held # Absent /\ flow[u].held[e] = k)
      BY <3>1, AddToOrigin
    <3> QED BY <3>1, <3>2, CopyIsSomewhere DEF Copy
  <2> QED BY <1>3, <2>1, <2>2, <2>3, <2>4
          DEF PageUserStep, RegeneratePost, Request, clientVars
<1> QED BY <1>1, <1>2, <1>3 DEF Step

\* Every copy comes from another one of the same room and epoch, or is fresh.
LEMMA CopyOrigin ==
  ASSUME TypeInv, CopiesGood, OneRegenerates, Creations, Step,
         NEW q \in RoomIds, NEW e \in Epochs, NEW k \in Blobs, Somewhere(q, e, k)'
  PROVE  Comes(q, e, k)
<1> PICK v \in Users : Copy(v, q, e, k)'
  BY DEF Somewhere
<1>1. CASE room_keys'[q][v][e] = k
  BY <1>1, RowOrigin
<1>2. CASE roomKeys'[v][q] # Absent /\ roomKeys'[v][q][e] = k
  BY <1>2, CacheOrigin
<1>3. CASE InLoad(loads'[v][q], e, k)
  BY <1>3, LoadOrigin
<1>4. CASE InHand(flow'[v], q, e, k)
  BY <1>4, HandOrigin
<1> QED BY <1>1, <1>2, <1>3, <1>4 DEF Copy, InLoad, InHand

-----------------------------------------------------------------------------
(* What a step keeps of the room service: without removals and deletions,   *)
(* rooms, memberships and blobs stay.                                       *)

Kept ==
    /\ ROOMS \subseteq ROOMS'
    /\ \A q \in RoomIds, v \in Users : IsMember(q, v) => IsMember(q, v)'
    /\ \A q \in RoomIds, v \in Users, e \in Epochs :
          room_keys[q][v][e] # NoBlob => room_keys'[q][v][e] # NoBlob

LEMMA StoreKept ==
  ASSUME TypeInv, NEW u \in Users, NEW r \in RoomIds, NEW t \in Users, NEW d \in Epochs,
         NEW j \in Blobs, TryStoreKey(u, r, t, d, j)
  PROVE  Kept
<1>0. RoomsTypeOK /\ j # NoBlob
  BY RoomsAssumption DEF TypeInv, TypeOK
<1>1. CASE UNCHANGED roomVars
  BY <1>1 DEF roomVars, Kept, IsMember
<1>2. CASE StoreKey(u, r, t, d, j)
  <2>1. UNCHANGED <<ROOMS, room_users>> /\ room_keys' = [room_keys EXCEPT ![r][t][d] = j]
    BY <1>2 DEF StoreKey
  <2>2. ASSUME NEW q \in RoomIds, NEW v \in Users, NEW e \in Epochs,
               room_keys[q][v][e] # NoBlob
        PROVE  room_keys'[q][v][e] # NoBlob
    <3>1. CASE q = r /\ v = t /\ e = d
      BY <1>0, <2>1, <3>1 DEF RoomsTypeOK
    <3>2. CASE ~(q = r /\ v = t /\ e = d)
      <4>1. room_keys'[q][v][e] = room_keys[q][v][e]
        BY <1>0, <2>1, <3>2 DEF RoomsTypeOK
      <4> QED BY <2>2, <4>1
    <3> QED BY <3>1, <3>2
  <2> QED BY <2>1, <2>2 DEF Kept, IsMember
<1> QED BY <1>1, <1>2 DEF TryStoreKey

LEMMA MembersKept ==
  ASSUME TypeInv, NEW u \in Users, NEW r \in RoomIds, NEW t \in Users, NEW role \in Roles,
         room_users' = [room_users EXCEPT ![r][t] = role] \/ UNCHANGED room_users,
         ROOMS \subseteq ROOMS', UNCHANGED room_keys
  PROVE  Kept
<1>0. RoomsTypeOK /\ role # "none"
  BY DEF TypeInv, TypeOK, Roles
<1>1. ASSUME NEW q \in RoomIds, NEW v \in Users, IsMember(q, v) PROVE IsMember(q, v)'
  <2>1. CASE q = r /\ v = t
    BY <1>0, <1>1, <2>1 DEF RoomsTypeOK, IsMember
  <2>2. CASE ~(q = r /\ v = t)
    BY <1>0, <1>1, <2>2 DEF RoomsTypeOK, IsMember
  <2> QED BY <2>1, <2>2
<1> QED BY <1>1 DEF Kept

LEMMA KeptStep ==
  ASSUME TypeInv, CopiesGood, OneRegenerates, Creations, Step
  PROVE  Kept
<1> USE RoomKeysAssumption
<1>0. RoomsTypeOK /\ ClientTypeOK /\ Shape
  BY DEF TypeInv, TypeOK, ClientTypeOK
<1>a. ASSUME UNCHANGED roomVars PROVE Kept
  BY <1>a DEF roomVars, Kept, IsMember
<1>b. ASSUME NEW u \in Users, NEW r \in RoomIds, NEW t \in Users, AddMember(u, r, t)
      PROVE  Kept
  <2>1. /\ ROOMS \subseteq ROOMS' /\ UNCHANGED room_keys
        /\ \/ room_users' = [room_users EXCEPT ![r][t] = "member"]
           \/ UNCHANGED room_users
    BY <1>b DEF AddMember, InsertMember
  <2> QED BY <2>1, MembersKept DEF Roles
<1>1. ASSUME NEW u \in Users, PageStep(u) PROVE Kept
  <2>1. CASE InitRoomKey(u)
    <3> DEFINE r == flow[u].room
    <3>1. r \in RoomIds
      BY <1>0, <2>1, FlowFields DEF InitRoomKey, ClientTypeOK
    <3>2. PICK j \in Blobs : TryStoreKey(u, r, u, 0, j)
      BY <2>1 DEF InitRoomKey
    <3> HIDE DEF r
    <3> QED BY <3>1, <3>2, StoreKept
  <2>2. CASE SharePost(u)
    <3> DEFINE f == flow[u]
               r == currentRoom[u]
               held == Held(u, f)
    <3>1. f \in Flow /\ f.at = "sharing" /\ r = f.room /\ held # Absent
          /\ f.left \subseteq Has(held)
      BY <1>0, <2>2 DEF SharePost, ClientTypeOK, Shape, FlowShape, Adding, CopiesGood,
                        FlowGood
    <3>2. r \in RoomIds /\ f.target \in Users /\ f.left \subseteq Epochs
          /\ f.held \in KeyMap \cup {Absent}
      BY <3>1, FlowFields
    <3>3. held \in KeyMap
      BY <1>0, <3>1, <3>2 DEF Held, ClientTypeOK, Shape, FlowShape, Adding
    <3>4. PICK d \in f.left : TryStoreKey(u, r, f.target, d, held[d])
      BY <2>2 DEF SharePost
    <3>5. d \in Epochs /\ held[d] \in Blobs
      BY <3>1, <3>2, <3>3 DEF Has, KeyMap
    <3> HIDE DEF f, r, held
    <3> QED BY <3>2, <3>4, <3>5, StoreKept
  <2>3. CASE UNCHANGED roomVars
    BY <1>a, <2>3
  <2> QED BY <1>1, <2>1, <2>2, <2>3
          DEF PageStep, Reconnect, SelectAfter, ShareBegin, SendMessage, ReloadPage,
              LoseKey
<1>2. ASSUME NEW u \in Users, NEW r \in RoomIds, PageRoomStep(u, r) PROVE Kept
  <2>1. CASE CreateChannel(u, r)
    <3>1. /\ ROOMS \subseteq ROOMS' /\ UNCHANGED room_keys
          /\ \/ room_users' = [room_users EXCEPT ![r][u] = "owner"]
             \/ UNCHANGED room_users
      BY <2>1 DEF CreateChannel, CreateRoom, InsertMember
    <3> QED BY <3>1, MembersKept DEF Roles
  <2>2. ~StartDM(u, r)
    BY DEF StartDM, OneRegenerates
  <2> QED BY <1>a, <1>2, <2>1, <2>2 DEF PageRoomStep, SelectRoom, LoadRows, Decrypt,
          RegenerateBegin, RegenerateKey
<1>3. ASSUME NEW u \in Users, NEW t \in Users, PageUserStep(u, t) PROVE Kept
  <2>1. ASSUME NEW r \in RoomIds, RegeneratePost(u, r, t) PROVE Kept
    <3> DEFINE d == loads[u][r].epoch
               j == loads[u][r].key
    <3>1. d \in Epochs /\ j \in Blobs
      BY <1>0, <2>1, LoadFields DEF RegeneratePost, ClientTypeOK
    <3>2. TryStoreKey(u, r, t, d, j)
      BY <2>1 DEF RegeneratePost
    <3> HIDE DEF d, j
    <3> QED BY <3>1, <3>2, StoreKept
  <2>2. ~DMPost(u, t)
    BY DEF DMPost, Creations
  <2>3. ASSUME NEW r \in RoomIds, Request(u, r, t) PROVE Kept
    <3>1. CASE SetRole(u, r, t, "op")
      BY <3>1, MembersKept DEF SetRole, Roles
    <3>2. CASE ApproveJoinRequest(u, r, t)
      <4>1. \/ room_users' = [room_users EXCEPT ![r][t] = "member"]
            \/ UNCHANGED room_users
        BY <3>2 DEF ApproveJoinRequest, InsertMember
      <4> QED BY <3>2, <4>1, MembersKept DEF ApproveJoinRequest, Roles
    <3>3. CASE SubmitJoinRequest(u, r)
      BY <3>3 DEF SubmitJoinRequest, Kept, IsMember
    <3> QED BY <2>3, <3>1, <3>2, <3>3 DEF Request, OneRegenerates
  <2>4. CASE AddNext(u, t)
    <3>1. currentRoom[u] \in RoomIds
      BY <1>0, <2>4 DEF AddNext, ClientTypeOK, Shape, FlowShape, Adding
    <3>2. AddMember(u, currentRoom[u], t) \/ UNCHANGED roomVars
      BY <2>4 DEF AddNext, AddTo
    <3> QED BY <1>a, <1>b, <3>1, <3>2
  <2>5. ASSUME NEW targets \in SUBSET Users, AddMembers(u, targets, t) PROVE Kept
    <3>1. currentRoom[u] \in RoomIds
      BY <1>0, <2>5 DEF AddMembers, ClientTypeOK
    <3>2. AddMember(u, currentRoom[u], t) \/ UNCHANGED roomVars
      BY <2>5 DEF AddMembers, AddTo
    <3> QED BY <1>a, <1>b, <3>1, <3>2
  <2> QED BY <1>3, <2>1, <2>2, <2>3, <2>4, <2>5 DEF PageUserStep
<1> QED BY <1>1, <1>2, <1>3 DEF Step

\* A flow only starts to initialise a room when it has created it, and no DM starts.
LEMMA InitOrigin ==
  ASSUME TypeInv, OneRegenerates, Creations, Step, NEW v \in Users
  PROVE  /\ flow'[v].at # "dmPosting"
         /\ flow'[v].at = "init" =>
              \/ flow'[v] = flow[v]
              \/ \E r \in RoomIds : CreateChannel(v, r) /\ flow'[v].room = r
<1> DEFINE Goal == /\ flow'[v].at # "dmPosting"
                   /\ flow'[v].at = "init" =>
                        \/ flow'[v] = flow[v]
                        \/ \E r \in RoomIds : CreateChannel(v, r) /\ flow'[v].room = r
<1>0. ClientTypeOK
  BY DEF TypeInv, TypeOK, ClientTypeOK
<1>a. ASSUME flow'[v] = flow[v] PROVE Goal
  BY <1>a DEF Creations
<1>b. ASSUME NEW u \in Users, NEW f, SetFlow(u, f), f.at \notin {"init", "dmPosting"}
      PROVE  Goal
  <2>1. flow'[v] = IF v = u THEN f ELSE flow[v]
    BY <1>0, <1>b DEF SetFlow, ClientTypeOK
  <2> QED BY <1>a, <1>b, <2>1
<1>c. \A f, todo : NextTarget(f, todo).at \in {"idle", "nextTarget"}
  BY DEF NextTarget, NoFlow
<1>d. ASSUME NEW u \in Users, NEW r, NEW t, NEW f, AddTo(u, r, t, f) PROVE Goal
  <2> DEFINE todo == f.todo \ {t}
             added == [at |-> "added", room |-> f.room, live |-> f.live,
                       held |-> f.held, target |-> t, todo |-> todo]
  <2>1. SetFlow(u, NextTarget(f, todo)) \/ SetFlow(u, added)
    BY <1>d DEF AddTo
  <2>2. added.at = "added"
    OBVIOUS
  <2> HIDE DEF added, todo
  <2> QED BY <1>b, <1>c, <2>1, <2>2
<1>1. ASSUME NEW u \in Users, PageStep(u) PROVE Goal
  <2>1. CASE InitRoomKey(u)
    <3>1. SetFlow(u, [at |-> "select", room |-> flow[u].room])
      BY <2>1 DEF InitRoomKey
    <3> QED BY <1>b, <3>1
  <2>2. CASE SelectAfter(u) \/ ReloadPage(u) \/ LoseKey(u)
    <3>1. SetFlow(u, NoFlow) /\ NoFlow.at = "idle"
      BY <2>2 DEF SelectAfter, ReloadPage, LoseKey, FreshPage, SetFlow, NoFlow
    <3> QED BY <1>b, <3>1
  <2>3. CASE ShareBegin(u)
    <3> DEFINE f == flow[u]
               next == [at |-> "sharing", room |-> f.room, live |-> f.live,
                        held |-> f.held, target |-> f.target, todo |-> f.todo,
                        left |-> Has(Held(u, f))]
    <3>1. SetFlow(u, next) /\ next.at = "sharing"
      BY <2>3 DEF ShareBegin
    <3> HIDE DEF next
    <3> QED BY <1>b, <3>1
  <2>4. CASE SharePost(u)
    <3> DEFINE f == flow[u]
               next(d) == [f EXCEPT !.left = @ \ {d}]
               over == NextTarget(f, f.todo)
    <3>1. f \in Flow /\ f.at = "sharing"
      BY <1>0, <2>4 DEF SharePost, ClientTypeOK
    <3>2. \A d : next(d).at = "sharing"
      BY <3>1 DEF Flow, NoFlow
    <3>3. over.at \in {"idle", "nextTarget"}
      BY <1>c
    <3>4. SetFlow(u, over) \/ \E d : SetFlow(u, next(d))
      BY <2>4 DEF SharePost
    <3> HIDE DEF next, over
    <3> QED BY <1>b, <3>2, <3>3, <3>4
  <2>5. CASE UNCHANGED flow
    BY <1>a, <2>5
  <2> QED BY <1>1, <2>1, <2>2, <2>3, <2>4, <2>5 DEF PageStep, Reconnect, SendMessage
<1>2. ASSUME NEW u \in Users, NEW r \in RoomIds, PageRoomStep(u, r) PROVE Goal
  <2>1. CASE Replace(u, r, NoMap)
    <3>1. CASE flow'[v] = flow[v]
      BY <1>a, <3>1
    <3>2. CASE flow'[v] # flow[v]
      <4> DEFINE keys == roomKeys[u][r]
                 moved == [flow[u] EXCEPT !.live = FALSE, !.held = keys]
      <4>1. /\ v = u /\ flow[u] \in Flow /\ flow[u].at \in Adding
            /\ flow' = [flow EXCEPT ![u] = moved]
        BY <1>0, <2>1, <3>2 DEF Replace, Adding, ClientTypeOK
      <4>2. moved.at \in Adding
        <5> HIDE DEF keys
        <5>1. CASE flow[u].at = "added"
          BY <4>1, <5>1 DEF Flow, NoFlow, Adding
        <5>2. CASE flow[u].at = "sharing"
          BY <4>1, <5>2 DEF Flow, NoFlow, Adding
        <5>3. CASE flow[u].at = "nextTarget"
          BY <4>1, <5>3 DEF Flow, NoFlow, Adding
        <5> QED BY <4>1, <5>1, <5>2, <5>3 DEF Adding
      <4> HIDE DEF moved
      <4>3. SetFlow(u, moved)
        BY <4>1 DEF SetFlow
      <4> QED BY <1>b, <4>2, <4>3 DEF Adding
    <3> QED BY <3>1, <3>2
  <2>2. CASE UNCHANGED flow
    BY <1>a, <2>2
  <2>3. CASE CreateChannel(u, r)
    <3>1. flow'[v] = IF v = u THEN [at |-> "init", room |-> r] ELSE flow[v]
      BY <1>0, <2>3 DEF CreateChannel, SetFlow, ClientTypeOK
    <3>2. CASE v = u
      BY <2>3, <3>1, <3>2
    <3> QED BY <1>a, <3>1, <3>2
  <2>4. ~StartDM(u, r)
    BY DEF StartDM, OneRegenerates
  <2> QED BY <1>2, <2>1, <2>2, <2>3, <2>4
          DEF PageRoomStep, SelectRoom, LoadRows, Decrypt, RegenerateBegin, RegenerateKey
<1>3. ASSUME NEW u \in Users, NEW t \in Users, PageUserStep(u, t) PROVE Goal
  <2>1. CASE UNCHANGED flow
    BY <1>a, <2>1
  <2>2. ASSUME NEW targets \in SUBSET Users, AddMembers(u, targets, t) PROVE Goal
    <3> DEFINE r == currentRoom[u]
               f == [at |-> "nextTarget", room |-> r, todo |-> targets,
                     live |-> roomKeys[u][r] # Absent, held |-> Absent]
    <3>1. AddTo(u, r, t, f)
      BY <2>2 DEF AddMembers
    <3> HIDE DEF f, r
    <3> QED BY <1>d, <3>1
  <2>3. ~DMPost(u, t)
    BY DEF DMPost, Creations
  <2>4. CASE AddNext(u, t)
    BY <1>d, <2>4 DEF AddNext
  <2> QED BY <1>3, <2>1, <2>2, <2>3, <2>4
          DEF PageUserStep, RegeneratePost, Request, clientVars
<1> QED BY <1>1, <1>2, <1>3 DEF Step

-----------------------------------------------------------------------------
(* Agreement is kept.                                                      *)

\* A key is only ever generated for an epoch of which nobody has a key ...
LEMMA FreshIsFirst ==
  ASSUME EpochInv, NEW q \in RoomIds, NEW e \in Epochs, NEW k \in Blobs, Fresh(q, e, k)
  PROVE  Nowhere(q, e)
<1>1. ASSUME NEW u \in Users, RegenerateKey(u, q), loads[u][q].epoch = e
      PROVE  Nowhere(q, e)
  <2>1. loads[u][q].at = "listed" /\ RegenerationIsNew(u, q)
    BY <1>1 DEF RegenerateKey, EpochInv
  <2>2. e >= loads[u][q].epoch
    BY <1>1, RoomKeysAssumption
  <2> QED BY <2>1, <2>2 DEF RegenerationIsNew
<1>2. ASSUME NEW u \in Users, InitRoomKey(u), flow[u].room = q PROVE Nowhere(q, e)
  BY <1>2 DEF InitRoomKey, EpochInv, Creations, Unkeyed
<1> QED BY <1>1, <1>2 DEF Fresh

\* A room of which someone has a blob has been initialised.
LEMMA KeyedIsInitialised ==
  ASSUME EpochInv, NEW q \in RoomIds, NEW u \in Users, NEW d \in Epochs,
         room_keys[q][u][d] # NoBlob
  PROVE  ~Unkeyed(q)
<1>1. room_keys[q][u][d] \in Blobs
  BY DEF EpochInv, KeyInv, TypeInv, TypeOK, RoomsTypeOK
<1>2. Somewhere(q, d, room_keys[q][u][d])
  BY DEF Somewhere, Copy
<1> QED BY <1>1, <1>2 DEF EpochInv, Creations, Nowhere

\* ... and whoever regenerates is the only one who does, in a room that has keys.
LEMMA NothingElseIsFresh ==
  ASSUME EpochInv, OneRegenerates, NEW u \in Users, ~paired[u], NEW q \in RoomIds,
         ~RegenerateKey(u, q), NEW d \in Epochs, room_keys[q][u][d] # NoBlob,
         NEW e \in Epochs, NEW k \in Blobs
  PROVE  ~Fresh(q, e, k)
<1>1. ASSUME NEW v \in Users, RegenerateKey(v, q) PROVE FALSE
  <2>1. RegenerationIsNew(v, q) /\ loads[v][q].at = "listed"
    BY <1>1 DEF EpochInv, RegenerateKey
  <2>2. ~paired[v]
    BY <2>1 DEF RegenerationIsNew
  <2>3. u = v
    BY <2>2 DEF EpochInv, OneRegenerates
  <2> QED BY <1>1, <2>3
<1>2. ASSUME NEW v \in Users, InitRoomKey(v), flow[v].room = q PROVE FALSE
  BY <1>2, KeyedIsInitialised DEF InitRoomKey, Unkeyed
<1> QED BY <1>1, <1>2 DEF Fresh

LEMMA OneIsFresh ==
  ASSUME EpochInv, OneRegenerates, NEW q \in RoomIds, NEW e \in Epochs,
         NEW j \in Blobs, NEW k \in Blobs, Fresh(q, e, j), Fresh(q, e, k)
  PROVE  j = k
<1>1. ASSUME NEW u \in Users, RegenerateKey(u, q)
      PROVE  /\ ~paired[u]
             /\ \A v \in Users : ~(InitRoomKey(v) /\ flow[v].room = q)
  <2>1. RegenerationIsNew(u, q) /\ loads[u][q].at = "listed"
    BY <1>1 DEF EpochInv, RegenerateKey
  <2>2. PICK d \in Epochs : room_keys[q][u][d] # NoBlob
    BY <2>1 DEF RegenerationIsNew
  <2> QED BY <2>1, <2>2, KeyedIsInitialised DEF RegenerationIsNew, InitRoomKey, Unkeyed
<1>2. \A u, v \in Users : RegenerateKey(u, q) /\ RegenerateKey(v, q) => u = v
  BY <1>1 DEF EpochInv, OneRegenerates
<1>3. \A u, v \in Users : (/\ InitRoomKey(u) /\ flow[u].room = q
                           /\ InitRoomKey(v) /\ flow[v].room = q) => u = v
  BY DEF EpochInv, Creations, InitRoomKey
<1> QED BY <1>1, <1>2, <1>3 DEF Fresh

LEMMA AgreedStep ==
  ASSUME EpochInv, OneRegenerates, Step
  PROVE  Agreed'
<1> SUFFICES ASSUME NEW q \in RoomIds, NEW e \in Epochs, NEW j \in Blobs, NEW k \in Blobs,
                    Somewhere(q, e, j)', Somewhere(q, e, k)'
             PROVE  j = k
  BY DEF Agreed
<1>1. Comes(q, e, j) /\ Comes(q, e, k)
  BY CopyOrigin DEF EpochInv, KeyInv
<1>2. ASSUME Fresh(q, e, j) \/ Fresh(q, e, k) PROVE Nowhere(q, e)
  BY <1>2, FreshIsFirst
<1> QED BY <1>1, <1>2, OneIsFresh DEF Comes, Nowhere, EpochInv, Agreed

LEMMA StillUnkeyed ==
  ASSUME EpochInv, OneRegenerates, Step, NEW q \in RoomIds, Unkeyed(q)'
  PROVE  Unkeyed(q)
<1>1. TypeInv /\ CopiesGood /\ Creations
  BY DEF EpochInv, KeyInv
<1>2. CASE q \notin ROOMS'
  BY <1>1, <1>2, KeptStep DEF Kept, Unkeyed
<1>3. ASSUME NEW u \in Users, flow'[u].at = "init", flow'[u].room = q PROVE Unkeyed(q)
  <2>1. CASE flow'[u] = flow[u]
    BY <1>3, <2>1 DEF Unkeyed
  <2>2. CASE CreateChannel(u, q)
    BY <2>2 DEF CreateChannel, CreateRoom, Unkeyed
  <2> QED BY <1>1, <1>3, <2>1, <2>2, InitOrigin
<1> QED BY <1>2, <1>3 DEF Unkeyed

LEMMA CreationsStep ==
  ASSUME EpochInv, OneRegenerates, Step
  PROVE  Creations'
<1>0. TypeInv /\ CopiesGood /\ Creations /\ ClientTypeOK
  BY DEF EpochInv, KeyInv, TypeInv, TypeOK, ClientTypeOK
<1>1. ASSUME NEW q \in RoomIds, Unkeyed(q)', NEW e \in Epochs, NEW k \in Blobs,
             Somewhere(q, e, k)'
      PROVE  FALSE
  <2>1. Unkeyed(q)
    BY <1>1, StillUnkeyed
  <2>2. Fresh(q, e, k)
    BY <1>0, <1>1, <2>1, CopyOrigin DEF Comes, Creations, Nowhere
  <2>3. ASSUME NEW u \in Users, RegenerateKey(u, q) PROVE FALSE
    <3>1. RegenerationIsNew(u, q) /\ loads[u][q].at = "listed"
      BY <2>3 DEF EpochInv, RegenerateKey
    <3> QED BY <2>1, <3>1, KeyedIsInitialised DEF RegenerationIsNew
  <2>4. ASSUME NEW u \in Users, InitRoomKey(u), flow[u].room = q PROVE FALSE
    <3>1. q \in ROOMS'
      BY <1>0, <2>4, KeptStep DEF Creations, Kept, InitRoomKey
    <3>2. PICK v \in Users : flow'[v].at = "init" /\ flow'[v].room = q
      BY <1>1, <3>1 DEF Unkeyed
    <3>3. flow'[u].at = "select"
      BY <1>0, <2>4 DEF InitRoomKey, SetFlow, ClientTypeOK
    <3>4. flow'[v] = flow[v]
      BY <1>0, <2>4, <3>2, <3>3 DEF InitRoomKey, SetFlow, ClientTypeOK
    <3>5. u = v
      BY <1>0, <2>4, <3>2, <3>4 DEF Creations, InitRoomKey
    <3> QED BY <3>2, <3>3, <3>5
  <2> QED BY <2>2, <2>3, <2>4 DEF Fresh
<1>2. ASSUME NEW u \in Users, flow'[u].at = "init"
      PROVE  /\ flow'[u].room \in ROOMS'
             /\ flow[u].at = "init" => flow'[u] = flow[u] /\ flow'[u].room \in ROOMS
             /\ flow[u].at # "init" => /\ CreateChannel(u, flow'[u].room)
                                       /\ flow'[u].room \notin ROOMS
  <2>1. CASE flow'[u] = flow[u]
    BY <1>0, <1>2, <2>1, KeptStep DEF Creations, Kept
  <2>2. ASSUME NEW r \in RoomIds, CreateChannel(u, r), flow'[u].room = r
        PROVE  /\ r \in ROOMS' /\ r \notin ROOMS /\ flow[u].at # "init"
    BY <2>2 DEF CreateChannel, CreateRoom, NoFlow
  <2> QED BY <1>0, <1>2, <2>1, <2>2, InitOrigin
<1>3. ASSUME NEW u \in Users, NEW v \in Users, flow'[u].at = "init",
             flow'[v].at = "init", flow'[v].room = flow'[u].room
      PROVE  u = v
  <2>1. CASE flow[u].at = "init" /\ flow[v].at = "init"
    BY <1>0, <1>2, <1>3, <2>1 DEF Creations
  <2>2. CASE flow[u].at # "init" /\ flow[v].at # "init"
    <3>1. CreateChannel(u, flow'[u].room)
      BY <1>2, <1>3, <2>2
    <3>2. v = u \/ flow'[v] = flow[v]
      BY <1>0, <3>1 DEF CreateChannel, SetFlow, ClientTypeOK
    <3> QED BY <1>3, <2>2, <3>2
  <2>3. CASE flow[u].at = "init" /\ flow[v].at # "init"
    BY <1>2, <1>3, <2>3
  <2>4. CASE flow[u].at # "init" /\ flow[v].at = "init"
    BY <1>2, <1>3, <2>4
  <2> QED BY <2>1, <2>2, <2>3, <2>4
<1>4. (\A u \in Users : flow[u].at # "dmPosting")'
  BY <1>0, InitOrigin
<1>5. (\A q \in RoomIds : Unkeyed(q) => \A e \in Epochs : Nowhere(q, e))'
  BY <1>1 DEF Nowhere
<1>6. (\A u \in Users : flow[u].at = "init" =>
          /\ flow[u].room \in ROOMS
          /\ \A v \in Users : flow[v].at = "init" /\ flow[v].room = flow[u].room => u = v)'
  BY <1>2, <1>3
<1> QED BY <1>4, <1>5, <1>6 DEF Creations

\* Nobody gets a lost key back, and only those lose it who may.
LEMMA LosersStep ==
  ASSUME TypeInv, Step, NEW u \in Users, paired[u] \/ u \in Losers
  PROVE  (~paired[u] => ~paired'[u]) /\ (paired'[u] \/ u \in Losers)
<1> DEFINE Goal == \/ UNCHANGED paired
                   \/ \E v \in Losers : paired' = [paired EXCEPT ![v] = FALSE]
<1>1. ASSUME NEW v \in Users, PageStep(v) PROVE Goal
  BY <1>1 DEF PageStep, Reconnect, InitRoomKey, SelectAfter, ShareBegin, SharePost,
              SendMessage, ReloadPage, LoseKey
<1>2. ASSUME NEW v \in Users, NEW q \in RoomIds, PageRoomStep(v, q) PROVE Goal
  BY <1>2 DEF PageRoomStep, SelectRoom, LoadRows, Decrypt, RegenerateBegin, RegenerateKey,
              CreateChannel, StartDM
<1>3. ASSUME NEW v \in Users, NEW t \in Users, PageUserStep(v, t) PROVE Goal
  BY <1>3 DEF PageUserStep, RegeneratePost, Request, clientVars, AddMembers, DMPost, AddNext
<1>4. Goal
  BY <1>1, <1>2, <1>3 DEF Step
<1> QED BY <1>4 DEF TypeInv, TypeOK

LEMMA RegenerationStep ==
  ASSUME EpochInv, OneRegenerates, Step, NEW u \in Users, NEW q \in RoomIds
  PROVE  RegenerationIsNew(u, q)'
<1> DEFINE load == loads[u][q]
           next == loads'[u][q]
<1>0. /\ TypeInv /\ CopiesGood /\ Creations /\ RoomsTypeOK /\ load \in Load
      /\ LoadShape(u, q) /\ RegenerationIsNew(u, q) /\ (paired[u] \/ u \in Losers)
      /\ Epochs \subseteq Nat
  BY RoomKeysAssumption DEF EpochInv, KeyInv, TypeInv, TypeOK, Shape
<1>1. Advanced(u, q, next) /\ Kept
  BY <1>0, LoadNext, KeptStep
<1>2. ~paired[u] => ~paired'[u]
  BY <1>0, LosersStep
\* What is left to show of next when it is not the load before.
<1>3. check_room_access(q, u) => check_room_access(q, u)'
  BY <1>1 DEF Kept, check_room_access
<1>4. ASSUME ~paired[u], NEW d \in Epochs, room_keys[q][u][d] # NoBlob,
             next.at # "posting", NEW e \in Epochs, Nowhere(q, e)
      PROVE  Nowhere(q, e)'
  <2>1. ~RegenerateKey(u, q)
    <3>1. RegenerateKey(u, q) => next.at = "posting"
      <4>1. ASSUME NEW k \in Blobs,
                   SetLoad(u, q, [at |-> "posting", epoch |-> load.epoch, key |-> k,
                                  left |-> load.left])
            PROVE  next.at = "posting"
        BY <1>0, <4>1, SetLoadIs
      <4> QED BY <4>1 DEF RegenerateKey
    <3> QED BY <1>4, <3>1
  <2>2. ASSUME NEW k \in Blobs, Somewhere(q, e, k)' PROVE FALSE
    <3>1. Comes(q, e, k)
      BY <1>0, <2>2, CopyOrigin
    <3>2. ~Fresh(q, e, k)
      BY <1>4, <2>1, NothingElseIsFresh
    <3> QED BY <1>4, <3>1, <3>2 DEF Comes, Nowhere
  <2> QED BY <2>2 DEF Nowhere
<1> HIDE DEF next
<1>5. CASE next = load
  <2>1. next.at = "decrypting" =>
           \A d \in Epochs : next.rows[d] # NoBlob => room_keys'[q][u][d] # NoBlob
    BY <1>0, <1>1, <1>5 DEF RegenerationIsNew, Kept
  <2>2. ASSUME next.at \in {"regenerate", "listed"}
        PROVE  /\ next.epoch # 0
               /\ \A e \in Epochs : e >= next.epoch => Nowhere(q, e)'
               /\ \E d \in Epochs : room_keys'[q][u][d] # NoBlob
    <3>1. PICK d \in Epochs : room_keys[q][u][d] # NoBlob
      BY <1>0, <1>5, <2>2 DEF RegenerationIsNew
    <3>2. ~paired[u] /\ next.epoch # 0
      BY <1>0, <1>5, <2>2 DEF RegenerationIsNew
    <3>3. \A e \in Epochs : e >= next.epoch => Nowhere(q, e)
      BY <1>0, <1>5, <2>2 DEF RegenerationIsNew
    <3>4. \A e \in Epochs : e >= next.epoch => Nowhere(q, e)'
      BY <1>4, <2>2, <3>1, <3>2, <3>3
    <3> QED BY <1>1, <3>1, <3>2, <3>4 DEF Kept
  <2>3. next.at \in {"regenerate", "listed", "posting"} => ~paired'[u]
    BY <1>0, <1>2, <1>5 DEF RegenerationIsNew
  <2>4. next.at \in {"listed", "posting"} => check_room_access(q, u)'
    BY <1>0, <1>3, <1>5 DEF RegenerationIsNew
  <2>5. next.at = "listed" => u \in next.left
    BY <1>0, <1>5 DEF RegenerationIsNew
  <2> QED BY <2>1, <2>2, <2>3, <2>4, <2>5 DEF RegenerationIsNew, next
<1>6. CASE Asked(u, q, next)
  BY <1>6 DEF Asked, RegenerationIsNew, next
<1>7. CASE Read(u, q, next)
  <2>1. UNCHANGED room_keys
    BY <1>7 DEF Read, LoadRows, roomVars
  <2> QED BY <1>7, <2>1 DEF Read, RegenerationIsNew, next
<1>8. CASE Decrypting(u, q, next)
  <2>1. \A d \in Epochs : next.rows[d] # NoBlob => room_keys'[q][u][d] # NoBlob
    BY <1>0, <1>1, <1>8 DEF RegenerationIsNew, Kept, Decrypting
  <2> QED BY <1>8, <2>1 DEF Decrypting, RegenerationIsNew, next
<1>9. CASE NoneDecrypted(u, q, next)
  <2>1. /\ load.at = "decrypting" /\ roomKeys'[u][q] = NoMap
        /\ load.left \subseteq Has(load.rows) /\ load.rows \in KeyMap
        /\ UNCHANGED <<paired, room_keys>>
    BY <1>0, <1>9, LoadFields DEF NoneDecrypted, Decrypt, roomVars, LoadShape
  <2>2. PICK top \in Has(load.rows) :
          /\ \A e \in Has(load.rows) : e <= top
          /\ next = [at |-> "regenerate", epoch |-> top + 1]
    BY <1>9 DEF NoneDecrypted
  <2>3. ~paired[u]
    <3> SUFFICES ASSUME paired[u] PROVE FALSE
      OBVIOUS
    <3> DEFINE old == IF roomKeys[u][q] = Absent THEN NoMap ELSE roomKeys[u][q]
    <3>1. PICK d \in load.left : Put(u, q, d, load.rows[d])
      BY <1>9 DEF NoneDecrypted, Decrypt
    <3>2. d \in Epochs /\ load.rows[d] # NoBlob
      BY <2>1 DEF Has
    <3>3. roomKeys'[u][q] = [old EXCEPT ![d] = load.rows[d]]
      BY <1>0, <3>1 DEF Put, TypeInv, TypeOK
    <3>4. old \in KeyMap
      BY <1>0 DEF TypeInv, TypeOK, NoMap, KeyMap
    <3> HIDE DEF old
    <3>5. roomKeys'[u][q][d] = load.rows[d]
      BY <3>2, <3>3, <3>4 DEF KeyMap
    <3> QED BY <2>1, <3>2, <3>5 DEF NoMap
  <2>4. top \in Epochs /\ top \in Nat /\ load.rows[top] # NoBlob
    BY <1>0 DEF Has
  <2>5. room_keys[q][u][top] # NoBlob
    BY <1>0, <2>1, <2>4 DEF RegenerationIsNew
  <2>6. ASSUME NEW e \in Epochs, e >= top + 1 PROVE Nowhere(q, e)
    <3>1. e \in Epochs \ {0} /\ ~(e <= top) /\ e \in Nat
      BY <1>0, <2>4, <2>6
    <3>2. ASSUME NEW k \in Blobs, Somewhere(q, e, k) PROVE FALSE
      <4>1. LoserIsUpToDate(u, q)
        BY <1>0, <2>3 DEF EpochInv
      <4>2. PICK d \in Epochs : d >= e /\ load.rows[d] # NoBlob
        BY <2>1, <3>1, <3>2, <4>1 DEF LoserIsUpToDate
      <4>3. d <= top /\ d \in Nat
        BY <1>0, <2>2, <4>2 DEF Has
      <4> QED BY <2>4, <3>1, <4>2, <4>3
    <3> QED BY <3>2 DEF Nowhere
  <2>7. next.at = "regenerate" /\ next.epoch = top + 1
    BY <2>2
  <2>8. \A e \in Epochs : e >= next.epoch => Nowhere(q, e)'
    BY <1>4, <2>3, <2>4, <2>5, <2>6, <2>7
  <2>9. next.epoch # 0
    BY <2>4, <2>7
  <2>10. /\ ~paired'[u]
         /\ \E d \in Epochs : room_keys'[q][u][d] # NoBlob
    BY <2>1, <2>3, <2>4, <2>5
  <2> QED BY <2>7, <2>8, <2>9, <2>10 DEF RegenerationIsNew, next
<1>10. CASE Listed(u, q, next)
  <2>1. /\ load.at = "regenerate" /\ check_room_access(q, u)
        /\ next.at = "listed" /\ next.epoch = load.epoch /\ u \in next.left
    BY <1>10 DEF Listed, RegenerateBegin, check_room_access
  <2>2. ~paired[u] /\ load.epoch # 0
    BY <1>0, <2>1 DEF RegenerationIsNew
  <2>3. \A e \in Epochs : e >= next.epoch => Nowhere(q, e)
    BY <1>0, <2>1 DEF RegenerationIsNew
  <2>4. PICK d \in Epochs : room_keys[q][u][d] # NoBlob
    BY <1>0, <2>1 DEF RegenerationIsNew
  <2>5. \A e \in Epochs : e >= next.epoch => Nowhere(q, e)'
    BY <1>4, <2>1, <2>2, <2>3, <2>4
  <2>6. room_keys'[q][u][d] # NoBlob
    BY <1>1, <2>4 DEF Kept
  <2> QED BY <1>2, <1>3, <2>1, <2>2, <2>5, <2>6 DEF RegenerationIsNew, next
<1>11. CASE Generated(u, q, next)
  <2>1. load.at = "listed" /\ next.at = "posting"
    BY <1>11 DEF Generated, RegenerateKey
  <2>2. ~paired[u] /\ check_room_access(q, u)
    BY <1>0, <2>1 DEF RegenerationIsNew
  <2> QED BY <1>2, <1>3, <2>1, <2>2 DEF RegenerationIsNew, next
<1>12. CASE Posted(u, q, next)
  <2>1. load.at = "posting" /\ next.at = "posting"
    BY <1>12 DEF Posted, RegeneratePost
  <2>2. ~paired[u] /\ check_room_access(q, u)
    BY <1>0, <2>1 DEF RegenerationIsNew
  <2> QED BY <1>2, <1>3, <2>1, <2>2 DEF RegenerationIsNew, next
<1> QED BY <1>1, <1>5, <1>6, <1>7, <1>8, <1>9, <1>10, <1>11, <1>12 DEF Advanced

LEMMA UpToDateStep ==
  ASSUME EpochInv, OneRegenerates, Step, NEW u \in Users, u \in Losers, NEW q \in RoomIds
  PROVE  LoserIsUpToDate(u, q)'
<1> DEFINE load == loads[u][q]
           next == loads'[u][q]
<1>0. /\ TypeInv /\ CopiesGood /\ Creations /\ RoomsTypeOK /\ load \in Load
      /\ LoserIsUpToDate(u, q) /\ RegenerationIsNew(u, q)
      /\ Epochs \subseteq Nat
  BY RoomKeysAssumption DEF EpochInv, KeyInv, TypeInv, TypeOK
<1>1. Advanced(u, q, next) /\ Kept
  BY <1>0, LoadNext, KeptStep
<1>2. ASSUME NEW e \in Epochs \ {0}, NEW k \in Blobs, Fresh(q, e, k)
      PROVE  RegenerateKey(u, q) /\ load.epoch = e
  <2>1. PICK v \in Users : RegenerateKey(v, q) /\ loads[v][q].epoch = e
    BY <1>2 DEF Fresh
  <2>2. RegenerationIsNew(v, q) /\ loads[v][q].at = "listed"
    BY <2>1 DEF EpochInv, RegenerateKey
  <2>3. u = v
    BY <2>2 DEF EpochInv, OneRegenerates, RegenerationIsNew
  <2> QED BY <2>1, <2>3
<1>3. ASSUME NEW e \in Epochs \ {0}, NEW k \in Blobs, Somewhere(q, e, k)'
      PROVE  Somewhere(q, e, k) \/ (RegenerateKey(u, q) /\ load.epoch = e)
  BY <1>0, <1>2, <1>3, CopyOrigin DEF Comes
<1>4. ASSUME NEW e \in Epochs \ {0}, NEW k \in Blobs, Somewhere(q, e, k)'
      PROVE  \/ \E d \in Epochs : d >= e /\ room_keys'[q][u][d] # NoBlob
             \/ next.at = "posting" /\ u \in next.left /\ e <= next.epoch
  <2>1. CASE RegenerateKey(u, q) /\ load.epoch = e
    <3>1. load.at = "listed" /\ u \in load.left
      BY <1>0, <2>1 DEF RegenerateKey, RegenerationIsNew
    <3>2. PICK j \in Blobs :
            SetLoad(u, q, [at |-> "posting", epoch |-> load.epoch, key |-> j,
                           left |-> load.left])
      BY <2>1 DEF RegenerateKey
    <3>3. next.at = "posting" /\ next.left = load.left /\ next.epoch = load.epoch
      BY <1>0, <3>2, SetLoadIs
    <3>4. e <= e
      BY <1>0
    <3> QED BY <2>1, <3>1, <3>3, <3>4
  <2>2. CASE \E d \in Epochs : d >= e /\ room_keys[q][u][d] # NoBlob
    BY <1>1, <2>2 DEF Kept
  <2>3. CASE load.at = "posting" /\ u \in load.left /\ e <= load.epoch
    <3>1. load.epoch \in Epochs /\ load.key \in Blobs /\ load.epoch >= e
      BY <1>0, <2>3, LoadFields
    <3>2. RegeneratePost(u, q, u) => room_keys'[q][u][load.epoch] # NoBlob
      <4> DEFINE d == load.epoch
                 j == load.key
      <4> SUFFICES ASSUME RegeneratePost(u, q, u) PROVE room_keys'[q][u][d] # NoBlob
        OBVIOUS
      <4>1. TryStoreKey(u, q, u, d, j) /\ d \in Epochs /\ j \in Blobs
        BY <3>1 DEF RegeneratePost
      <4>2. CanStoreKey(u, q, u)
        BY <1>0, <2>3 DEF CanStoreKey, RegenerationIsNew
      <4> HIDE DEF d, j
      <4>3. room_keys' = [room_keys EXCEPT ![q][u][d] = j]
        BY <4>1, <4>2 DEF TryStoreKey, StoreKey
      <4>4. room_keys'[q][u][d] = j
        BY <1>0, <4>1, <4>3 DEF RoomsTypeOK
      <4> QED BY <4>1, <4>4, RoomsAssumption
    <3>3. ~ReloadPage(u) /\ ~LoseKey(u)
      BY <1>0, <2>3 DEF RegenerationIsNew, ReloadPage, LoseKey, OneRegenerates
    <3>4. CASE Asked(u, q, next)
      BY <2>3, <3>1, <3>2, <3>3, <3>4 DEF Asked
    <3>5. CASE Posted(u, q, next)
      <4>1. PICK t \in Users : RegeneratePost(u, q, t) /\ next.left = load.left \ {t}
        BY <3>5 DEF Posted
      <4>2. CASE t = u
        BY <3>1, <3>2, <4>1, <4>2
      <4>3. CASE t # u
        BY <2>3, <3>5, <4>1, <4>3 DEF Posted
      <4> QED BY <4>2, <4>3
    <3>6. ~Read(u, q, next) /\ ~Decrypting(u, q, next) /\ ~Listed(u, q, next)
      BY <2>3 DEF Read, LoadRows, Decrypting, Listed, RegenerateBegin
    <3>7. ~NoneDecrypted(u, q, next) /\ ~Generated(u, q, next)
      BY <2>3 DEF NoneDecrypted, Decrypt, Generated, RegenerateKey
    <3>8. CASE next = load
      BY <2>3, <3>8
    <3> QED BY <1>1, <3>4, <3>5, <3>6, <3>7, <3>8 DEF Advanced
  <2> QED BY <1>0, <1>3, <1>4, <2>1, <2>2, <2>3 DEF LoserIsUpToDate
<1>5. ASSUME next.at = "decrypting", NEW e \in Epochs \ {0}, NEW k \in Blobs,
             Somewhere(q, e, k)'
      PROVE  \E d \in Epochs : d >= e /\ next.rows[d] # NoBlob
  <2>1. CASE load.at = "decrypting" /\ next.rows = load.rows
    <3>1. Somewhere(q, e, k)
      BY <1>3, <1>5, <2>1 DEF RegenerateKey
    <3> QED BY <1>0, <2>1, <3>1 DEF LoserIsUpToDate
  <2>2. CASE Read(u, q, next)
    <3>1. load.at = "asked" /\ next.rows = room_keys[q][u]
      BY <2>2 DEF Read, LoadRows
    <3>2. Somewhere(q, e, k)
      BY <1>3, <1>5, <3>1 DEF RegenerateKey
    <3>3. PICK d \in Epochs : d >= e /\ room_keys[q][u][d] # NoBlob
      BY <1>0, <3>1, <3>2 DEF LoserIsUpToDate
    <3> QED BY <3>1, <3>3
  <2>3. next = load \/ Read(u, q, next) \/ Decrypting(u, q, next)
    <3>1. ~Asked(u, q, next) /\ ~Listed(u, q, next) /\ ~Generated(u, q, next)
          /\ ~Posted(u, q, next)
      BY <1>5 DEF Asked, Listed, Generated, Posted
    <3>2. NoneDecrypted(u, q, next) => next.at = "regenerate"
      BY DEF NoneDecrypted
    <3> QED BY <1>1, <1>5, <3>1, <3>2 DEF Advanced
  <2> QED BY <1>5, <2>1, <2>2, <2>3 DEF Decrypting
<1> QED BY <1>4, <1>5 DEF LoserIsUpToDate

LEMMA InitEpochInv == Init => EpochInv
<1> SUFFICES ASSUME Init PROVE EpochInv
  OBVIOUS
<1> USE RoomsAssumption
<1>1. KeyInv
  BY InitKeyInv
<1>2. \A q \in RoomIds, e \in Epochs, k \in Blobs : ~Somewhere(q, e, k)
  BY DEF Init, RoomsInit, NoKeys, NoLoad, NoFlow, Somewhere, Copy, Adding
<1>3. Agreed
  BY <1>2 DEF Agreed
<1>4. Creations
  BY <1>2 DEF Creations, Nowhere, Init, NoFlow
<1>5. \A u \in Users : paired[u]
  BY DEF Init
<1>6. \A u \in Users, q \in RoomIds : LoserIsUpToDate(u, q)
  BY <1>2 DEF LoserIsUpToDate
<1>7. \A u \in Users, q \in RoomIds : RegenerationIsNew(u, q)
  BY DEF Init, NoLoad, RegenerationIsNew
<1> QED BY <1>1, <1>3, <1>4, <1>5, <1>6, <1>7, RoomKeysAssumption DEF EpochInv

LEMMA EpochInvStep ==
  ASSUME OneRegenerates, EpochInv, [Next]_vars
  PROVE  EpochInv'
<1>0. KeyInv'
  BY KeyInvStep DEF OneRegenerates, EpochInv
<1>1. CASE Next
  <2>0. Step /\ TypeInv
    BY <1>1 DEF Next, EpochInv, KeyInv
  <2>1. Agreed' /\ Creations'
    BY <2>0, AgreedStep, CreationsStep
  <2>2. (\A u \in Users : paired[u] \/ u \in Losers)'
    BY <2>0, LosersStep DEF EpochInv
  <2>3. (\A u \in Losers, q \in RoomIds : LoserIsUpToDate(u, q))'
    BY <2>0, UpToDateStep, RoomKeysAssumption
  <2>4. (\A u \in Users, q \in RoomIds : RegenerationIsNew(u, q))'
    BY <2>0, RegenerationStep
  <2> QED BY <1>0, <2>1, <2>2, <2>3, <2>4 DEF EpochInv
<1>2. CASE UNCHANGED vars
  <2>0. UNCHANGED <<ROOMS, room_users, room_keys, paired, roomKeys, loads, flow>>
    BY <1>2 DEF vars, roomVars, clientVars
  <2>1. \A q \in RoomIds, e \in Epochs, k \in Blobs :
           Somewhere(q, e, k)' = Somewhere(q, e, k)
    BY <2>0 DEF Somewhere, Copy
  <2>2. \A q \in RoomIds, e \in Epochs : Nowhere(q, e)' = Nowhere(q, e)
    BY <2>1 DEF Nowhere
  <2>3. Agreed'
    BY <2>1 DEF Agreed, EpochInv
  <2>4. Creations'
    BY <2>0, <2>2 DEF Creations, Unkeyed, EpochInv
  <2>5. (\A u \in Users : paired[u] \/ u \in Losers)'
    BY <2>0 DEF EpochInv
  <2>6. (\A u \in Losers, q \in RoomIds : LoserIsUpToDate(u, q))'
    BY <2>0, <2>1 DEF EpochInv, LoserIsUpToDate
  <2>7. (\A u \in Users, q \in RoomIds : RegenerationIsNew(u, q))'
    BY <2>0, <2>2 DEF EpochInv, RegenerationIsNew, check_room_access, IsMember
  <2> QED BY <1>0, <2>3, <2>4, <2>5, <2>6, <2>7 DEF EpochInv
<1> QED BY <1>1, <1>2

LEMMA EpochInvariant ==
  ASSUME OneRegenerates
  PROVE  Spec => []EpochInv
<1>1. EpochInv /\ [Next]_vars => EpochInv'
  BY EpochInvStep
<1> QED BY <1>1, InitEpochInv, PTL DEF Spec

\* When at most one user ever lost the private key and lets each distribution of a new
\* key finish, and nobody is removed, no two members hold different keys for one epoch
\* of a room, however creation, invitations, loads and regenerations interleave.
THEOREM EpochsAgree ==
  ASSUME OneRegenerates
  PROVE  Spec => []OneKeyPerEpoch
<1>1. EpochInv => OneKeyPerEpoch
  <2> SUFFICES ASSUME EpochInv, NEW r \in RoomIds, NEW e \in Epochs, NEW u \in Users,
                      NEW v \in Users, room_keys[r][u][e] # NoBlob,
                      room_keys[r][v][e] # NoBlob
               PROVE  room_keys[r][u][e] = room_keys[r][v][e]
    BY DEF OneKeyPerEpoch
  <2>1. room_keys[r][u][e] \in Blobs /\ room_keys[r][v][e] \in Blobs
    BY DEF EpochInv, KeyInv, TypeInv, TypeOK, RoomsTypeOK
  <2>2. /\ Somewhere(r, e, room_keys[r][u][e])
        /\ Somewhere(r, e, room_keys[r][v][e])
    BY DEF Somewhere, Copy
  <2> QED BY <2>1, <2>2 DEF EpochInv, Agreed
<1> QED BY <1>1, EpochInvariant, PTL

LEMMA KeepsStep ==
  ASSUME OneRegenerates, EpochInv, Next, NEW u \in Users, NEW m \in messages,
         room_keys[m.room][u][m.epoch] = m.key
  PROVE  room_keys'[m.room][u][m.epoch] = m.key
<1> DEFINE q == m.room
           e == m.epoch
           k == m.key
<1>0. Step /\ TypeInv /\ TypeInv' /\ CopiesGood /\ Creations
  BY TypeInvStep DEF Next, EpochInv, KeyInv
<1>1. q \in RoomIds /\ e \in Epochs /\ k \in Blobs
  BY <1>0 DEF TypeInv, TypeOK, Message
<1>2. Somewhere(q, e, k) /\ k # NoBlob
  BY <1>1, RoomsAssumption DEF Somewhere, Copy
<1>3. room_keys[q][u][e] = k
  OBVIOUS
<1> HIDE DEF q, e, k
<1>4. room_keys'[q][u][e] # NoBlob
  BY <1>0, <1>1, <1>2, <1>3, KeptStep DEF Kept
<1>5. PICK j \in Blobs : room_keys'[q][u][e] = j
  BY <1>0, <1>1, <1>4 DEF TypeInv, TypeOK, RoomsTypeOK
<1>6. Somewhere(q, e, j)'
  BY <1>5 DEF Somewhere, Copy
<1>7. Somewhere(q, e, j) \/ Fresh(q, e, j)
  BY <1>0, <1>1, <1>5, <1>6, CopyOrigin DEF Comes
<1>8. ~Fresh(q, e, j)
  BY <1>1, <1>2, <1>5, FreshIsFirst DEF Nowhere
<1>9. j = k
  BY <1>1, <1>2, <1>5, <1>7, <1>8 DEF EpochInv, Agreed
<1> QED BY <1>5, <1>9 DEF q, e, k

\* Under the same assumption, whoever has the key of a message keeps it: no later step
\* of any flow replaces his blob of that epoch by another key.
THEOREM KeysAreKept ==
  ASSUME OneRegenerates
  PROVE  Spec => NoKeyIsLost
<1>1. EpochInv /\ [Next]_vars
      => [\A u \in Users, m \in messages :
            room_keys[m.room][u][m.epoch] = m.key
            => room_keys'[m.room][u][m.epoch] = m.key \/ m.room \notin rooms']_vars
  BY KeepsStep
<1> QED BY <1>1, EpochInvariant, PTL DEF Spec, NoKeyIsLost
=============================================================================
