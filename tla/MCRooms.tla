------------------------------ MODULE MCRooms ------------------------------
(* The room service, and the pages of forms, for TLC.  They share nothing, *)
(* so that one of them moves in a behaviour: the others stay at one of     *)
(* their initial states.  Topics and values are interchangeable: one of    *)
(* each is there at the start.  The room of the settings begins private.   *)
EXTENDS Rooms, Pages

VARIABLE moving         \* the part that moves

-----------------------------------------------------------------------------
RoomsAndPagesInit ==
    /\ moving \in {"service", "settings", "admin", "fields"}
    /\ RoomsInit /\ RS!Init /\ AP!Init /\ SF!Init
    /\ sTopic = CHOOSE t \in Topics : TRUE
    /\ fSaved = CHOOSE v \in Values : TRUE
    /\ sVisibility = "private"
    /\ moving # "settings" => \A u \in People : sRole[u] = "owner"
    /\ moving # "admin" => aMode = "closed" /\ aRole = "admin" /\ "users" \in aLists
    /\ moving # "fields" => fKind = "input" /\ fPage = "admin"

ofSettings ==
    <<sRole, sRequested, sTopic, sVisibility, sExists, sOpen, sMembers, sRequests,
      sTopicInput, sOriginalTopic, sSelect, sCurrent, sAskedRoom, sRoomAnswers,
      sAskedRequests, sRequestAnswers, sCalls, sClicks, sEvents, sBehind>>
ofAdmin ==
    <<aLists, aRole, aMode, aNow, aCurrentRole, aSlider, aCurrentRegMode,
      aAdminPollInterval, aShown, aAsked, aAnswers, aCalls, aClicks, aEvents, aMine,
      aExcused>>
ofFields ==
    <<fKind, fPage, fSaved, fPhase, fLoaded, fShown, fCurrent, fPreview, fRedraws, fCalls,
      fWanted, fClicks, fEvents, fExcused>>

ServiceTurn == moving = "service"
SettingsTurn == moving = "settings"
AdminTurn == moving = "admin"
FieldsTurn == moving = "fields"
ServiceOnly == UNCHANGED <<moving, ofSettings, ofAdmin, ofFields>>
SettingsOnly == UNCHANGED <<moving, roomVars, ofAdmin, ofFields>>
AdminOnly == UNCHANGED <<moving, roomVars, ofSettings, ofFields>>
FieldsOnly == UNCHANGED <<moving, roomVars, ofSettings, ofAdmin>>

ServiceMoves ==
    \/ ServiceTurn /\ Restart /\ ServiceOnly
    \/ \E u \in Users : ServiceTurn /\ UpdateVisibilityAfter(u) /\ ServiceOnly
    \/ \E u \in Users, r \in RoomIds :
          \/ \E v \in Visibilities :
                \/ ServiceTurn /\ CreateRoom(u, r, v) /\ ServiceOnly
                \/ ServiceTurn /\ CreateRoomOwnerFails(u, r, v) /\ ServiceOnly
                \/ ServiceTurn /\ UpdateVisibility(u, r, v) /\ ServiceOnly
                \/ ServiceTurn /\ UpdateTopicFirst(u, r, v) /\ ServiceOnly
          \/ ServiceTurn /\ CreateRoomInsertFails(u, r) /\ ServiceOnly
          \/ ServiceTurn /\ CreateDM(u, r) /\ ServiceOnly
          \/ ServiceTurn /\ DeleteRoom(u, r) /\ ServiceOnly
          \/ ServiceTurn /\ DeleteRoomFails(u, r) /\ ServiceOnly
          \/ ServiceTurn /\ SubmitJoinRequest(u, r) /\ ServiceOnly
    \/ \E u \in Users, r \in RoomIds, t \in Users :
          \/ ServiceTurn /\ AddMember(u, r, t) /\ ServiceOnly
          \/ ServiceTurn /\ RemoveMember(u, r, t) /\ ServiceOnly
          \/ \E role \in Roles : ServiceTurn /\ SetRole(u, r, t, role) /\ ServiceOnly
          \/ ServiceTurn /\ ApproveJoinRequest(u, r, t) /\ ServiceOnly
          \/ ServiceTurn /\ ApproveStatusFails(u, r, t) /\ ServiceOnly
          \/ ServiceTurn /\ DenyJoinRequest(u, r, t) /\ ServiceOnly
          \/ \E e \in Epochs, b \in Blobs :
                ServiceTurn /\ StoreKey(u, r, t, e, b) /\ ServiceOnly

SettingsMove ==
    \/ \E n \in DOMAIN sCalls :
          \/ SettingsTurn /\ RS!remove_member(n) /\ SettingsOnly
          \/ SettingsTurn /\ RS!resolve_join_request(n) /\ SettingsOnly
          \/ SettingsTurn /\ RS!update_room(n) /\ SettingsOnly
          \/ SettingsTurn /\ RS!delete_room(n) /\ SettingsOnly
          \/ SettingsTurn /\ RS!NoSuchRoute(n) /\ SettingsOnly
          \/ SettingsTurn /\ RS!RemoveReplied(n) /\ SettingsOnly
          \/ SettingsTurn /\ RS!RequestReplied(n) /\ SettingsOnly
          \/ SettingsTurn /\ RS!GoneReplied(n) /\ SettingsOnly
          \/ SettingsTurn /\ RS!TopicReplied(n) /\ SettingsOnly
          \/ SettingsTurn /\ RS!VisibilityReplied(n) /\ SettingsOnly
          \/ SettingsTurn /\ RS!VisibilityRefused(n) /\ SettingsOnly
          \/ SettingsTurn /\ RS!Refused(n) /\ SettingsOnly
          \/ SettingsTurn /\ RS!Lost(n) /\ SettingsOnly
    \/ SettingsTurn /\ RS!get_room_detail /\ SettingsOnly
    \/ \E follows \in BOOLEAN :
          \/ SettingsTurn /\ RS!list_join_requests(follows) /\ SettingsOnly
          \/ SettingsTurn /\ RS!RequestsLost(follows) /\ SettingsOnly
    \/ \E u \in People :
          \/ \E r \in RS!Ranks \cup {"none"} :
                SettingsTurn /\ RS!RoleElsewhere(u, r) /\ SettingsOnly
          \/ SettingsTurn /\ RS!RequestElsewhere(u) /\ SettingsOnly
          \/ SettingsTurn /\ RS!removeMember(u) /\ SettingsOnly
          \/ SettingsTurn /\ RS!toggleOp(u) /\ SettingsOnly
          \/ \E action \in {"approve", "deny"} :
                SettingsTurn /\ RS!handleJoinRequest(u, action) /\ SettingsOnly
    \/ \E t \in Topics : SettingsTurn /\ RS!EditTopic(t) /\ SettingsOnly
    \/ \E v \in RS!Visibilities : SettingsTurn /\ RS!saveVisibility(v) /\ SettingsOnly
    \/ \E t \in Topics, v \in RS!Visibilities :
          SettingsTurn /\ RS!FieldElsewhere(t, v) /\ SettingsOnly
    \/ SettingsTurn /\ RS!leaveRoom /\ SettingsOnly
    \/ SettingsTurn /\ RS!deleteRoom /\ SettingsOnly
    \/ SettingsTurn /\ RS!Back /\ SettingsOnly
    \/ \E i \in DOMAIN sRoomAnswers : SettingsTurn /\ RS!reloadRoomData(i) /\ SettingsOnly
    \/ \E i \in DOMAIN sRequestAnswers :
          SettingsTurn /\ RS!loadJoinRequests(i) /\ SettingsOnly
    \/ SettingsTurn /\ RS!ReloadLost /\ SettingsOnly

AdminMoves ==
    \/ \E n \in DOMAIN aCalls :
          \/ AdminTurn /\ AP!Serve(n) /\ AdminOnly
          \/ AdminTurn /\ AP!SettingsReplied(n) /\ AdminOnly
          \/ AdminTurn /\ AP!setRegistrationModeReplied(n) /\ AdminOnly
          \/ AdminTurn /\ AP!Replied(n) /\ AdminOnly
          \/ AdminTurn /\ AP!Lost(n) /\ AdminOnly
    \/ \E v \in aLists :
          \/ AdminTurn /\ AP!ServeLoad(v) /\ AdminOnly
          \/ AdminTurn /\ AP!LoadLost(v) /\ AdminOnly
          \/ \E i \in DOMAIN aAnswers[v] : AdminTurn /\ AP!Draw(v, i) /\ AdminOnly
    \/ \E V \in {{"pending"}, {"pending", "users", "preferences"}, {"users"},
                 {"users", "preferences"}, {"invites"}, {"backups"}} :
          AdminTurn /\ AP!Elsewhere(V \cap aLists) /\ AdminOnly
    \/ \E r \in {"admin", "moderator", "user"} :
          AdminTurn /\ AP!RoleElsewhere(r) /\ AdminOnly
    \/ \E op \in AP!Ops : AdminTurn /\ AP!Click(op) /\ AdminOnly
    \/ \E m \in AP!REG_MODES :
          \/ AdminTurn /\ AP!setRegistrationMode(m) /\ AdminOnly
          \/ AdminTurn /\ AP!ModeElsewhere(m) /\ AdminOnly
    \/ AdminTurn /\ AP!Tick /\ AdminOnly
    \/ AdminTurn /\ AP!OpenBackups /\ AdminOnly
    \/ AdminTurn /\ AP!loadSystemLog /\ AdminOnly

FieldsMove ==
    \/ FieldsTurn /\ SF!ServeLoad /\ FieldsOnly
    \/ FieldsTurn /\ SF!Loaded /\ FieldsOnly
    \/ FieldsTurn /\ SF!LoadLost /\ FieldsOnly
    \/ FieldsTurn /\ SF!Listed /\ FieldsOnly
    \/ FieldsTurn /\ SF!ListFails /\ FieldsOnly
    \/ FieldsTurn /\ SF!Redraw /\ FieldsOnly
    \/ FieldsTurn /\ SF!RedrawFails /\ FieldsOnly
    \/ \E n \in DOMAIN fCalls :
          \/ FieldsTurn /\ SF!Serve(n) /\ FieldsOnly
          \/ FieldsTurn /\ SF!Saved(n) /\ FieldsOnly
          \/ FieldsTurn /\ SF!Refused(n) /\ FieldsOnly
          \/ FieldsTurn /\ SF!Lost(n) /\ FieldsOnly
    \/ \E v \in Values :
          \/ FieldsTurn /\ SF!Edit(v) /\ FieldsOnly
          \/ FieldsTurn /\ SF!selectTheme(v) /\ FieldsOnly
          \/ FieldsTurn /\ SF!selectDmRoomType(v) /\ FieldsOnly
          \/ FieldsTurn /\ SF!selectColorScheme(v) /\ FieldsOnly
          \/ FieldsTurn /\ SF!SavedElsewhere(v) /\ FieldsOnly

RoomsAndPagesNext == ServiceMoves \/ SettingsMove \/ AdminMoves \/ FieldsMove

RoomsAndPagesSpec ==
    /\ RoomsAndPagesInit
    /\ [][RoomsAndPagesNext]_<<moving, roomVars, ofSettings, ofAdmin, ofFields>>
=============================================================================
