-------------------------------- MODULE Pages --------------------------------
(***************************************************************************)
(* The pages of forms side by side: RoomSettings, AdminPage and            *)
(* SavedFields.  They share no state; the variables of each have a prefix  *)
(* here (s, a and f), and so have the bounds.                              *)
(***************************************************************************)
EXTENDS Naturals, Sequences

CONSTANTS
    People, Me, MeIsAdmin, Topics, SettingsCalls, SettingsEvents,   \* RoomSettings
    ListChoices, AdminCalls, AdminEvents, AdminLoads,               \* AdminPage
    Values, NoValue, FieldCalls, FieldEvents                        \* SavedFields

\* The page is that of a user.
ASSUME RoomSettingsAssumption ==
    Me \in People /\ MeIsAdmin \in BOOLEAN /\ SettingsCalls \in Nat /\ SettingsEvents \in Nat

ASSUME AdminPageAssumption ==
    /\ \A L \in ListChoices :
          L \subseteq {"pending", "users", "preferences", "invites", "backups", "log"}
    /\ AdminCalls \in Nat /\ AdminEvents \in Nat /\ AdminLoads \in Nat

ASSUME SavedFieldsAssumption ==
    NoValue \notin Values /\ FieldCalls \in Nat /\ FieldEvents \in Nat

VARIABLES
    sRole, sRequested, sTopic, sVisibility, sExists, sOpen, sMembers, sRequests,
    sTopicInput, sOriginalTopic, sSelect, sCurrent, sAskedRoom, sRoomAnswers,
    sAskedRequests, sRequestAnswers, sCalls, sClicks, sEvents, sBehind,
    aLists, aRole, aMode, aNow, aCurrentRole, aSlider, aCurrentRegMode,
    aAdminPollInterval, aShown, aAsked, aAnswers, aCalls, aClicks, aEvents, aMine, aExcused,
    fKind, fPage, fSaved, fPhase, fLoaded, fShown, fCurrent, fPreview, fRedraws, fCalls,
    fWanted, fClicks, fEvents, fExcused

RS == INSTANCE RoomSettings WITH
        Users <- People, Admin <- MeIsAdmin,
        MaxCalls <- SettingsCalls, MaxEvents <- SettingsEvents,
        role <- sRole, requested <- sRequested, topic <- sTopic,
        visibility <- sVisibility, exists <- sExists, open <- sOpen,
        members <- sMembers, requests <- sRequests, topicInput <- sTopicInput,
        originalTopic <- sOriginalTopic, select <- sSelect, current <- sCurrent,
        askedRoom <- sAskedRoom, roomAnswers <- sRoomAnswers,
        askedRequests <- sAskedRequests, requestAnswers <- sRequestAnswers,
        calls <- sCalls, clicks <- sClicks, events <- sEvents, behind <- sBehind
AP == INSTANCE AdminPage WITH
        MaxCalls <- AdminCalls, MaxEvents <- AdminEvents, MaxLoads <- AdminLoads,
        lists <- aLists, role <- aRole, mode <- aMode, now <- aNow,
        currentRole <- aCurrentRole, slider <- aSlider, currentRegMode <- aCurrentRegMode,
        adminPollInterval <- aAdminPollInterval, shown <- aShown, asked <- aAsked,
        answers <- aAnswers, calls <- aCalls, clicks <- aClicks, events <- aEvents,
        mine <- aMine, excused <- aExcused
SF == INSTANCE SavedFields WITH
        None <- NoValue, MaxCalls <- FieldCalls, MaxEvents <- FieldEvents,
        kind <- fKind, page <- fPage, saved <- fSaved, phase <- fPhase, loaded <- fLoaded,
        shown <- fShown, current <- fCurrent, preview <- fPreview, redraws <- fRedraws,
        calls <- fCalls, wanted <- fWanted, clicks <- fClicks, events <- fEvents,
        excused <- fExcused

-----------------------------------------------------------------------------
\* The properties of the modules, stated there.

\* A page of settings at rest shows the members and the requests of its room
\* (RoomSettings).
ListsAreShown == RS!ListsAreShown

\* The topic and the visibility on it are those of the room (RoomSettings).
SavesAreShown == RS!SavesAreShown

\* The admin page shows every change that it made, the mode, and asks for those who wait
\* (AdminPage).
ChangesAreShown == AP!ChangesAreShown

\* The choice made last is the one that is saved, applied and shown (SavedFields).
ChoicesAreSaved == SF!ChoicesAreSaved
=============================================================================
