------------------------------- MODULE Plugins -------------------------------
(***************************************************************************)
(* Plugins and services side by side: Attachments, which the module        *)
(* EXTENDS, with Todo, Reactions, Typing, Backups and Notices.  They share *)
(* no state: of the variables that go by the same name in several modules, *)
(* those of a page stand here for all of its plugins, and those of Notices *)
(* have other names.                                                       *)
(***************************************************************************)
EXTENDS Attachments

CONSTANTS
    PageRooms,                              \* the rooms of the modules beside Attachments
    PageUser, OtherUser, MaxFrames,
    MaxSwitches, MaxExtras,                 \* MaxSelections, MaxExtras of Todo and Reactions
    Editors, MaxItems, MaxEdits,            \* Todo, MaxEdits for its MaxChanges
    MessageIds, RoomOf, Emojis, MaxChanges, MaxBatches,   \* Reactions
    MaxSelections, MaxDrops,                \* Typing
    DayTicks, WeekDays, MonthDays, Daily, Weekly, Monthly, Hours, Longest, MaxTime,
    MaxManual,                              \* Backups
    MaxEvents, InOrder                      \* Notices

\* A backup takes less time than the daily tier reaches back.  A schedule names a time of
\* the day.
ASSUME BackupsAssumption ==
    /\ DayTicks \in Nat /\ WeekDays \in Nat /\ MonthDays \in Nat
    /\ Daily \in Nat /\ Weekly \in Nat /\ Monthly \in Nat
    /\ Longest \in Nat /\ Longest < (Daily + 1) * DayTicks
    /\ Hours \subseteq 0 .. DayTicks - 1 /\ MaxManual \in Nat

\* Ids of items are numbers.
ASSUME TodoAssumption == MaxItems \in Nat

\* A message is of one room.
ASSUME ReactionsAssumption == RoomOf \in [MessageIds -> PageRooms]

ASSUME NoticesAssumption == NoRoom \notin PageRooms

VARIABLES
    currentRoom, online, up, down, joined, changes, extras,
    alive, items, admitted, selections, list, drawn, editingItemId, follows,
    rows, loading, ready, elements, pills, pending, batches, settled, selected,
    typistRoom, messageInput, typingTimer, recent, typistUp, attached, typingUsers,
    unstopped, unheard, visits, drops,
    now, archives, partial, job, enabled, hour, loop, until, taken, latest, deleted,
    attempts, steady, manual, troubles,
    nSent, nPosition, nJoined, nGhost, nEndpoint, nPage, nSocket, nRejoin,
    nCurrentRoom, nSelections, nLastMessageId, nBadge, nUp, nDown, nAsked, nAnswers,
    nReads, nTold, nMissed, nExcused, nEvents

TD == INSTANCE Todo WITH
        Rooms <- PageRooms, Reader <- PageUser, Writer <- OtherUser,
        MaxChanges <- MaxEdits, MaxSelections <- MaxSwitches
RE == INSTANCE Reactions WITH
        Rooms <- PageRooms, Reader <- PageUser, Writer <- OtherUser,
        Messages <- MessageIds, MaxSelections <- MaxSwitches
Y == INSTANCE Typing WITH Rooms <- PageRooms
B == INSTANCE Backups
N == INSTANCE Notices WITH
        Rooms <- PageRooms,
        sent <- nSent, position <- nPosition, joined <- nJoined, ghost <- nGhost,
        endpoint <- nEndpoint, page <- nPage, socket <- nSocket, rejoin <- nRejoin,
        currentRoom <- nCurrentRoom, selections <- nSelections,
        lastMessageId <- nLastMessageId, badge <- nBadge, up <- nUp, down <- nDown,
        asked <- nAsked, answers <- nAnswers, reads <- nReads, told <- nTold,
        missed <- nMissed, excused <- nExcused, events <- nEvents

-----------------------------------------------------------------------------
\* The properties of the modules, stated there.

\* A fetched list that has missed nothing becomes the items of its room (Todo).
ListFollows == TD!ListFollows

\* Fetched pills that have missed nothing become the stored reactions (Reactions).
PillsFollow == RE!PillsFollow

\* Whoever is shown as typing types, or the word of the end is on its way (Typing).
ShownIsTyping == Y!ShownIsTyping

\* Retention leaves what it would leave of all the archives ever begun (Backups).
RetentionForgetsNothing == B!RetentionForgetsNothing

\* The last backup that succeeded is there (Backups).
LatestIsThere == B!LatestIsThere

\* A schedule left alone starts one backup on every day, and one only (Backups).
OneADay == B!OneADay

\* Every message was shown, counted or pushed, but for known ways to miss one (Notices).
EveryMessageIsTold == N!EveryMessageIsTold

\* The numbers next to the rooms are right when all is quiet, but for those that are
\* known to be left behind (Notices).
BadgesAreRight == N!BadgesAreRight
=============================================================================
