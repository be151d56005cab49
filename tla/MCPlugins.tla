------------------------------ MODULE MCPlugins ------------------------------
(* The plugins with a state of their own, and the backups, for TLC.  They  *)
(* share nothing, so that one of them moves in a behaviour: the others     *)
(* stay at their initial states.  Uploads are interchangeable.             *)
EXTENDS Plugins, TLC

VARIABLE moving         \* the part that moves

RoomOfDef == LET r == CHOOSE r \in PageRooms : TRUE
                 q == CHOOSE q \in PageRooms : q # r
             IN  <<r, q>>

MaxSelectionsDef == [typist |-> 2, watcher |-> 3]

Symmetry == Permutations(Files)

-----------------------------------------------------------------------------
PluginsInit ==
    /\ Init /\ TD!Init /\ RE!Init /\ Y!Init /\ B!Init /\ N!Init
    /\ moving \in {"files", "lists", "reactions", "typing", "backups", "notices"}
    /\ moving # "backups" => enabled /\ hour = 1
    /\ moving # "notices" => nPage = {}

ofPage == <<joined, up, down, currentRoom, online, changes, extras>>
ofLists == <<alive, items, admitted, selections, list, drawn, editingItemId, follows>>
ofReactions ==
    <<rows, loading, ready, elements, pills, pending, batches, settled, selected>>
ofTyping == <<typistRoom, messageInput, typingTimer, recent, typistUp, attached,
              typingUsers, unstopped, unheard, visits, drops>>
ofBackups == <<now, archives, partial, job, enabled, hour, loop, until, taken, latest,
               deleted, attempts, steady, manual, troubles>>
ofNotices ==
    <<nSent, nPosition, nJoined, nGhost, nEndpoint, nPage, nSocket, nRejoin,
      nCurrentRoom, nSelections, nLastMessageId, nBadge, nUp, nDown, nAsked, nAnswers,
      nReads, nTold, nMissed, nExcused, nEvents>>

FilesTurn == moving = "files"
ListsTurn == moving = "lists"
ReactionsTurn == moving = "reactions"
TypingTurn == moving = "typing"
BackupsTurn == moving = "backups"
NoticesTurn == moving = "notices"
FilesOnly == UNCHANGED <<moving, ofPage, ofLists, ofReactions, ofTyping, ofBackups, ofNotices>>
ListsOnly == UNCHANGED <<moving, vars, ofReactions, ofTyping, ofBackups, ofNotices>>
ReactionsOnly == UNCHANGED <<moving, vars, ofLists, ofTyping, ofBackups, ofNotices>>
TypingOnly ==
    UNCHANGED <<moving, vars, ofLists, ofReactions, online, changes, extras, ofBackups,
                ofNotices>>
BackupsOnly ==
    UNCHANGED <<moving, vars, ofPage, ofLists, ofReactions, ofTyping, ofNotices>>
NoticesOnly ==
    UNCHANGED <<moving, vars, ofPage, ofLists, ofReactions, ofTyping, ofBackups>>

\* A download changes nothing that another one, or a page, looks at.
OneDownload(a) == reading \subseteq {a}

FilesMove ==
    \/ \E a \in Files, r \in Rooms :
          \/ FilesTurn /\ InitUpload(a, r) /\ FilesOnly
          \/ FilesTurn /\ InitUploadFails(a, r) /\ FilesOnly
    \/ \E a \in Files :
          \/ FilesTurn /\ PutChunk(a) /\ FilesOnly
          \/ FilesTurn /\ StoreChunk(a) /\ FilesOnly
          \/ FilesTurn /\ StoreChunkFails(a) /\ FilesOnly
          \/ FilesTurn /\ PutDropped(a) /\ FilesOnly
          \/ FilesTurn /\ Finalize(a) /\ FilesOnly
          \/ FilesTurn /\ SendMessage(a) /\ FilesOnly
          \/ FilesTurn /\ Abort(a) /\ FilesOnly
          \/ FilesTurn /\ Display(a) /\ FilesOnly
          \/ FilesTurn /\ ServeLink(a) /\ FilesOnly
          \/ FilesTurn /\ OneDownload(a) /\ ReadMeta(a) /\ FilesOnly
          \/ \E i \in left[a] : FilesTurn /\ ReadChunk(a, i) /\ FilesOnly
          \/ FilesTurn /\ DeleteMessage(a) /\ FilesOnly
          \/ FilesTurn /\ MessageCleaned(a) /\ FilesOnly
          \/ FilesTurn /\ MessageCleanFails(a) /\ FilesOnly
          \/ FilesTurn /\ DeleteAttachment(a) /\ FilesOnly
    \/ \E r \in Rooms :
          \/ FilesTurn /\ DeleteRoom(r) /\ FilesOnly
          \/ FilesTurn /\ DeleteRoomFails(r) /\ FilesOnly
          \/ FilesTurn /\ CreateRoom(r) /\ FilesOnly
    \/ FilesTurn /\ Restart /\ FilesOnly

ListsMove ==
    \/ ListsTurn /\ TD!ServeFrame /\ ListsOnly
    \/ ListsTurn /\ TD!WriterActs /\ ListsOnly
    \/ \E r \in PageRooms :
          \/ ListsTurn /\ TD!Admit(r) /\ ListsOnly
          \/ ListsTurn /\ TD!HandleRequest(r) /\ ListsOnly
          \/ ListsTurn /\ TD!DeleteRoom(r) /\ ListsOnly
          \/ ListsTurn /\ TD!SelectRoom(r) /\ ListsOnly
    \/ \E n \in DOMAIN selections :
          \/ ListsTurn /\ TD!KeysLoaded(n) /\ ListsOnly
          \/ ListsTurn /\ TD!ServeItems(n) /\ ListsOnly
          \/ ListsTurn /\ TD!loadItems(n) /\ ListsOnly
          \/ ListsTurn /\ TD!LoadFails(n) /\ ListsOnly
    \/ ListsTurn /\ TD!onRoomAction /\ ListsOnly
    \/ ListsTurn /\ TD!addItem /\ ListsOnly
    \/ ListsTurn /\ TD!Drop /\ ListsOnly
    \/ ListsTurn /\ TD!Reconnect /\ ListsOnly
    \/ \E k \in DOMAIN drawn :
          \/ ListsTurn /\ TD!Click(k) /\ ListsOnly
          \/ ListsTurn /\ TD!Edit(k) /\ ListsOnly
          \/ ListsTurn /\ TD!save(k) /\ ListsOnly

ReactionsMove ==
    \/ ReactionsTurn /\ RE!ServeFrame /\ ReactionsOnly
    \/ ReactionsTurn /\ RE!WriterActs /\ ReactionsOnly
    \/ ReactionsTurn /\ RE!HttpRequest /\ ReactionsOnly
    \/ \E r \in PageRooms :
          (ReactionsTurn /\ RE!SelectRoom(r) /\ ReactionsOnly) \/ (ReactionsTurn /\ RE!KeysLoaded(r) /\ ReactionsOnly)
    \/ \E m \in MessageIds : ReactionsTurn /\ RE!attachReactionButton(m) /\ ReactionsOnly
    \/ ReactionsTurn /\ RE!flushReactionQueue /\ ReactionsOnly
    \/ \E n \in DOMAIN batches :
          \/ ReactionsTurn /\ RE!ServeBatch(n) /\ ReactionsOnly
          \/ ReactionsTurn /\ RE!BatchArrives(n) /\ ReactionsOnly
          \/ ReactionsTurn /\ RE!BatchFails(n) /\ ReactionsOnly
    \/ ReactionsTurn /\ RE!handleReactionMessage /\ ReactionsOnly
    \/ ReactionsTurn /\ RE!Drop /\ ReactionsOnly
    \/ ReactionsTurn /\ RE!Reconnect /\ ReactionsOnly
    \/ \E x \in RE!Reactions : ReactionsTurn /\ RE!Click(x) /\ ReactionsOnly

TypingMove ==
    \/ TypingTurn /\ Y!handleInputEvent /\ TypingOnly
    \/ TypingTurn /\ Y!HalfSecond /\ TypingOnly
    \/ TypingTurn /\ Y!stopTyping /\ TypingOnly
    \/ TypingTurn /\ Y!TypistEnters /\ TypingOnly
    \/ TypingTurn /\ Y!TypistGone /\ TypingOnly
    \/ TypingTurn /\ Y!handle_typing /\ TypingOnly
    \/ TypingTurn /\ Y!Subscribe /\ TypingOnly
    \/ \E r \in PageRooms :
          (TypingTurn /\ Y!TypistSelects(r) /\ TypingOnly) \/ (TypingTurn /\ Y!WatcherSelects(r) /\ TypingOnly)
    \/ TypingTurn /\ Y!WatcherEnters /\ TypingOnly
    \/ TypingTurn /\ Y!handleTypingMessage /\ TypingOnly
    \/ TypingTurn /\ Y!WatcherReconnects /\ TypingOnly

BackupsMove ==
    \/ BackupsTurn /\ B!Tick /\ BackupsOnly
    \/ BackupsTurn /\ B!Wake /\ BackupsOnly
    \/ BackupsTurn /\ B!RunScheduled /\ BackupsOnly
    \/ BackupsTurn /\ B!RunManual /\ BackupsOnly
    \/ BackupsTurn /\ B!Finish /\ BackupsOnly
    \/ BackupsTurn /\ B!Fail /\ BackupsOnly
    \/ BackupsTurn /\ B!Prune /\ BackupsOnly
    \/ \E t \in B!Times : BackupsTurn /\ B!delete_backup(t) /\ BackupsOnly
    \/ BackupsTurn /\ B!update_backup_config /\ BackupsOnly
    \/ BackupsTurn /\ B!Restart /\ BackupsOnly

NoticesMove ==
    \/ \E r \in PageRooms :
          \/ NoticesTurn /\ N!add_message(r) /\ NoticesOnly
          \/ NoticesTurn /\ N!ReadElsewhere(r) /\ NoticesOnly
          \/ NoticesTurn /\ N!selectRoom(r) /\ NoticesOnly
          \/ NoticesTurn /\ N!Enter(r) /\ NoticesOnly
    \/ \E m \in DOMAIN nSent :
          \/ NoticesTurn /\ N!broadcast_to_room(m) /\ NoticesOnly
          \/ NoticesTurn /\ N!_handle_room_message(m) /\ NoticesOnly
          \/ NoticesTurn /\ N!PushFails(m) /\ NoticesOnly
          \/ NoticesTurn /\ N!notify_user(m) /\ NoticesOnly
    \/ NoticesTurn /\ N!handle_room /\ NoticesOnly
    \/ NoticesTurn /\ N!disconnect /\ NoticesOnly
    \/ NoticesTurn /\ N!list_rooms /\ NoticesOnly
    \/ \E x \in nReads : NoticesTurn /\ N!mark_read_endpoint(x) /\ NoticesOnly
    \/ NoticesTurn /\ N!OpenPage /\ NoticesOnly
    \/ NoticesTurn /\ N!loadPlugins /\ NoticesOnly
    \/ \E n \in DOMAIN nSelections :
          \/ NoticesTurn /\ N!KeysLoaded(n) /\ NoticesOnly
          \/ NoticesTurn /\ N!loadMessages(n) /\ NoticesOnly
          \/ NoticesTurn /\ N!LoadFails(n) /\ NoticesOnly
          \/ NoticesTurn /\ N!onRoomSelected(n) /\ NoticesOnly
    \/ NoticesTurn /\ N!onRoomAction /\ NoticesOnly
    \/ \E i \in DOMAIN nAnswers : NoticesTurn /\ N!createRoomItem(i) /\ NoticesOnly
    \/ NoticesTurn /\ N!Connect /\ NoticesOnly
    \/ NoticesTurn /\ N!Rejoin /\ NoticesOnly
    \/ NoticesTurn /\ N!Drop /\ NoticesOnly
    \/ NoticesTurn /\ N!ClosePage /\ NoticesOnly

PluginsNext ==
    FilesMove \/ ListsMove \/ ReactionsMove \/ TypingMove \/ BackupsMove \/ NoticesMove

PluginsSpec ==
    /\ PluginsInit
    /\ [][PluginsNext]_<<moving, vars, ofPage, ofLists, ofReactions, ofTyping, ofBackups,
                         ofNotices>>

=============================================================================
