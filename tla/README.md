# Skrib in TLA+

Skrib is a self-hosted chat with end-to-end encryption: a FastAPI server over
SQLite (`backend/skrib`), plugins that supply the room types and extras
(`backend/plugins/four43.*`), and a client in plain JavaScript (`frontend/src`).
This directory holds models of its core, TLC configurations that check them on
small instances, and proofs, checked by TLAPS, that hold for every instance.

    tlc -workers 2 -config Rooms.cfg MCRooms.tla       # one run
    tlapm Folders_proofs.tla                           # the proofs of a module

## 1. The system

Paths are relative to the repository; `core` is `backend/skrib`.

| Component | State | Operations | Talks to |
|---|---|---|---|
| Room service, `core/rooms` | tables rooms, room_users, join_requests, room_keys; the registry `ROOMS` in memory | create, DM, delete, invite, remove, roles, visibility, topic, join requests, store and fetch keys, read positions | bus (broadcasts), plugins (callbacks and lifecycle events) |
| Room keys, `frontend/src/app.js`, `crypto.js` | per page: `roomKeys`, `currentRoom`, private key | load, decrypt, regenerate, first key of a room or DM, invite with keys, choose an epoch | room service over HTTP |
| Accounts, `core/auth`, `core/users`, `core/server` | users, challenges, invite_tokens, registration mode | two-step registration, approval, rejection, roles, deletion, invites | bus (profile changes) |
| Login and key storage, `core/auth`, `login.js`, `key-recovery.js`, `enroll-passkey.js` | sessions, wrapped private keys | log in, recover or replace the key pair | |
| WebSocket bus, `core/ws` | four maps of sockets, last pongs, reply tokens, listeners | accept, join, leave, notify, broadcast, heartbeat, disconnect | every component that broadcasts |
| Page, `frontend/src/app.js` | `ws`, `currentRoom`, reconnection timer, presence | select a room, reconnect, dispatch messages | bus, room service |
| Chat, `four43.room-type-chat` | messages (a database of its own) | add, edit, delete, list, count unread | bus, room service |
| Attachments, `four43.attachments` | attachments, chunks, files | init, chunk, finalize, link, clean up | events of rooms and messages |
| Web push, `four43.web-push`, with the unread numbers of the sidebar | subscriptions; read positions; numbers drawn | push to who has no socket, notify, count, mark as read | bus, rooms, chat |
| Reactions, typing, todo, emoji picker | one table or dictionary each | single-row updates and broadcasts | bus, events |
| Plugin framework, `core/plugins` | registry, manifests, cache of authentications | discover, route, dispatch, check permissions | |
| Room folders, `core/room_folders` | a tree, positions | create, move, delete, reorder | |
| Backups, `core/backups` | archives, a lock, the schedule | back up, retain, schedule | every database |
| Settings page of a channel, `room-settings.js` | what was saved last of topic and visibility; the lists that are drawn | save, reload, remove, decide, leave, delete | room service over HTTP |
| Admin page, `admin.js` | the mode, the poll's timer, seven lists | load, draw, click | accounts, backups over HTTP |
| User settings and themes, `settings.js`, `theme-manager.js` | theme and scheme chosen last, the cached theme | save fields as they are changed | accounts, server settings |
| Server settings, themes, CLI, service worker | settings, static files | single writes | |

### What makes it hard

*One event loop.* Handlers are coroutines whose database calls are synchronous.
A handler runs in one go up to its first `await`; an action of a model is such a
stretch. Interleaving happens at awaits (broadcasts, request bodies), between the
dependency that authorizes a request, which runs in a thread, and the handler,
and between requests.

*Two copies of the truth.* Rooms are in a table and in a registry; a statement
that raises or a restart tells the two apart.

*Clients that are protocols.* Distribution of keys is done by the pages: a page
reads the members, makes a key, and posts one sealed copy per member, awaiting
each. Other pages, and other flows of the same page, run in between.

*Two channels.* A page hears of a message from the history it fetches and from the
broadcasts of its socket. Nothing orders the two; a page decrypts before it displays,
and switches rooms in the middle of either.

*Connections.* Sockets end at any moment, are found dead by a failing send, by
their own loop or by the heartbeat, and every send of a broadcast is an await.

### What makes each part correct

* Room service: nothing is left of a deleted room; a DM is its two participants;
  nobody gets into a room, or gets a role, without a manager of it; a request is
  decided by a manager.
* Room keys: keys stay in their room and with those who were in it; members
  agree on the key of an epoch; who has the key of a message keeps it.
* Accounts: an admin remains; a name is one passkey; an account becomes active
  by a decision.
* Bus: the maps agree; a working socket is known; a departure is announced.
* Chat: a read position covers only what was shown, and in the end all of it; nothing
  falls between history and broadcasts unnoticed; pages of history do not mix.
* Attachments: who can read a message can have its whole file; files go with their
  message and their room, and none stays on the disk without a row.
* Key pairs: a backup unwraps to the registered pair; a browser with another pair has
  it for a known reason and says so; no page sends another back and forth.
* Sockets of a page: a page is subscribed to the room it shows, and comes back after
  a failure.
* Folders: a forest of bounded depth with every room in it, whatever old layout is
  posted; a sidebar that is at rest shows it.
* Todo, reactions, typing: a page that has missed nothing shows what is stored.
* Notices: every message that others send is shown, counted next to its room, or pushed;
  the number next to a room is right when nothing is under way.
* Pages of forms: a page at rest shows what the server has, whatever it saved and in
  whatever order its reloads were answered; the choice made last is the one that is saved.
* Backups: one a day, the newest one that succeeded is kept, and retention deletes
  nothing that it will need.

## 2. The modules

| Module | Models | With |
|---|---|---|
| `Rooms` | `core/rooms`, `core/permissions.py` | `MCRooms`, `RoomKeys_proofs` |
| `RoomKeys` (extends `Rooms`) | the pages of all users against the room service | `MCRoomKeys`, `RoomKeys_proofs` |
| `Accounts` | `core/auth` (registration), `core/users`, `core/server` | `MCAccounts`, `Accounts_proofs` |
| `WsBus` | `core/ws` | `MCWsBus`, `WsBus_proofs` |
| `Chat` | `four43.room-type-chat`, its page and its server side, with `selectRoom` and reconnection of `app.js` | `MCChat`, `Chat_proofs` |
| `Attachments` | `four43.attachments`, with the deletion of messages (`four43.room-type-chat`) and of rooms (`core/rooms`) | `MCPlugins`, `Plugins_proofs` |
| `FolderTree` | what the folders promise: an abstract specification | `Folders` |
| `Folders` (implements `FolderTree`) | `core/room_folders` and the sidebar of `app.js` | `MCFolders`, `Folders_proofs` |
| `KeyPairs` | `login.js`, `enroll-passkey.js`, `key-recovery.js`, `checkSession` of `app.js`, the key endpoints of `core/auth` | `MCKeyPairs`, `KeyPairs_proofs` |
| `PageSockets` | `connectWebSocket`, its handlers, heartbeat and `selectRoom` of `app.js`, with the bus | `MCPageSockets`, `Pages_proofs` |
| `Todo` | `four43.room-type-todo` | `MCPlugins`, `Plugins_proofs` |
| `Reactions` | `four43.message-reactions` | `MCPlugins`, `Plugins_proofs` |
| `Typing` | `four43.chat-typing` | `MCPlugins`, `Plugins_proofs` |
| `Backups` | `core/backups` | `MCPlugins`, `Plugins_proofs` |
| `RoomSettings` | `room-settings.js`, with the part of `core/rooms` that it calls | `Pages`, `MCRooms`, `Pages_proofs` |
| `AdminPage` | the lists, the registration mode and the log of `admin.js` | `Pages`, `MCRooms`, `Pages_proofs` |
| `SavedFields` | the fields of `settings.js` and `admin.js` that are saved as they are changed, with `theme-manager.js` | `Pages`, `MCRooms`, `Pages_proofs` |
| `Notices` | how a member hears of messages: `four43.web-push`, `room:message` and `app.js`'s `loadRooms`, with the read positions of `core/rooms` | `MCPlugins`, `Plugins_proofs` |

An MC module gives a run what a `.cfg` cannot: symmetry sets, and values that are
functions. Nothing of a module is replaced for a run. `Plugins` puts `Attachments`, `Todo`, `Reactions`,
`Typing`, `Backups` and `Notices` side by side, with the constants, assumptions and variables of all; the
proofs are about it, each of one component. `MCPlugins` puts all six, which
share no state, into one run: a variable chosen at the start, `moving`, says which of
them moves, the others stay as they began. `Pages` and `MCRooms` do the same for the three pages of forms
and the room service; the variables of a page have its prefix there (`s`, `a`, `f`). An operator whose comment
says *Mutant* is what a plausible bug would make of the definition after it;
no specification uses one. Each property has such a mutant under which its run
fails.

### Rooms

`ROOMS` is the registry, the other variables are the tables. A room row that does
not exist has no members (`room_users[r]` is `"none"` throughout), because the code
asks for members and never for rows. One action is one handler of `routes.py` with
the service calls it makes. `update_room` awaits the broadcast of a new topic
before it writes the visibility, with checks made before: `UpdateTopicFirst` and
`UpdateVisibilityAfter`. With `DbMayFail`, the second statement of a handler that
commits twice may raise (`CreateRoomOwnerFails`, `DeleteRoomFails`,
`ApproveStatusFails`, `CreateRoomInsertFails`). `Restart` rebuilds the registry
and ends suspended calls.

A DM is named by the set of its participants, which is what
`create_or_get_dm` computes from the sorted names. Topics, notification levels
and read positions are left out: each is one write that no other check reads.

`RoomsSpec` is also the abstract specification of what the server allows:
`RoomKeys` is shown to implement it.

### RoomKeys

Each user has one page. A flow advances by one request: a step is what the server
does with it together with the synchronous code that runs on the answer. This
merges the moment at which a request is served with the moment at which its
answer is handled. `loads[u][r]` is where `loadRoomKeys` and `regenerateRoomKey`
are for a room (one load for each room of a page), `flow[u]` where `createRoom`, `startDM`,
`addMembersFromModal` or `/invite` (the case of one target) is. Pages run a load and
a flow at once, and users switch rooms in between.

Cryptography is abstracted to what matters: a stored blob *is* the room key it
seals, and a page can open its blobs iff its private key is of the registered pair
(`paired`). A registered public key never changes (the server answers 409), while
`login.js` makes a fresh pair on a device without one: `LoseKey`. All users have
registered a key. `minted` and `entitled` are history: for whom and which room a key
was made, and who has been in the room since.

`Features` says which events of the environment a run considers, `Losers` who may
lose the private key, `StayPut` whether users stay in the room while they add
members to it, and `LetFinish` whether they leave a page open while it distributes a new
key (the runs and theorems that need these name them). Failing requests of
a page, except those the server refuses, are left out.

### Accounts

A registration is identified by the random token of its first step, which stands
for the page, the passkey made there and the approval code. `tokens` and
`challenges` are the rows that have not expired. `Authorize` is the dependency
`require_admin` or `require_moderator`; the handler runs later (`Run`), whatever
has happened to the caller meanwhile. `update_user` looks itself, then may await
the broadcast of a profile change in the same request (`SlowBroadcast`). The
deletion of a user may be refused by a foreign key of tables outside the model
(rooms he created) and is then a step that changes nothing else. Login, sessions and profile fields are left out.

### WsBus

`task[s]` is where the coroutine `unified_ws` of a socket is, `sending[s]` what is
left of its broadcast of presence: users to do, sockets to do, sockets whose send
raised. Each send is a step. `Disconnect` is `disconnect`, early return included.
A socket is used once; membership of rooms is fixed (it changes in `Rooms`). Of all
broadcasts other than presence only their effect on the maps is modelled: they
disconnect a socket that cannot be sent to (`Sweep`). A send to a connection that
has ended raises. One watcher and one watched user stand for any. Pongs are followed for
`Sleepers` only. Event listeners and reply tokens are left out.

### Chat

One page and the server. `selections[n]` is where the *n*-th call of `selectRoom` is,
with the `onRoomSelected` and `loadMessages` it ends in: awaiting keys, awaiting the
history, displaying its rows. Calls do not wait for one another, and there is one set of counters
(`lastMessageId`, `oldestMessageId`, `isLoadingMessages`...) for all of them, as in the
code. `older` is the one call of `loadOlderMessages` that its guard lets through;
`anchor` and `inserted` say where the element is that its rows go above (`"gone"` when
the document was cleared under it, after which `insertBefore` throws). `view` is the
document, `arrivals` and `edits` are broadcasts whose content is being decrypted.
`up` and `down` are the socket's two directions, `reads` the POSTs of read positions,
which may overtake one another. Rows of an answer are displayed one step each.

A content is a number (0 as sent, a fresh one for each edit); authors, permissions and
keys are in `Rooms` and `RoomKeys`. A fetch is merged with its answer: the server's
reading of the table and the page's first synchronous code on the rows are one
step, during which no broadcast is delivered. A failing fetch is a rejected promise. Requests
to mark a room as read reach the server. `InOrder` makes broadcasts arrive in the order
of their messages; the runs set it, because sends of two broadcasts are coroutines that
may overtake each other, and a late one of a room left since then is simply dropped
(`ReadIsShown` fails without it: the gap is not remembered by anybody). Unread counts,
notifications and the deletion of a room are left out.

Two variables are history. `unheard` holds the messages the page was never told of:
broadcast before its join was served or lost with the connection, and older than the
page of history it got. Nothing fetches them before the reader scrolls back or comes
back to the room (`ws.onopen` loads keys and joins, and asks for no messages), so the
properties say "or in `unheard`", which makes the code's gaps explicit and says that there are
no others. `hasty` is set when a room is selected while another load runs;
`ReadIsShown`, `NothingElseIsMissed` and `ShownBecomesRead` assume it is not, because
quick switching breaks all three (see below). `LoadsExclude` and `HistoryInOrder` do not.

### Attachments

Four stores that no transaction spans: the rows (`status`, `linked`, `chunks`), the
files (`dirs`, `disk`), the messages and the rooms. `upload`, `next` and `room_id` are
where `uploadFile` is; a PUT is two steps, because `upload_chunk` awaits the body after
it has looked at the status. Each upload has an id of its own and sends at most one
message, which goes by that id. `deleting` holds the messages whose deletion is being
broadcast, after which `core:message_deleted` removes what is linked; `links` the
requests to link that are under way; `reading`, `left` and `got` a download, each chunk of
which is a request. Rooms are channels (a DM is not deleted), and deletions are those
their callers may make.

A *fault* is a statement that raises or the end of the process: in the middle of
a deletion (`RemoveFails`: some attachments gone, one with part of its files and all of its
rows), between the row and the directory of a new upload, between a chunk and its
row, in a listener of `core:room_deleted`, or while nothing is being served
(`Restart`, after which `cleanup_stale` deletes any set of pending uploads: time is not
modelled). An upload may be given up at any point by its page.

Three variables are history. `removed` holds the files somebody deleted, alone or with their
room: whoever reads the message then finds it without its file, which is intended.
`missed` holds what the deletion of a message could not reach: linked after the listener
had run, or a fault. `adrift` holds what is in no room by more than accident: a fault in
the deletion of the room, or an upload begun for a room deleted already
(`init_upload` checks the membership of DMs, and nothing of channels). The properties say
"except in `missed`" or "`adrift`", which names the code's gaps and says that there are no others.
Left out: encryption, previews, and the video service worker, whose
requests are those of a download.

### Folders, FolderTree

`FolderTree` says in five lines of state what a user is promised: folders appear, layouts are
rearranged, a folder goes with what is under it and its rooms become unfiled; at every
moment a forest of at most `MaxDepth` levels in which every room is to be found. `Folders` is
the service, one action per transaction with the walk over the tree that precedes it, and
the sidebars: `loads` are calls of `loadRooms` under way, each of two requests whose answers
show two moments; `posts` the layouts a drag has posted and the server has not served;
`late` marks the loads begun after the newest notification, so that `excused` can say when a page
may show something old: it was not told, a load failed or was overtaken by an older one, or
its drag was refused (a refusal is an answer, and only an exception reloads, `app.js:1519`). The
variables of `FolderTree` are variables of `Folders`; `KeepsPromise` is `Abstract!Spec`.
Recursive walks are written as sets (`ClosedUpwards`), so that they can be proved about. Names
and positions are left out.

### KeyPairs

The private key of one user. `at[t]` is where the script of a tab waits, `back[t]` where it
goes on when the request it waits for fails, `held[t]` the key it has in hand; what tabs of a browser
share is `stored`, `session`, `uploaded` and `warning`. A pair is a number. The server compares
public keys as text, and a page makes that text in two ways, from the exported public key
(`Exported`, members sorted) and from the private one (`Rebuilt`, `kty` first): the two differ, so
what is posted with the second after registration with the first is refused (409), and no page looks
at the answer. `RequestFails` loses a request before or after it was served; `Open` closes a
tab or opens a page in it at any moment; `Forget` clears a browser's storage. `told`, `excused` and `quiet`
are history: who was warned, who has a known reason for another pair (skipped the
recovery, a failed request, no backup on the server, an account deleted and made anew),
and whose warning was lost with the page.

### PageSockets

The sockets of a page as objects. `ws` names one at most, while sockets that `close()` was
called on still run their handlers, all of which write the same `ws`, `reconnectTimeout` and
`pingInterval`; `olderTimers` counts timers no variable refers to any more. A socket of the bus
is `known` until it is forgotten. `silent` is a connection that is gone and that neither side has
noticed: the page's heartbeat closes it, the bus's forgets it. `replaced` is history: a page that became
visible again replaced a socket that was closing. An identifier is used again when nothing is left
of the socket.

### Todo, Reactions, Typing

Each is one page (`Reader`, or the one who watches), its socket with both directions, what the
server stores, and a second member. Selections of rooms wait for keys and requests without waiting for one another,
as in `Chat`. `follows` (of a list), `settled` (the messages whose reactions were fetched) and
`unheard`/`unstopped` (of typing) are history: they say when a page has missed
nothing, by the events that make it miss something, and the properties say that it
then shows what is stored, up to the broadcasts under way. What a page that watches was told
of (`Told`) is owed a word of the end, and `unstopped` notes one that finds the page not
subscribed. A change over HTTP is broadcast to nobody
in either plugin, and counts as missed. In `Todo`, a request is admitted by the middleware while the room exists
and handled later, when it may be gone (`Admit`, `HandleRequest`).

### Backups

A calendar of ticks: days, weeks and months are a number of ticks, the schedule an hour of the day.
`loop` and `until` are where `_scheduler_loop` sleeps; `job` is `create_backup`, in the scheduler's
thread or in a request (which stops the event loop, and so the clock of the loop, until it is
done: `Served`, `Tick`). An archive is its time; it is in the directory from its first byte
(`partial`). `taken`, `latest`, `deleted`, `attempts` and `steady` are history. Left out: what is in an
archive, and changes of the directory or of the tiers.

### Notices

One member, with a page that is opened, closed and reconnected, and messages that others
send. `sent[m].at` is where the handler of message *m* is: it stores, then awaits the
broadcast, then its listener (which pushes if `is_user_connected` finds no socket, not even a
`ghost` of one), then `notify_user`. `page` holds how far `initializeChatView` has come, whose parts
run at once: the sidebar is `listed`, the `plugins` are loaded (all of them together), the first
room is `entered`. `asked` and `answers` are calls of `loadRooms`, whose answers may be drawn in any
order; `selections` and `reads` are as in `Chat`, but the history of a room comes whole and
is shown when it comes. `told`, `missed` and `excused` are history: which message the member
could have heard of, which was lost by a known way, and which number was left behind by
one. With `InOrder`, as in `Chat`, broadcasts of a room arrive in its order (otherwise the later one
of two marks the earlier one as read, which is dropped after a switch of rooms).

### RoomSettings, AdminPage, SavedFields

Pages without a socket: each learns of what others change from answers, several of which may be
under way. A request is where it is (`"sent"`, `"ok"`, `"refused"`); answers to loads are kept in
the order in which they were given and drawn in any order.

`RoomSettings` is the page of one channel against the room service. `calls` are its requests that
change something, `askedRoom` and `roomAnswers` the calls of `reloadRoomData`, `askedRequests` and
`requestAnswers` those of `loadJoinRequests`, of which some are followed by a reload and some follow one.
`originalTopic` and `current` (`currentRoom.visibility`) are what a new value is compared with. Others
may do what `Rooms` lets them. Left out: names and colours, voice, global moderators.

In `AdminPage` the content of a list is the number of its changes, so that "shows what it did itself" is
a comparison of numbers: `shown`, `now` and `mine` (the last change made by the page). The list of
preferences is loaded from the same endpoint as that of the users, and is one of its own. A filter or page of the
log is a content of its own. `lists` are those a behaviour follows, chosen at the start; lists share nothing but
the mode.

`SavedFields` is one field, of one of four kinds. A pair of handlers that differ in the name
of the setting is one action. The default theme of the server and the room type of DMs have
the list they are chosen from drawn again by a load of its own.

`behind` and `excused` are history: what a page shows that is known not to be so, because others
changed it and nobody told the page, a request was lost or refused, an older
answer was drawn last, or another value was being saved at the same time. `calm` (of a save) and `fresh`
(of an answer) say that it will put an end to that.

## 3. The runs

| Run | Instance | Shows |
|---|---|---|
| `rooms`: the service | ann (admin) and bob; a channel and their DM; one epoch, one blob; failing statements, restarts | `RoomsAreSound`, `MembershipByAuthority`, `RequestsAreDecided` |
| `rooms`: settings | ann at the page, bob; any roles; a room that begins private; two topics, two clicks, two events of others | `ListsAreShown`, `SavesAreShown` |
| `rooms`: admin | users with preferences, invites with the log, users who wait, or backups; two clicks, one event, two loads of a list at once | `ChangesAreShown` |
| `rooms`: fields | a field of any kind, three values, three edits, two events | `ChoicesAreSaved` |
| `keys_one_loser` | three users, one channel, epochs 0 and 1, three keys; adding, promotion, messages, reconnection, reloads (not while a key is distributed); ann may lose her key | `OneKeyPerEpoch`, `NoKeyIsLost` |
| `keys_rooms` | two users, a channel and a DM, epochs 0 and 1; adding, removal, deletion of the room; ann may lose her key | `OnlyMembersGetKeys`, `KeysStayInRoom`; the clients with the service implement `RoomsSpec` |
| `accounts` | two names, three registrations, one invite, one call under way, slow broadcasts | `OnlyLateRoleLosesAdmin`, `AccountKeepsPasskey`, `ActivationIsDecided` |
| `wsbus` | two tabs of ann, of which one may fall silent, and one of bob; one room | `LiveSocketsAreKnown`, `OfflineIsAnnounced` |
| `chat` | two rooms, pages of two, three messages, two selections, one loss or failed fetch | `ReadIsShown`, `NothingElseIsMissed`, `HistoryInOrder` |
| `chat_read` | two rooms, pages of one, two messages, one edit or deletion | `ShownBecomesRead` |
| `plugins`: attachments | one room, two uploads of two chunks, one fault, one download at a time | `NoOrphanFiles`, `FilesAreWhole`, `FilesGoWithOwner` |
| `plugins`: todo, reactions, typing | two rooms; two selections, one item and one change; two selections, two messages, two changes and two batches; two selections of the one who types and three of the one who watches; one frame each way; one loss, failure or request over HTTP | `ListFollows`, `PillsFollow`, `ShownIsTyping` |
| `plugins`: backups | two hours of the day to schedule, one manual backup, one failure, deletion, change or restart | `RetentionForgetsNothing`, `LatestIsThere`, `OneADay` |
| `plugins`: notices | two rooms, a page that shows one of them or is closed; two events out of messages, selections, failures, losses, closed pages and readings elsewhere | `EveryMessageIsTold`, `BadgesAreRight` |
| `folders` | four folders of at most three levels, one channel, one sidebar with two loads, two calls of others | `SidebarIsFresh`; the service implements `FolderTree` (`KeepsPromise`) |
| `keypairs` | two browsers, the one with a PRF authenticator has two tabs; five uses, one failing request | `BackupsOpen`, `ChatHasThePair`, `StrangersAreWarned`, `PagesComeToRest` |
| `page_sockets` | three sockets, two rooms, two selections, two attempts, two faults | `RoomIsJoined`, `ComesBack` |
| `page_sockets_single` | as `page_sockets`, one fault, no selection | fails: `SingleConnection` |

*Deadlock* is not checked: rooms, keys and registrations may come to rest, and the
bounds (keys to be made, epochs, sockets to be opened) are used up.

*Bounds.* Every one is a constant. `Blobs` bounds how many keys are ever made, `Epochs` how
far regeneration goes: two epochs and three keys let an epoch be replaced and the new one be
made twice, which is where the hazards are (two keys hide what a reload in the middle of a
distribution does; `keys_rooms`, with two, asks only where a key is and who has it). Two users are enough for a race between pages; a third
is there where the two that race are seen by somebody else. Two names with three
registrations let a name be registered twice at once and again after a rejection.
`MaxCalls` bounds authorized calls under way: with one, its check is stale against
registrations and against role changes that are not suspended; races of two
calls are covered by the proofs, which are for any number. Three sockets give a user with two, who
goes offline only with the second, and a watcher. Two rooms and two
selections let a load meet the clearing of the document by another; three messages and
pages of two let the first page be full, a second page be short, and one more message arrive
live in between. Edits and deletions change no read position and no page, so `chat` has
none and `chat_read` one; `MaxDrops` counts losses of the connection and failed fetches
together. The proofs of `Chat` are for any number of all these. Two uploads let the deletion of a
room reach one and fail at the other; two chunks let a file be whole in part; one
fault is followed by any retry or further deletion, and a download changes nothing that another one reads, and the proofs are for any number
of faults. Four folders of three levels let a subtree of two be moved under a chain of
one or two; the depth five of the code is covered by the proofs. Five uses let an account be
enrolled, removed and made again, or a key be forgotten and recovered, with one request
lost; `KeyPairs` was also checked with seven (10.5 million states), and three of its four
properties are proved for any number. Three sockets
are a page's current one, one it replaced and one that the bus has not forgotten. One item
with one change, or two messages with two changes, are enough for an answer and a broadcast to
meet in either order, since both work on each item by itself; larger instances were checked once (two
items; three messages). The calendar of `backups` has three ticks a day, weeks of two days and months of
four, and runs for eight days: the time for each tier to keep one archive and to let it go.
Two events of `notices` are a message and what comes between it and the
member: the page's own requests and frames are not counted. Two clicks on the settings page of a
channel are a save and another one while it is under way, or one that is compared with its outcome. Three edits of a field let a value be chosen, replaced and
chosen again before and after a reply. Two clicks on the admin page are two changes of a list whose reloads overtake one
another. The proofs about the pages are for any number of all these. Symmetry is used for values no
constant tells apart (keys, registrations, names), never with a
liveness property; topics and values of a field are interchangeable, and each behaviour of `rooms` begins with a
fixed one.

### What the failing run says

`page_sockets_single`: `docs/websocket-bus.md:3` says that a client has a single connection. A
connection goes silent; the page closes it; before the browser has given up on the closing
handshake the page becomes visible and replaces it. The late `onclose` of the old socket sets
`ws`, which names the new one, to null and plans another connection. The new one is
orphaned: it stays open, delivers everything twice, and since its pings are answered on
`ws` (`app.js:1921`) the server ends it after a minute, whose `onclose` orphans the next one.

### Noticed, without a run

The first four are counterexamples of properties that hold otherwise; the constants to
change are given.

* Two members whose key pairs were replaced both regenerate epoch *n*+1. The second's posts
  replace the first's (INSERT OR REPLACE), and messages sent in between cannot be read
  again (`docs/end-to-end-encryption.md:91`; `NoKeyIsLost` with two `Losers`, `app.js:646`).
* Reloading a page in the middle of a regeneration makes a second key for the same epoch, over
  the blobs posted already: its own blob is one of the posts, in any order, so that it
  may find the old epoch as the last one (`docs/end-to-end-encryption.md:91`; `NoKeyIsLost` and
  `OneKeyPerEpoch` with `LetFinish = FALSE`, `app.js:773`).
* The Add Member dialog reads `currentRoom` again at each request, so that a switch of
  rooms posts the first room's keys as the second's (`docs/rooms-and-membership.md:158`;
  `KeysStayInRoom` with `StayPut = FALSE`, `app.js:3075`).
* Two admins demote each other (`docs/users.md:82`; `AdminRemains` with two admins and
  `MaxCalls = 2`, `core/users/routes.py:224`).
* The upload of a wrapped key after enrolment, and that of a later login, posts the text of
  the public key with `kty` first. The server has it sorted and answers 409; the page does
  not look, and sets `prf_backup_uploaded`: there is no PRF backup, although
  `docs/end-to-end-encryption.md:114` says that the blob is stored.
* When the POST that follows a recovery with the passkey fails, `login.js` goes on to its last
  branch and replaces the recovered private key by a fresh one (`login.js:167`).
* A fresh pair whose POST was lost is never registered; one that the server refused is kept,
  with a warning that speaks of old messages only.
* `docs/rooms-and-membership.md:234` says that sub-folders move to the root when their folder
  is deleted; they are deleted. `room_folders/routes.py` is imported by nobody.
* Nothing reloads the sidebar after a reconnection, nor after a drag that the server refused.
* `frontend/README.md` speaks of five attempts to reconnect; the code makes ten.
* Todo: a change over HTTP is broadcast to nobody; a reconnection fetches nothing; an answer
  overwrites newer broadcasts, doubles an item that was broadcast while it was on its way, or
  is that of the room left; an answer that is an error is taken for a list; an item whose request
  was admitted before the room was deleted stays in the table.
* Reactions: a click on a message of the room just left stores its row under the new
  room, where no fetch finds it, while the key of the table refuses another; rows stay when their
  message or room is deleted; no fetch removes a pill.
* Typing: the word of the end is not sent when its writer leaves the room or closes the tab
  within three seconds, and who watches has no timeout of his own (`frontend/README.md`, "auto-timeout"):
  the indicator stays. It also stays on a page that leaves the room while the word of the start is on
  its way and comes back: that word is shown when it comes, while that of the end was
  relayed when the page was not subscribed. An invariant for the proof did not hold there; the run had
  missed it with two selections, and now has three of the page that watches.
* Backups asked for by admins hold the event loop, and with it the loop that starts the daily
  one: if they follow one another for a day, that day has none. `OneADay` holds for `(MaxManual + 1) *
  Longest < DayTicks`, which the run has. One backup less than that is not enough, as the proof
  showed: the loop may be late by all of them, and the next one takes its time as well; TLC finds the
  day without a backup with `DayTicks = 3`, `Longest = 1`, `MaxManual = 2`.
* Backups: an archive is written in place under its final name (`docs/backups.md` says it is moved
  there when complete), and a partial one is the newest of its day for retention; the
  scheduler starts only if backups are enabled when the server starts, and a change of the hour is seen
  after the next backup; a tier that keeps none keeps one; two backups within a second are one file.
* `room:leave` is sent when `selectRoom` starts, `room:join` when the keys have come: of
  two quick clicks, the first room's join follows its leave, and the socket stays
  subscribed to both (`docs/websocket-bus.md:73`: "one room at a time per tab"). `Chat`
  has these behaviours; its properties hold through them.
* An attachment is linked by its uploader's page when that displays the message, and by
  nobody else. A message deleted before leaves the attachment behind
  (`four43.attachments/frontend/src/plugin.js:903`, "so deletion cascades"), as does a complete
  upload whose message was never sent: `cleanup_stale` looks at pending ones only, and
  only when the server starts.
* An attachment can be begun for a room that was deleted, and stays for the next
  room of that name.
* Participants of a DM are ordinary members, and only an op may post a key for
  somebody else: whoever did not start the DM gets no key (`app.js:696` says "for all
  participants").
* Nobody sends keys to a member let in by a join request
  (`docs/rooms-and-membership.md:130`: a member may "Read and send messages").
* An invite is validated when a registration begins and used up when one completes,
  without another look: it may admit two (`docs/auth.md:264`, "Single-use").
* After a quick switch of rooms `loadMessages` returns at once if the other room's load
  still runs: the page shows no history of the current room (what it shows is the other room's), and
  the first live message marks everything before it as read.
* A deletion or an edit broadcast while its message is being fetched or decrypted is
  dropped: the message stays on screen as it was
  (`frontend/tests/e2e/TESTS.md:137`).
* Messages broadcast while the socket was down are not fetched on reconnection, and the
  next live one marks them as read (`unheard`).
* An open page goes on using the latest epoch of its cache after another page has
  made a newer one; a page cannot open an epoch that it regenerated once it is
  reloaded, since its private key is not of the registered pair; a
  regeneration by an ordinary member reaches nobody else (all of
  `docs/end-to-end-encryption.md`, 90 to 100).
* Starting a DM again overwrites its epoch 0.
* A request made while a room was public can be approved when it is private.
* A room whose deletion failed half-way can be created again, with the old members.
* `update_room` writes the visibility after an awaited broadcast, with the old checks.
* A join frame served after the heartbeat has forgotten its socket leaves a
  subscription that nothing but a failing send removes.
* An "offline" still being broadcast for an older socket can arrive after the
  "online" of a newer one, and stays on screen (`docs/users.md:119`, `core/ws/routes.py:47`).
* The button that makes a member an op never works: `docs/rooms-and-membership.md:273` says that an
  owner or op can do so on the settings page, which sends PUT or DELETE to a path that ends in `/op`
  (`room-settings.js:291`). The room service has no such route and takes roles by PATCH; every click is
  refused (the step `NoSuchRoute` of `RoomSettings`).
* Approve and Reject on the admin page never work: `docs/admin-and-moderation.md:32` says that users who wait
  are decided on there. The buttons pass `user.approval_code` (`admin.js:529`), the list has `approval.code`: the
  server is asked for the user with the code "undefined" and finds none (`Serve` of `AdminPage`).
* Settings of a channel: a reload that was answered before a save of the visibility and is drawn after
  it puts the old value into `currentRoom`, so that a choice of it is skipped (`room-settings.js:443`):
  the control says "private" and the room stays public. A topic that is typed back to the original while
  a save is under way is skipped in the same way (`room-settings.js:263`).
* Admin page: deleting a user leaves him in the list of preferences; the link to download a backup
  (`admin.js:750`) is a plain link, without the header that the server asks for
  (`docs/backups.md:74`); a change of the mode that is refused leaves the page with no mode; lists
  and log show an older answer that comes last.
* User settings: what is edited before the list of themes has come is not saved, because listeners
  are set afterwards (`settings.js:90`). After a refused save the previewed theme stays, and the
  card of the saved one does nothing when it is clicked; a refused color scheme stays marked.
* Notices: when the history of a room left meanwhile fails to load, `onRoomSelected` goes on
  (`four43.room-type-chat/frontend/src/plugin.js:135`) and marks that room as read up to `lastMessageId`, which is by
  then that of a message of the current room: what was not seen in the one before is no longer counted
  either. It takes five events; the run, with two, has none of it, and it was found by looking for the
  invariant. `/nick` calls `onRoomSelected` again (`app.js:435`), which neither `Chat` nor `Notices` has.
* Notices: a room clicked before the plugins are loaded stays blank, because `selectRoom` returns early
  when the same room is selected again, and its next live message marks the history nobody
  saw as read; notices that come before the plugins have registered are dropped. Who has a second
  browser open is not pushed to, and nobody tells one browser that the other has read a room.
  Deleted messages count as unread. A push ignores the level of notifications (`"mute"`
  included), and is sent by a blocking call on the event loop. The question for permission
  in the script of web-push holds up `loadPlugins` and with it the first room.

## 4. Fairness

`WsBus` states fairness for `OfflineIsAnnounced`: weak fairness of what the
event loop runs for each socket without waiting for a frame, and of the heartbeat
task. asyncio runs every task that is ready; a send ends or raises; the end of a
connection is noticed by the read that waits on it. No assumption is made about
clients (they may stay, hang up, or fall silent for ever) or about time.

`KeyPairs` states it for `PagesComeToRest`: a script that waits for a request or for
IndexedDB goes on (a request may fail instead, a bounded number of times). Users do
nothing they need not do.

`PageSockets` states it for `ComesBack`: the browser runs handlers, fires timers and ends a closing
handshake; requests for keys are answered; both heartbeats find a silent connection.
Nothing is assumed of `visibilitychange`, of the user or of the network beyond a bounded
number of faults. `replaced` pages are left out of it (see the failing run).

`Chat` states it for `ShownBecomesRead`: weak fairness, for each call of `selectRoom`, of
the answer to its fetch together with the display of its rows (a promise settles, and its continuation is
run), and for each request to mark a room as read that it is served. A fetch that
fails instead counts as settled. Nothing is assumed of the keys, of broadcasts, of the
user or of reconnection.

## 5. The proofs

Each `*_proofs` module proves its theorems for every value of the constants that
satisfies the ASSUME of its module, or of the theorem (no finiteness, no bound on users, rooms,
epochs, keys, calls or sockets).

* **Rooms.** `RoomsAreSound` is `ReferentialIntegrity` and `DMIntegrity`. The inductive invariant is types, `ReferentialIntegrity`, `DMIntegrity`
  and `RegistryAgrees`. Integrity needs the handlers' checks of membership: since a
  room without a row has no members, every handler that would add to it is refused.
  From the invariant each step gives `MembershipByAuthority` and
  `RequestsAreDecided`.
* **RoomKeys.** `TypeInv` adds to the types `Shape`: a flow that adds members
  has a room and a cache, and what it has left to post is in that cache. Without
  it a step could post a key that is no key. `ClientsUseTheService` shows that each step of
  a page is a step of `Rooms` or leaves its variables alone, so that the theorems of
  **Rooms** hold with the real clients. For `KeysStayInRoom` and
  `OnlyMembersGetKeys` the invariant `CopiesGood` follows every copy of a key: at
  the server, in caches, being decrypted, being posted, held by a flow. Both assume
  `StayPut`, and fail without it.
  For `OneKeyPerEpoch` and `NoKeyIsLost` the invariant `EpochInv` says that all these copies of
  the key of an epoch agree. Each copy comes from another of its epoch or is freshly
  generated (`CopyOrigin`), so it is enough that a key is only generated where nobody has
  one (`FreshIsFirst`). For epoch 0 that is because a room has no key before its one
  creator's (`Creations`). For a later one it is because the user who lost the
  private key has a blob as late as any, or is posting one to himself (`LoserIsUpToDate`), and had it
  when the load read the rows, so that the epoch after the last of them is new
  (`RegenerationIsNew`). `OneRegenerates` is what this needs: one loser, `StayPut`, `LetFinish`,
  nobody removed, no room deleted, no DM started. Without one of the first three TLC finds a
  counterexample (see above), and a DM is started by making epoch 0 whether there is one or not; a removal or a
  deletion in the middle of a distribution has the effect of a page that is closed.
* **Accounts.** `PagesOpen` (a live token has a page) and `NoRoleUnderWay` (no
  suspended role change unless `SlowBroadcast`) strengthen the types.
  `AdminLostOnlyLate` assumes nothing, `LastAdminStays` assumes
  `~SlowBroadcast`; `AccountStep` classifies what one step can do to one account, and
  the two action properties follow from it.
* **WsBus.** `NothingOfNew` (a socket that was not accepted is in no map and in no
  broadcast) and `BrokenAreShut` (a send raised only on an ended connection)
  strengthen `MapsAgree` (the four maps say the same) and `LiveSocketsAreKnown`.

* **Chat.** The inductive invariant is `Typed` (types, and what indices and sizes
  must be for the next step to keep them) and `Order`. `LoadsExclude` is part of it. For
  `HistoryInOrder` it follows what the next row will be put next to: rows still to be displayed
  have larger ids than those of the same load already displayed (`HistoryGrowsDown`),
  rows of an older page precede everything under their anchor
  (`OlderGoesAbove`, `OlderFits`), and
  `oldestMessageId`, from which the next page is asked, is below every row displayed
  (`OldestIsFirst`). All of it holds through switches of rooms in the
  middle of a load, because the document is cleared exactly when a load begins or would.
  For `ReadIsShown` and `NothingElseIsMissed` the invariant `Told` follows a message from the post to the
  screen: each one up to `lastMessageId`, a read position, or one that was asked for, and each one a
  load has answered with, is displayed, being decrypted, loading, or named by `unheard`. A
  broadcast is newer than those before it on the wire, which is why both theorems assume
  `InOrder`. Without a hurried switch there is one call of `selectRoom` under way, for the
  current room. When it ends, each message of the room is on the screen, being decrypted, in a
  load, named by `unheard`, or still on the wire (`RoomIsHere`).

* **Attachments.** `FilesAreWhole` is `SentIsWhole` and `DownloadIsWhole`. The invariant `FileInv` says, for each file by itself, how its row,
  chunks, directory, message, upload and download agree. What an upload under way has
  stored is the chunks before `next` (`Stores`); a PUT whose body is awaited is the
  next of its upload, or of a page that is gone (`Puts`), and its attachment is not
  complete; hence a complete one is whole when it is finalized, and nothing but a
  deletion changes it later (`Completes`, `Sent`). A step that deletes erases a file or
  keeps its rows (`RemoveFailsFacts`), which is all its lemmas need to know of it; a step
  of one file leaves the others as they are (`OneFile`).

* **Folders.** The invariant is types and soundness: every folder that is there has its
  parent there, is not among its own ancestors and has fewer than `MaxDepth` of them. The lemmas about
  ancestors (a chain, closed upwards, the least such set) say how one changed parent moves a
  subtree; the number of ancestors is the rank that `FolderTree` asks for. `FoldersKeepPromise` maps every step to a step of
  `FolderTree` or to a stutter. `SidebarsAreFresh` rests on `FreshInv`: each change of the server
  goes with its notice, so that every page has asked once more or is excused; the youngest
  load of a page that is not excused has read nothing but what is stored now, and when
  it is handled last, what it draws is that (a sound tree is drawn as it is).

* **KeyPairs.** `KeysInv` adds to the types what makes `BackupsOpen` inductive (`RowInv`,
  `TabInv`): the registered text is always one that `exportKey` made, and a page
  that posts a text made from the private key is only where there was a registered key (`Keyed`),
  so that such a post is refused and what it would have stored with it too; an account
  that was made without keys gets them from one page, together. `PairInv` says that every pair a
  browser has, or that a page is about to give it (`Holding`), is registered or known not to be
  (`Known`: excused and warned of). A step of a page has to account for one tab and one
  browser (`Accounts`), and to forget nothing (`Recalls`); `PairMoves` is the lemma that
  this is enough. `ChatHasThePair` and `StrangersAreWarned` follow from both invariants.

* **PageSockets.** `Joining`: if the bus hears of the socket that `ws` names, the current room is joined on it,
  or a call of `selectRoom` or of `onopen` still waits for keys and will join it. Every such wait
  joins on whatever `ws` is when it ends, so that the waits of a socket that was
  replaced count as well.

* **Typing.** `TypingInv` follows the word of a start over both wires: that of the end comes after it
  on the same wire, is on the one before, or is not due yet because the timer runs (`Excused`). What is shown is the
  same at the end of the wire.

* **Todo.** The list that is shown and the answers that have missed nothing (`Following`) become the items of
  their rooms alike (`Turns`). An item of the room is in such a list or about to be added to it, once, and
  the last that is on its way about it is its row (`Shows`); of any other item the page
  has never heard, or hears last that it is deleted (`Hides`); of one that is yet to be made nothing was said,
  so that its addition finds no copy. An answer starts so because it is calm only if nothing about its room is
  under way. What becomes of one item by one broadcast is a lemma about `Applied` (`AppliedFacts`), and
  what an answer holds one about `get_items` (`AnswerFacts`). It assumes that ids are numbers
  (`TodoAssumption`).

* **Reactions.** The last broadcast under way about a reaction decides what becomes of its pill
  (`Becomes`). What is shown of a settled message becomes what is stored, and so does an answer of
  a batch for each message it is calm for (`BatchesInv`): nothing under way about it but what the
  answer does not hold. A broadcast that comes is then in both or in neither, so that merging the answer
  with what was drawn meanwhile (`BatchArrives`) leaves the message right, whether it was settled or is
  now. A change stored under another room, or told to nobody, ends both. It assumes
  that a message is of one room (`ReactionsAssumption`).

* **Backups.** `NothingLost` is the induction hypothesis: whatever any later retention would keep of
  all the archives ever begun is there, and not doomed. It rests on three lemmas about one
  tier. What it holds later, of what is there now, it holds now (`HeldBefore`): newer archives come, and each
  period has a newest one, so that there are never fewer newer ones (`NewerGrow`). A tier that works
  on what others left holds what it would hold of all (`HeldOfTheRest`): the newest one that is
  missing among those before an archive would have as many newer ones as the tier keeps. The newest
  archive is held (`NewestIsKept`). The last one needs that a backup takes less time than the
  daily tier reaches back (`BackupsAssumption`); the calendar is any one of even days, weeks and months.
  `OneBackupADay` follows the loop from one time of the schedule to the next: it has seen to all of
  them up to one, each by one attempt (`SeenTo`), and sleeps, runs or rests on its way to the next. That it is never a
  day late is a bound on time: what passes while an admin's backup holds the loop up is at most `Longest`
  for each (`HeldUp`), and without it time stops at what the loop waits for (`Unheld`). The theorem assumes
  `(MaxManual + 1) * Longest < DayTicks`, and that a schedule names a time of the day.

* **Notices.** `EveryMessageIsTold` and `BadgesAreRight` have an invariant each, above the same types,
  bounds and what a page is before its plugins (`NoticeBase`).
  `MessagesInv` says, of a message that is neither told nor missed, what will still bring it: for the current
  room the broadcast or the history of a selection, for another one a notice, a load of the sidebar or an answer
  that counts it; and that a mark beyond it finds its history on the way. Of two messages of a room the
  earlier one comes first (`WireInOrder`, hence the assumption `InOrder` of `EveryMessageArrives`).
  `NumbersInv` says, of each room that is not excused, that the newest answer to `loadRooms`, or the number
  that is drawn if there is none, is that of the server, unless the rooms will be loaded once more (`Coming`).
  Answers that a newer one has overtaken stand before the others (`LateFirst`); drawing one excuses every room.

* **SavedFields.** `FieldsInv` compares, for what is shown, applied and chosen, the value with the one that is
  saved, or with that of a save under way that is `calm` (alone, of this very value): `CalmSaves`, `ChoiceInv`.
  The moments before the page is ready are a part of their own (`BeforeReady`), and so is the
  list that is drawn again by a load that nobody waits for (`ListInv`).

* **AdminPage.** For each list, the page's last change is in what is shown, in the last answer, or will be asked for,
  because a change goes before the loads it starts (`ListMoved`). The mode is in the slider, or on its way in a
  reply that will be handled (`ModeMoved`); a reply without one leaves a page that knows of no mode, which
  stops the poll (`ModesAreKnown`, and `PollFollows`, which is inductive by itself).

* **RoomSettings.** `MembersInv` and `RequestsInv` say of each list that it is right, that something under way will
  have it loaded (`RoomComes`, `RequestsCome`), or that an answer which is new is right, and that the last
  of the new answers is, whatever order they are drawn in. The page learns from the members that its user may
  not see the room any more, and from the same answer that it may not see the requests: the
  role in a new answer is that of the server (`Going` but for a page that is about to leave). `TopicInv` and
  `VisibilityInv` are as in **SavedFields**, with `originalTopic` and `currentRoom` compared as well: a
  save is skipped only when what it is compared with is right, or known not to be.
  Looking for this invariant showed a way that the run's bounds do not reach: a decision is answered on a page that
  no longer takes its user for an op, which hides the requests and asks for none (`RequestReplied`), while an
  answer given earlier, when he was one, is still to be drawn and shows them again. The model had excused nothing
  there; it now counts the answers under way as overtaken.

Only model-checked are the liveness properties `OfflineIsAnnounced`, `ShownBecomesRead`,
`PagesComeToRest` and `ComesBack`, which need fairness and ENABLED. Every
other property of the passing runs is proved for all values of the constants that satisfy the assumptions.

## 6. Not modelled, and the plan

`PROJECT.json` lists every component with its status. What could be added, in this order:

1. **Presence**: the dots of the sidebar against the sockets of the bus, whose late
   "offline" is described above.
2. **Event dispatch**: reply tokens of the bus, and listeners that raise in the
   middle of an event. `Attachments` and `Notices` model the two events that others
   depend on.
3. **Several browsers of one member** in `Notices`, with unsubscription.
4. **The members panel** of `app.js`, which loads members as `RoomSettings` does.

Not planned:

* Theme files and their previews, the emoji picker, the icon, the server list of the browser, the seed and
  admin scripts, the service worker's cache. They have one actor and one write each.
* The thirty-second cache of plugin authentications (`core/plugins/middleware.py`): one
  read and one write without a wait in between. That a role or a session is honoured for up to thirty seconds
  after its end is what it is for, and all there is to say of it.
* Cryptography, WebAuthn, wording, layout, and the contents of messages, files and archives.
