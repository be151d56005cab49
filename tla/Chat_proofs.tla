---------------------------- MODULE Chat_proofs ----------------------------
(***************************************************************************)
(* Proofs about Chat: its types, that one load of messages excludes        *)
(* another, that the pages of history stay in order and, where broadcasts  *)
(* come in order, that read positions cover what was shown and that no     *)
(* message of a loaded room is missed.                                     *)
(***************************************************************************)
EXTENDS Chat, FiniteSetTheorems, SequenceTheorems, TLAPS

Messages == [room : Rooms, content : Contents, deleted : BOOLEAN]
Frames == [type : {"join", "leave"}, room : Rooms]
Events == [type : {"message", "message_edited", "message_deleted"},
           id : Ids, content : Contents]
Loads == [room : Rooms, at : {"keys", "history", "rows", "done"}, rows : SUBSET Rows,
          first : 0 .. MaxMessages, size : 0 .. MaxMessages]
OlderLoads == [at : {"idle", "asked", "rows"}, room : Rooms \cup {NoRoom},
               before : 0 .. MaxMessages, rows : SUBSET Rows,
               first : 0 .. MaxMessages, size : 0 .. MaxMessages,
               inserted : 0 .. MaxMessages, anchor : {"first", "none", "gone"}]

ServerTypes ==
    /\ messages \in Seq(Messages) /\ Len(messages) <= MaxMessages
    /\ last_read \in [Rooms -> 0 .. MaxMessages]
    /\ joined \subseteq Rooms
WireTypes ==
    /\ up \in Seq(Frames) /\ down \in Seq(Events)
    /\ reads \subseteq [room : Rooms, id : Ids]
PageTypes ==
    /\ currentRoom \in Rooms \cup {NoRoom}
    /\ online \in BOOLEAN /\ rejoining \in BOOLEAN
SelectionTypes == selections \in Seq(Loads) /\ Len(selections) <= MaxSelections
PagingTypes ==
    /\ isLoadingMessages \in BOOLEAN /\ hasOlderMessages \in BOOLEAN
    /\ lastMessageId \in 0 .. MaxMessages /\ oldestMessageId \in 0 .. MaxMessages
OlderTypes == older \in OlderLoads
DocumentTypes ==
    /\ view \in Seq(Elements) /\ arrivals \subseteq Ids
    /\ edits \subseteq [id : Ids, content : Contents]
    /\ shown \subseteq Ids
WhatHappened ==
    /\ unheard \subseteq Ids /\ hasty \in BOOLEAN
    /\ changes \in 0 .. MaxChanges /\ drops \in 0 .. MaxDrops

\* A broadcast is about a stored message, and only a page with a room rejoins.
WellFounded ==
    /\ \A k \in DOMAIN down : down[k].id \in DOMAIN messages
    /\ rejoining => currentRoom \in Rooms

\* The rows of an older page that were displayed, and those that were not yet,
\* are no more than the messages; the anchor is an element that is there.
OlderFits ==
    /\ IsFiniteSet(older.rows)
    /\ older.inserted + Cardinality(older.rows) <= MaxMessages
    /\ older.at # "rows" => older.inserted = 0
    /\ older.at = "rows" /\ older.anchor = "first" => older.inserted <= Len(view)

Typed ==
    /\ ServerTypes /\ WireTypes /\ PageTypes /\ SelectionTypes /\ PagingTypes
    /\ OlderTypes /\ DocumentTypes /\ WhatHappened /\ WellFounded

\* LoadsExclude, without counting.
Exclusive ==
    /\ \A n, m \in DOMAIN selections : Runs(n) /\ Runs(m) => n = m
    /\ older.at # "idle" => \A n \in DOMAIN selections : ~Runs(n)
    /\ isLoadingMessages <=> older.at # "idle" \/ \E n \in DOMAIN selections : Runs(n)

\* The elements that pages of history brought.
Historic == {p \in DOMAIN view : ~view[p].live}
AllFrom(i) == \A p \in Historic : view[p].id >= i

\* The rows still to be displayed: no two of a message, and none above the first.
RowsOf(rows, first) ==
    /\ \A x, y \in rows : x.id = y.id => x = y
    /\ \A x \in rows : x.id >= first

\* A history being displayed goes on below what it has displayed.
HistoryGrowsDown ==
    \A n \in DOMAIN selections :
        LET load == selections[n] IN
        /\ load.at = "history" => Historic = {} /\ load.first = NoMessage
        /\ load.at = "keys" => load.first = NoMessage
        /\ load.at = "rows" =>
              /\ RowsOf(load.rows, load.first)
              /\ \A p \in Historic, x \in load.rows : view[p].id < x.id
              /\ IF load.first = NoMessage THEN Historic = {} ELSE AllFrom(load.first)

\* An older page being displayed is above what was there, and goes on below what
\* it has displayed.
OlderGoesAbove ==
    /\ older.at = "asked" => AllFrom(older.before) /\ older.first = NoMessage
    /\ older.at = "rows" =>
          /\ RowsOf(older.rows, older.first)
          /\ older.first # NoMessage => AllFrom(older.first)
          /\ older.anchor = "gone" => Historic = {}
          /\ older.anchor = "none" =>
                /\ \A p \in Historic, x \in older.rows : view[p].id < x.id
                /\ older.first = NoMessage => Historic = {}
          /\ older.anchor = "first" =>
                /\ \A p \in Historic, x \in older.rows :
                      IF p <= older.inserted THEN view[p].id < x.id ELSE view[p].id > x.id
                /\ older.first = NoMessage => older.inserted = 0

\* Between two loads the oldest message known is the first one displayed.
OldestIsFirst ==
    /\ older.at # "rows" /\ ~\E n \in DOMAIN selections : Runs(n)
    /\ oldestMessageId # NoMessage
    => AllFrom(oldestMessageId)

Order ==
    /\ OlderFits /\ Exclusive
    /\ HistoryInOrder /\ HistoryGrowsDown /\ OlderGoesAbove /\ OldestIsFirst

-----------------------------------------------------------------------------
(* Sequences.                                                              *)

LEMMA InsertAtProperties ==
  ASSUME NEW S, NEW s \in Seq(S), NEW i \in 1 .. Len(s) + 1, NEW e \in S
  PROVE  /\ InsertAt(s, i, e) \in Seq(S)
         /\ Len(InsertAt(s, i, e)) = Len(s) + 1
         /\ \A p \in 1 .. Len(s) + 1 :
               InsertAt(s, i, e)[p] = IF p < i THEN s[p]
                                      ELSE IF p = i THEN e ELSE s[p - 1]
<1> DEFINE a == SubSeq(s, 1, i - 1)
           b == SubSeq(s, i, Len(s))
<1>1. /\ a \in Seq(S) /\ Len(a) = i - 1
      /\ \A p \in 1 .. i - 1 : a[p] = s[p]
  OBVIOUS
<1>2. /\ b \in Seq(S) /\ Len(b) = Len(s) + 1 - i
      /\ \A p \in 1 .. Len(s) + 1 - i : b[p] = s[p + i - 1]
  OBVIOUS
<1> HIDE DEF a, b
<1>3. InsertAt(s, i, e) = (a \o <<e>>) \o b
  BY DEF InsertAt, a, b
<1>4. /\ a \o <<e>> \in Seq(S) /\ Len(a \o <<e>>) = i
      /\ \A p \in 1 .. i : (a \o <<e>>)[p] = IF p < i THEN s[p] ELSE e
  BY <1>1
<1> DEFINE c == a \o <<e>>
<1> HIDE DEF c
<1>5. /\ c \o b \in Seq(S) /\ Len(c \o b) = Len(s) + 1
      /\ \A p \in 1 .. Len(s) + 1 : (c \o b)[p] = IF p <= i THEN c[p] ELSE b[p - i]
  BY <1>2, <1>4 DEF c
<1>6. ASSUME NEW p \in 1 .. Len(s) + 1
      PROVE  (c \o b)[p] = IF p < i THEN s[p] ELSE IF p = i THEN e ELSE s[p - 1]
  <2>1. CASE p <= i
    BY <2>1, <1>4, <1>5 DEF c
  <2>2. CASE p > i
    <3>1. p - i \in 1 .. Len(s) + 1 - i
      BY <2>2
    <3>2. b[p - i] = s[(p - i) + i - 1]
      BY <1>2, <3>1
    <3>3. (p - i) + i - 1 = p - 1
      OBVIOUS
    <3> QED BY <2>2, <3>2, <3>3, <1>5
  <2>3. p <= i \/ p > i
    OBVIOUS
  <2> QED BY <2>1, <2>2, <2>3, Zenon
<1> QED BY <1>3, <1>5, <1>6 DEF c

LEMMA RemoveAtProperties ==
  ASSUME NEW S, NEW s \in Seq(S), NEW i \in 1 .. Len(s)
  PROVE  /\ RemoveAt(s, i) \in Seq(S)
         /\ \A p \in DOMAIN RemoveAt(s, i) :
               \E q \in DOMAIN s : RemoveAt(s, i)[p] = s[q]
<1> DEFINE a == SubSeq(s, 1, i - 1)
           b == SubSeq(s, i + 1, Len(s))
<1>1. /\ a \in Seq(S) /\ Len(a) = i - 1
      /\ \A p \in 1 .. i - 1 : a[p] = s[p]
  OBVIOUS
<1>2. /\ b \in Seq(S) /\ Len(b) = Len(s) - i
      /\ \A p \in 1 .. Len(s) - i : b[p] = s[p + i]
  OBVIOUS
<1> HIDE DEF a, b
<1>3. RemoveAt(s, i) = a \o b
  BY DEF RemoveAt, a, b
<1>4. /\ a \o b \in Seq(S) /\ Len(a \o b) = Len(s) - 1
      /\ \A p \in 1 .. Len(s) - 1 : (a \o b)[p] = IF p <= i - 1 THEN a[p] ELSE b[p - (i - 1)]
  <2>1. /\ a \o b \in Seq(S) /\ Len(a \o b) = Len(a) + Len(b)
        /\ \A p \in 1 .. Len(a) + Len(b) :
              (a \o b)[p] = IF p <= Len(a) THEN a[p] ELSE b[p - Len(a)]
    BY <1>1, <1>2, ConcatProperties
  <2>2. Len(a) + Len(b) = Len(s) - 1
    BY <1>1, <1>2
  <2> QED BY <1>1, <2>1, <2>2
<1> DEFINE c == a \o b
<1> HIDE DEF c
<1>5. ASSUME NEW p \in 1 .. Len(s) - 1
      PROVE  \E q \in 1 .. Len(s) : c[p] = s[q]
  <2>1. CASE p < i
    BY <2>1, <1>1, <1>4 DEF c
  <2>2. CASE p >= i
    <3>1. p - (i - 1) \in 1 .. Len(s) - i
      BY <2>2
    <3>2. b[p - (i - 1)] = s[(p - (i - 1)) + i]
      BY <1>2, <3>1
    <3>3. (p - (i - 1)) + i = p + 1 /\ p + 1 \in 1 .. Len(s)
      BY <2>2
    <3>4. c[p] = b[p - (i - 1)]
      BY <2>2, <1>4 DEF c
    <3> QED BY <3>2, <3>3, <3>4
  <2>3. p < i \/ p >= i
    OBVIOUS
  <2> QED BY <2>1, <2>2, <2>3, Zenon
<1>6. DOMAIN c = 1 .. Len(s) - 1 /\ DOMAIN s = 1 .. Len(s)
  BY <1>4 DEF c
<1> QED BY <1>3, <1>4, <1>5, <1>6 DEF c

-----------------------------------------------------------------------------
(* Types.  One lemma per action.                                           *)

LEMMA Bounds ==
  /\ MaxMessages \in Nat /\ MaxSelections \in Nat /\ MaxChanges \in Nat /\ MaxDrops \in Nat
  /\ PageSize \in Nat \ {0} /\ NoRoom \notin Rooms
BY ChatAssumption

LEMMA TypedIsTypeOK == Typed => TypeOK
BY DEF Typed, TypeOK, ServerTypes, WireTypes, PageTypes, SelectionTypes, PagingTypes,
       OlderTypes, DocumentTypes, WhatHappened, Messages, Frames, Events, Loads, OlderLoads

\* The message a row or a broadcast is about.
LEMMA StoredIds ==
  ASSUME Typed, NEW i \in DOMAIN messages
  PROVE  /\ i \in Ids /\ messages[i] \in Messages
         /\ messages[i].room \in Rooms /\ messages[i].content \in Contents
         /\ messages[i].deleted \in BOOLEAN
<1>1. messages \in Seq(Messages) /\ Len(messages) <= MaxMessages
  BY DEF Typed, ServerTypes
<1>2. i \in Ids /\ messages[i] \in Messages
  BY <1>1, Bounds DEF Ids
<1> QED BY <1>2 DEF Messages

LEMMA EventIds ==
  ASSUME Typed, NEW k \in DOMAIN down
  PROVE  down[k] \in Events /\ down[k].id \in DOMAIN messages
<1>1. down \in Seq(Events)
  BY DEF Typed, WireTypes
<1> QED BY <1>1 DEF Typed, WellFounded

LEMMA InitTyped == Init => Typed
<1> SUFFICES ASSUME Init PROVE Typed
  OBVIOUS
<1>1. ServerTypes /\ WireTypes /\ SelectionTypes
  BY Bounds DEF Init, NoMessage, ServerTypes, WireTypes, SelectionTypes
<1>2. /\ {online, rejoining, isLoadingMessages, hasOlderMessages, hasty} \subseteq BOOLEAN
      /\ rejoining \in BOOLEAN /\ currentRoom = NoRoom
  BY DEF Init
<1>3. OlderTypes
  BY Bounds DEF Init, NoMessage, OlderTypes, OlderLoads, NotOlder
<1>4. /\ DocumentTypes /\ PageTypes
      /\ lastMessageId \in 0 .. MaxMessages /\ oldestMessageId \in 0 .. MaxMessages
      /\ unheard \subseteq Ids /\ changes \in 0 .. MaxChanges /\ drops \in 0 .. MaxDrops
  <2>1. DocumentTypes /\ PageTypes
    BY <1>2 DEF Init, DocumentTypes, PageTypes
  <2>2. /\ lastMessageId = 0 /\ oldestMessageId = 0
        /\ unheard = {} /\ changes = 0 /\ drops = 0
    BY DEF Init, NoMessage
  <2> QED BY <2>1, <2>2, Bounds
<1>5. WellFounded
  BY DEF Init, WellFounded
<1> QED BY <1>1, <1>2, <1>3, <1>4, <1>5 DEF Typed, PagingTypes, WhatHappened

\* A broadcast about a stored message.
LEMMA BroadcastTyped ==
  ASSUME Typed, NEW r \in Rooms, NEW type \in {"message", "message_edited", "message_deleted"},
         NEW i \in Ids, NEW content \in Contents, Broadcast(r, type, i, content)
  PROVE  /\ down' \in Seq(Events)
         /\ \A k \in DOMAIN down' : (k \in DOMAIN down /\ down'[k] = down[k])
                                    \/ down'[k].id = i
<1>1. [type |-> type, id |-> i, content |-> content] \in Events
  BY DEF Events
<1>2. down \in Seq(Events)
  BY DEF Typed, WireTypes
<1> QED BY <1>1, <1>2 DEF Broadcast

LEMMA PostTyped ==
  ASSUME Typed, NEW r \in Rooms, Post(r) PROVE Typed'
<1> DEFINE i == Len(messages) + 1
           m == [room |-> r, content |-> 0, deleted |-> FALSE]
<1> USE DEF Typed
<1>1. i \in Ids /\ i <= MaxMessages /\ m \in Messages
  BY Bounds DEF Post, Ids, Messages, Contents, ServerTypes
<1>2. ServerTypes'
  <2>1. messages' = Append(messages, m) /\ messages \in Seq(Messages)
    BY DEF Post, ServerTypes
  <2> QED BY <1>1, <2>1 DEF Post, ServerTypes
<1>3. /\ down' \in Seq(Events)
      /\ \A k \in DOMAIN down' : (k \in DOMAIN down /\ down'[k] = down[k]) \/ down'[k].id = i
  BY <1>1, Bounds, BroadcastTyped DEF Post, Contents
<1>4. WireTypes'
  BY <1>3 DEF Post, WireTypes
<1>5. WellFounded'
  <2>1. DOMAIN messages' = DOMAIN messages \cup {i}
    BY DEF Post, ServerTypes
  <2> QED BY <1>3, <2>1 DEF Post, WellFounded
<1>6. WhatHappened'
  BY <1>1 DEF Post, WhatHappened
<1>7. PageTypes' /\ SelectionTypes' /\ PagingTypes' /\ OlderTypes' /\ DocumentTypes'
  BY DEF Post, paging, document, PageTypes, SelectionTypes, PagingTypes, OlderTypes,
         DocumentTypes
<1> QED BY <1>2, <1>4, <1>5, <1>6, <1>7

\* An edit or a deletion: the rows change, not their ids.
LEMMA ChangeTyped ==
  ASSUME Typed, NEW i \in DOMAIN messages, EditMessage(i) \/ DeleteMessage(i)
  PROVE  Typed'
<1> USE DEF Typed
<1>1. /\ changes \in Nat /\ changes < MaxChanges /\ changes' = changes + 1
      /\ changes + 1 \in Contents /\ 0 \in Contents
  BY Bounds DEF EditMessage, DeleteMessage, WhatHappened, Contents
<1>2. /\ messages' \in Seq(Messages) /\ Len(messages') = Len(messages)
      /\ DOMAIN messages' = DOMAIN messages
  <2>1. messages \in Seq(Messages)
    BY DEF ServerTypes
  <2>2. /\ [messages[i] EXCEPT !.content = changes + 1] \in Messages
        /\ [messages[i] EXCEPT !.deleted = TRUE] \in Messages
    BY <1>1, StoredIds DEF Messages
  <2>3. \E m \in Messages : messages' = [messages EXCEPT ![i] = m]
    BY <2>2 DEF EditMessage, DeleteMessage
  <2> QED BY <2>1, <2>3
<1>3. ServerTypes'
  BY <1>2 DEF EditMessage, DeleteMessage, ServerTypes
<1>4. /\ down' \in Seq(Events)
      /\ \A k \in DOMAIN down' : (k \in DOMAIN down /\ down'[k] = down[k]) \/ down'[k].id = i
  <2>1. messages[i].room \in Rooms /\ i \in Ids
    BY StoredIds
  <2>2. CASE EditMessage(i)
    <3>1. Broadcast(messages[i].room, "message_edited", i, changes + 1)
      BY <2>2 DEF EditMessage
    <3> QED BY <1>1, <2>1, <3>1, BroadcastTyped
  <2>3. CASE DeleteMessage(i)
    <3>1. Broadcast(messages[i].room, "message_deleted", i, 0)
      BY <2>3 DEF DeleteMessage
    <3> QED BY <1>1, <2>1, <3>1, BroadcastTyped
  <2> QED BY <2>2, <2>3
<1>5. WireTypes' /\ WellFounded'
  BY <1>2, <1>4 DEF EditMessage, DeleteMessage, WireTypes, WellFounded
<1>6. WhatHappened'
  BY <1>1 DEF EditMessage, DeleteMessage, WhatHappened, Contents
<1>7. PageTypes' /\ SelectionTypes' /\ PagingTypes' /\ OlderTypes' /\ DocumentTypes'
  BY DEF EditMessage, DeleteMessage, paging, document, PageTypes, SelectionTypes,
         PagingTypes, OlderTypes, DocumentTypes
<1> QED BY <1>3, <1>5, <1>6, <1>7

LEMMA ServeFrameTyped ==
  ASSUME Typed, ServeFrame PROVE Typed'
<1> USE DEF Typed
<1>1. Head(up) \in Frames /\ Tail(up) \in Seq(Frames)
  BY DEF ServeFrame, WireTypes
<1>2. Head(up).room \in Rooms
  BY <1>1 DEF Frames
<1>3. ServerTypes' /\ WireTypes'
  BY <1>1, <1>2 DEF ServeFrame, ServerTypes, WireTypes
<1>4. /\ PageTypes' /\ SelectionTypes' /\ PagingTypes' /\ OlderTypes' /\ DocumentTypes'
      /\ WhatHappened' /\ WellFounded'
  BY DEF ServeFrame, paging, document, PageTypes, SelectionTypes, PagingTypes, OlderTypes,
         DocumentTypes, WhatHappened, WellFounded
<1> QED BY <1>3, <1>4

LEMMA ServeReadTyped ==
  ASSUME Typed, NEW x \in reads, ServeRead(x) PROVE Typed'
<1> USE DEF Typed
<1>1. x \in [room : Rooms, id : Ids] /\ last_read \in [Rooms -> 0 .. MaxMessages]
  BY DEF WireTypes, ServerTypes
<1>2. x.room \in Rooms /\ x.id \in 0 .. MaxMessages
  BY <1>1, Bounds DEF Ids
<1>3. last_read' \in [Rooms -> 0 .. MaxMessages]
  BY <1>1, <1>2 DEF ServeRead, mark_room_read, Larger
<1>4. ServerTypes' /\ WireTypes'
  BY <1>3 DEF ServeRead, ServerTypes, WireTypes
<1>5. /\ PageTypes' /\ SelectionTypes' /\ PagingTypes' /\ OlderTypes' /\ DocumentTypes'
      /\ WhatHappened' /\ WellFounded'
  BY DEF ServeRead, paging, document, PageTypes, SelectionTypes, PagingTypes, OlderTypes,
         DocumentTypes, WhatHappened, WellFounded
<1> QED BY <1>4, <1>5

LEMMA SelectionType ==
  ASSUME Typed, NEW n \in DOMAIN selections
  PROVE  /\ selections[n] \in Loads /\ selections[n].room \in Rooms
         /\ selections[n].rows \subseteq Rows
         /\ selections[n].first \in 0 .. MaxMessages /\ selections[n].size \in 0 .. MaxMessages
<1>1. selections \in Seq(Loads)
  BY DEF Typed, SelectionTypes
<1>2. selections[n] \in Loads
  BY <1>1
<1> QED BY <1>2 DEF Loads

LEMMA SelectRoomTyped ==
  ASSUME Typed, NEW r \in Rooms, SelectRoom(r) PROVE Typed'
<1> USE DEF Typed
<1>1. WireTypes'
  <2>1. currentRoom # NoRoom => [type |-> "leave", room |-> currentRoom] \in Frames
    BY DEF PageTypes, Frames
  <2>2. up' = up \/ /\ currentRoom # NoRoom
                    /\ up' = Append(up, [type |-> "leave", room |-> currentRoom])
    BY DEF SelectRoom
  <2> QED BY <2>1, <2>2 DEF SelectRoom, WireTypes
<1>2. SelectionTypes'
  <2>1. [room |-> r, at |-> "keys", rows |-> {}, first |-> NoMessage, size |-> 0] \in Loads
    BY Bounds DEF Loads, NoMessage
  <2> QED BY <2>1, Bounds DEF SelectRoom, SelectionTypes
<1>3. PagingTypes'
  BY Bounds DEF SelectRoom, PagingTypes, NoMessage
<1>4. hasty' \in BOOLEAN
  BY DEF SelectRoom, WhatHappened
<1>5. PageTypes' /\ WellFounded'
  BY DEF SelectRoom, server, PageTypes, WellFounded
<1>6. ServerTypes' /\ OlderTypes' /\ DocumentTypes' /\ WhatHappened'
  BY <1>4 DEF SelectRoom, server, document, ServerTypes, OlderTypes, DocumentTypes, WhatHappened
<1> QED BY <1>1, <1>2, <1>3, <1>5, <1>6

\* One of the selections moves on.
LEMMA SelectionMoves ==
  ASSUME Typed, NEW n \in DOMAIN selections, NEW load \in Loads,
         selections' = [selections EXCEPT ![n] = load]
  PROVE  SelectionTypes'
BY DEF Typed, SelectionTypes

LEMMA KeysLoadedTyped ==
  ASSUME Typed, NEW n \in DOMAIN selections, KeysLoaded(n) PROVE Typed'
<1> DEFINE r == selections[n].room
           frame == [type |-> "join", room |-> r]
<1> USE DEF Typed
<1>1. WireTypes'
  <2>1. frame \in Frames
    BY SelectionType DEF Frames
  <2>2. up' = up \/ up' = Append(up, frame)
    BY DEF KeysLoaded
  <2> QED BY <2>1, <2>2 DEF KeysLoaded, WireTypes
<1>2. SelectionTypes'
  <2>1. \E a \in {"history", "done"} :
           selections' = [selections EXCEPT ![n] = [selections[n] EXCEPT !.at = a]]
    BY DEF KeysLoaded, loadMessages
  <2>2. \A a \in {"history", "done"} : [selections[n] EXCEPT !.at = a] \in Loads
    BY SelectionType DEF Loads
  <2> QED BY <2>1, <2>2, SelectionMoves
<1>3. PagingTypes'
  <2>1. /\ isLoadingMessages' = TRUE /\ hasOlderMessages' = TRUE
        /\ lastMessageId' = 0 /\ oldestMessageId' = 0
    BY DEF KeysLoaded, loadMessages, NoMessage
  <2>2. isLoadingMessages' \in BOOLEAN /\ hasOlderMessages' \in BOOLEAN
    BY <2>1, Zenon
  <2> QED BY <2>1, <2>2, Bounds DEF PagingTypes
<1>4. OlderTypes'
  BY DEF KeysLoaded, OlderTypes, OlderLoads
<1>5. DocumentTypes'
  BY DEF KeysLoaded, DocumentTypes
<1>6. ServerTypes' /\ PageTypes' /\ WhatHappened' /\ WellFounded'
  BY DEF KeysLoaded, server, ServerTypes, PageTypes, WhatHappened, WellFounded
<1> QED BY <1>1, <1>2, <1>3, <1>4, <1>5, <1>6

\* Rows as get_messages returns them.
LEMMA RowsTyped ==
  ASSUME Typed, NEW S \in SUBSET (DOMAIN messages)
  PROVE  /\ get_messages(S) \subseteq Rows
         /\ IsFiniteSet(get_messages(S)) /\ Cardinality(get_messages(S)) \in 0 .. MaxMessages
         /\ \A x \in get_messages(S) : x.id \in S
<1>1. messages \in Seq(Messages) /\ Len(messages) \in Nat /\ Len(messages) <= MaxMessages
  BY DEF Typed, ServerTypes
<1>2. Newest(S) \subseteq 1 .. Len(messages)
  BY <1>1 DEF Newest
<1>3. \A i \in Newest(S) : Row(i) \in Rows /\ Row(i).id = i
  <2> SUFFICES ASSUME NEW i \in Newest(S) PROVE Row(i) \in Rows /\ Row(i).id = i
    OBVIOUS
  <2>1. i \in Ids /\ messages[i].content \in Contents
    BY StoredIds DEF Newest
  <2> QED BY <2>1 DEF Row, Rows
<1>4. IsFiniteSet(Newest(S)) /\ Cardinality(Newest(S)) <= Len(messages)
  <2>1. IsFiniteSet(1 .. Len(messages)) /\ Cardinality(1 .. Len(messages)) = Len(messages)
    BY <1>1, FS_Interval
  <2> QED BY <1>2, <2>1, FS_Subset
<1> DEFINE f == [i \in Newest(S) |-> Row(i)]
<1>5. f \in Surjection(Newest(S), get_messages(S))
  BY DEF Surjection, get_messages
<1> HIDE DEF f
<1>6. Cardinality(get_messages(S)) <= Cardinality(Newest(S)) /\ IsFiniteSet(get_messages(S))
  BY <1>4, <1>5, FS_Surjection
<1>7. Cardinality(get_messages(S)) \in 0 .. MaxMessages
  BY <1>1, <1>4, <1>6, FS_CardinalityType, Bounds
<1> QED BY <1>3, <1>6, <1>7 DEF get_messages, Newest

\* The end of a load.
LEMMA LoadedTyped ==
  ASSUME Typed, NEW n \in DOMAIN selections, NEW last \in 0 .. MaxMessages, Loaded(n, last)
  PROVE  reads' \subseteq [room : Rooms, id : Ids] /\ isLoadingMessages' \in BOOLEAN
<1>1. reads \subseteq [room : Rooms, id : Ids]
  BY DEF Typed, WireTypes
<1>2. last # 0 => [room |-> selections[n].room, id |-> last] \in [room : Rooms, id : Ids]
  BY SelectionType, Bounds DEF Ids
<1>3. reads' = reads \/ (last # 0 /\ reads' = reads \cup {[room |-> selections[n].room, id |-> last]})
  BY DEF Loaded, markRoomAsRead, NoMessage
<1>4. isLoadingMessages' \in BOOLEAN
  BY DEF Loaded
<1> QED BY <1>1, <1>2, <1>3, <1>4

LEMMA StoredTyped ==
  ASSUME Typed, NEW r PROVE Stored(r) \subseteq DOMAIN messages /\ Stored(r) \subseteq Ids
BY StoredIds DEF Stored

LEMMA ServeHistoryTyped ==
  ASSUME Typed, NEW n \in DOMAIN selections, ServeHistory(n) PROVE Typed'
<1> DEFINE S == Stored(selections[n].room)
           rows == get_messages(S)
<1> USE DEF Typed
<1>1. S \subseteq Ids /\ rows \subseteq Rows /\ Cardinality(rows) \in 0 .. MaxMessages
  BY StoredTyped, RowsTyped
<1>2. \/ /\ selections' = [selections EXCEPT ![n] = [selections[n] EXCEPT !.at = "done"]]
         /\ hasOlderMessages' = FALSE /\ Loaded(n, lastMessageId)
      \/ /\ selections' = [selections EXCEPT ![n] =
               [selections[n] EXCEPT !.at = "rows", !.rows = rows, !.size = Cardinality(rows)]]
         /\ UNCHANGED <<hasOlderMessages, isLoadingMessages, reads>>
  BY DEF ServeHistory
<1>3. SelectionTypes'
  <2>1. /\ [selections[n] EXCEPT !.at = "done"] \in Loads
        /\ [selections[n] EXCEPT !.at = "rows", !.rows = rows, !.size = Cardinality(rows)] \in Loads
    BY <1>1, SelectionType DEF Loads
  <2> QED BY <1>2, <2>1, SelectionMoves
<1>4. /\ reads' \subseteq [room : Rooms, id : Ids]
      /\ isLoadingMessages' \in BOOLEAN /\ hasOlderMessages' \in BOOLEAN
  <2>1. lastMessageId \in 0 .. MaxMessages
    BY DEF PagingTypes
  <2> QED BY <1>2, <2>1, LoadedTyped DEF PagingTypes, WireTypes
<1>5. WireTypes' /\ PagingTypes'
  BY <1>4 DEF ServeHistory, WireTypes, PagingTypes
<1>6. WhatHappened'
  BY <1>1 DEF ServeHistory, WhatHappened
<1>7. ServerTypes' /\ PageTypes' /\ OlderTypes' /\ DocumentTypes' /\ WellFounded'
  BY DEF ServeHistory, server, document, ServerTypes, PageTypes, OlderTypes, DocumentTypes,
         WellFounded
<1> QED BY <1>3, <1>5, <1>6, <1>7

LEMMA HistoryFailsTyped ==
  ASSUME Typed, NEW n \in DOMAIN selections, HistoryFails(n) PROVE Typed'
<1> USE DEF Typed
<1>1. SelectionTypes'
  <2>1. [selections[n] EXCEPT !.at = "done"] \in Loads
    BY SelectionType DEF Loads
  <2>2. selections' = [selections EXCEPT ![n] = [selections[n] EXCEPT !.at = "done"]]
    BY DEF HistoryFails
  <2> QED BY <2>1, <2>2, SelectionMoves
<1>2. reads' \subseteq [room : Rooms, id : Ids] /\ isLoadingMessages' \in BOOLEAN
  <2>1. lastMessageId \in 0 .. MaxMessages /\ Loaded(n, lastMessageId)
    BY DEF PagingTypes, HistoryFails
  <2> QED BY <2>1, LoadedTyped
<1>3. WireTypes' /\ PagingTypes'
  BY <1>2 DEF HistoryFails, WireTypes, PagingTypes
<1>4. unheard' \subseteq Ids /\ drops' \in 0 .. MaxDrops
  BY StoredTyped, Bounds DEF HistoryFails, WhatHappened
<1>5. WhatHappened'
  BY <1>4 DEF HistoryFails, WhatHappened
<1>6. ServerTypes' /\ PageTypes' /\ OlderTypes' /\ DocumentTypes' /\ WellFounded'
  BY DEF HistoryFails, server, document, ServerTypes, PageTypes, OlderTypes, DocumentTypes,
         WellFounded
<1> QED BY <1>1, <1>3, <1>5, <1>6

\* A row that is displayed: an element, and a new last one.
LEMMA RowShown ==
  ASSUME Typed, NEW m \in Rows
  PROVE  /\ [id |-> m.id, text |-> m.text, live |-> FALSE] \in Elements
         /\ m.id \in Ids /\ m.id \in 0 .. MaxMessages
         /\ Larger(lastMessageId, m.id) \in 0 .. MaxMessages
<1>1. m.id \in Ids /\ m.text \in Contents \cup {Hidden}
  BY DEF Rows
<1>2. lastMessageId \in 0 .. MaxMessages /\ m.id \in 0 .. MaxMessages
  BY <1>1, Bounds DEF Typed, PagingTypes, Ids
<1> QED BY <1>1, <1>2 DEF Elements, Larger

LEMMA ShowRowTyped ==
  ASSUME Typed, NEW n \in DOMAIN selections, NEW m \in selections[n].rows, ShowRow(n, m)
  PROVE  Typed'
<1> DEFINE load == selections[n]
           rest == load.rows \ {m}
           e == [id |-> m.id, text |-> m.text, live |-> FALSE]
<1> USE DEF Typed
<1>1. m \in Rows /\ load \in Loads /\ load.first \in 0 .. MaxMessages /\ rest \subseteq Rows
  BY SelectionType
<1>2. /\ e \in Elements /\ m.id \in Ids /\ m.id \in 0 .. MaxMessages
      /\ lastMessageId' \in 0 .. MaxMessages
  BY <1>1, RowShown DEF ShowRow
<1>3. FirstOf(load, m) \in 0 .. MaxMessages
  BY <1>1, <1>2 DEF FirstOf
<1>4. \/ /\ selections' = [selections EXCEPT ![n] =
                [load EXCEPT !.rows = rest, !.first = FirstOf(load, m)]]
         /\ UNCHANGED <<oldestMessageId, hasOlderMessages, isLoadingMessages, reads>>
      \/ /\ selections' = [selections EXCEPT ![n] = [load EXCEPT !.at = "done", !.rows = {}]]
         /\ oldestMessageId' = FirstOf(load, m)
         /\ hasOlderMessages' = (load.size >= PageSize)
         /\ Loaded(n, lastMessageId')
  BY DEF ShowRow
<1>5. SelectionTypes'
  <2>1. /\ [load EXCEPT !.rows = rest, !.first = FirstOf(load, m)] \in Loads
        /\ [load EXCEPT !.at = "done", !.rows = {}] \in Loads
    BY <1>1, <1>3 DEF Loads
  <2> QED BY <1>4, <2>1, SelectionMoves
<1>6. /\ reads' \subseteq [room : Rooms, id : Ids] /\ isLoadingMessages' \in BOOLEAN
      /\ oldestMessageId' \in 0 .. MaxMessages /\ hasOlderMessages' \in BOOLEAN
  <2>1. CASE UNCHANGED <<oldestMessageId, hasOlderMessages, isLoadingMessages, reads>>
    BY <2>1 DEF PagingTypes, WireTypes
  <2>2. CASE /\ oldestMessageId' = FirstOf(load, m)
             /\ hasOlderMessages' = (load.size >= PageSize)
             /\ Loaded(n, lastMessageId')
    <3>1. reads' \subseteq [room : Rooms, id : Ids] /\ isLoadingMessages' \in BOOLEAN
      BY <1>2, <2>2, LoadedTyped
    <3>2. hasOlderMessages' \in BOOLEAN
      BY <2>2
    <3> QED BY <1>3, <2>2, <3>1, <3>2
  <2> QED BY <1>4, <2>1, <2>2
<1>7. WireTypes' /\ PagingTypes'
  BY <1>2, <1>6 DEF ShowRow, WireTypes, PagingTypes
<1>8. DocumentTypes'
  <2>1. view' = Append(view, e) /\ shown' = shown \cup {m.id}
    BY DEF ShowRow
  <2> QED BY <1>2, <2>1 DEF ShowRow, DocumentTypes
<1>9. ServerTypes' /\ PageTypes' /\ OlderTypes' /\ WhatHappened' /\ WellFounded'
  BY DEF ShowRow, server, ServerTypes, PageTypes, OlderTypes, WhatHappened, WellFounded
<1> QED BY <1>5, <1>7, <1>8, <1>9

LEMMA NotOlderTyped == NotOlder \in OlderLoads
BY Bounds DEF NotOlder, NoMessage, OlderLoads

LEMMA LoadOlderTyped ==
  ASSUME Typed, LoadOlder PROVE Typed'
<1> USE DEF Typed
<1>1. OlderTypes'
  <2>1. older' = [NotOlder EXCEPT !.at = "asked", !.room = currentRoom, !.before = oldestMessageId]
    BY DEF LoadOlder
  <2>2. currentRoom \in Rooms \cup {NoRoom} /\ oldestMessageId \in 0 .. MaxMessages
    BY DEF PageTypes, PagingTypes
  <2> QED BY <2>1, <2>2, NotOlderTyped DEF OlderTypes, OlderLoads
<1>2. isLoadingMessages' \in BOOLEAN
  BY DEF LoadOlder
<1>3. PagingTypes'
  BY <1>2 DEF LoadOlder, PagingTypes
<1>4. /\ ServerTypes' /\ WireTypes' /\ PageTypes' /\ SelectionTypes' /\ DocumentTypes'
      /\ WhatHappened' /\ WellFounded'
  BY DEF LoadOlder, server, wire, document, ServerTypes, WireTypes, PageTypes,
         SelectionTypes, DocumentTypes, WhatHappened, WellFounded
<1> QED BY <1>1, <1>3, <1>4

LEMMA OlderFailsTyped ==
  ASSUME Typed, OlderFails PROVE Typed'
<1> USE DEF Typed
<1>1. OlderTypes'
  BY NotOlderTyped DEF OlderFails, OlderTypes
<1>2. isLoadingMessages' \in BOOLEAN
  BY DEF OlderFails
<1>3. drops' \in 0 .. MaxDrops
  BY Bounds DEF OlderFails, WhatHappened
<1>4. PagingTypes' /\ WhatHappened'
  BY <1>2, <1>3 DEF OlderFails, PagingTypes, WhatHappened
<1>5. /\ ServerTypes' /\ WireTypes' /\ PageTypes' /\ SelectionTypes' /\ DocumentTypes'
      /\ WellFounded'
  BY DEF OlderFails, server, wire, document, ServerTypes, WireTypes, PageTypes,
         SelectionTypes, DocumentTypes, WellFounded
<1> QED BY <1>1, <1>4, <1>5

LEMMA ServeOlderTyped ==
  ASSUME Typed, ServeOlder PROVE Typed'
<1> DEFINE S == {i \in Stored(older.room) : i < older.before}
           rows == get_messages(S)
<1> USE DEF Typed
<1>1. rows \subseteq Rows /\ Cardinality(rows) \in 0 .. MaxMessages
  BY StoredTyped, RowsTyped
<1> HIDE DEF rows
<1>2. \/ /\ older' = NotOlder
         /\ hasOlderMessages' = FALSE /\ isLoadingMessages' = FALSE
      \/ /\ \E a \in {"none", "first"} :
               older' = [older EXCEPT !.at = "rows", !.rows = rows,
                                      !.size = Cardinality(rows), !.anchor = a]
         /\ UNCHANGED <<hasOlderMessages, isLoadingMessages>>
  BY DEF ServeOlder, rows
<1>3. OlderTypes'
  <2>1. older \in OlderLoads
    BY DEF OlderTypes
  <2>2. \A a \in {"none", "first"} :
           [older EXCEPT !.at = "rows", !.rows = rows, !.size = Cardinality(rows),
                         !.anchor = a] \in OlderLoads
    BY <1>1, <2>1 DEF OlderLoads
  <2> QED BY <1>2, <2>2, NotOlderTyped DEF OlderTypes
<1>4. hasOlderMessages' \in BOOLEAN /\ isLoadingMessages' \in BOOLEAN
  BY <1>2 DEF PagingTypes
<1>5. PagingTypes'
  BY <1>4 DEF ServeOlder, PagingTypes
<1>6. /\ ServerTypes' /\ WireTypes' /\ PageTypes' /\ SelectionTypes' /\ DocumentTypes'
      /\ WhatHappened' /\ WellFounded'
  BY DEF ServeOlder, server, wire, document, ServerTypes, WireTypes, PageTypes,
         SelectionTypes, DocumentTypes, WhatHappened, WellFounded
<1> QED BY <1>3, <1>5, <1>6

LEMMA ShowOlderTyped ==
  ASSUME Typed, OlderFits, NEW m \in older.rows, ShowOlder(m) PROVE Typed'
<1> DEFINE rest == older.rows \ {m}
           e == [id |-> m.id, text |-> m.text, live |-> FALSE]
           at == IF older.anchor = "none" THEN Len(view) + 1 ELSE older.inserted + 1
<1> USE DEF Typed
<1>1. /\ older \in OlderLoads /\ older.rows \subseteq Rows /\ m \in Rows
      /\ older.first \in 0 .. MaxMessages /\ older.inserted \in 0 .. MaxMessages
      /\ view \in Seq(Elements)
  BY DEF OlderTypes, OlderLoads, DocumentTypes
<1>2. /\ e \in Elements /\ m.id \in Ids /\ m.id \in 0 .. MaxMessages
      /\ lastMessageId' \in 0 .. MaxMessages
  BY <1>1, RowShown DEF ShowOlder
<1>3. FirstOf(older, m) \in 0 .. MaxMessages
  BY <1>1, <1>2 DEF FirstOf
<1>4. at \in 1 .. Len(view) + 1
  BY <1>1 DEF ShowOlder, OlderFits, OlderLoads
<1>5. view' \in Seq(Elements)
  BY <1>1, <1>2, <1>4, InsertAtProperties DEF ShowOlder
<1>6. older.inserted + 1 \in 0 .. MaxMessages
  <2>1. Cardinality(older.rows) \in Nat /\ Cardinality(older.rows) # 0
    BY FS_EmptySet, FS_CardinalityType DEF OlderFits
  <2> QED BY <1>1, <2>1, Bounds DEF OlderFits
<1>7. \/ /\ older' = [older EXCEPT !.rows = rest, !.inserted = @ + 1, !.first = FirstOf(older, m)]
         /\ UNCHANGED <<oldestMessageId, hasOlderMessages, isLoadingMessages>>
      \/ /\ older' = NotOlder
         /\ oldestMessageId' = FirstOf(older, m)
         /\ hasOlderMessages' = (older.size >= PageSize)
         /\ isLoadingMessages' = FALSE
  BY DEF ShowOlder
<1>8. OlderTypes'
  <2>1. [older EXCEPT !.rows = rest, !.inserted = @ + 1, !.first = FirstOf(older, m)] \in OlderLoads
    BY <1>1, <1>3, <1>6 DEF OlderLoads
  <2> QED BY <1>7, <2>1, NotOlderTyped DEF OlderTypes
<1>9. /\ oldestMessageId' \in 0 .. MaxMessages
      /\ hasOlderMessages' \in BOOLEAN /\ isLoadingMessages' \in BOOLEAN
  <2>1. CASE UNCHANGED <<oldestMessageId, hasOlderMessages, isLoadingMessages>>
    BY <2>1 DEF PagingTypes
  <2>2. CASE /\ oldestMessageId' = FirstOf(older, m)
             /\ hasOlderMessages' = (older.size >= PageSize)
             /\ isLoadingMessages' = FALSE
    <3>1. hasOlderMessages' \in BOOLEAN
      BY <2>2
    <3>2. isLoadingMessages' \in BOOLEAN
      BY <2>2, Zenon
    <3> QED BY <1>3, <2>2, <3>1, <3>2
  <2> QED BY <1>7, <2>1, <2>2
<1>10. PagingTypes'
  BY <1>2, <1>9 DEF PagingTypes
<1>11. DocumentTypes'
  <2>1. shown' = shown \cup {m.id}
    BY DEF ShowOlder
  <2> QED BY <1>2, <1>5, <2>1 DEF ShowOlder, DocumentTypes
<1>12. /\ ServerTypes' /\ WireTypes' /\ PageTypes' /\ SelectionTypes'
       /\ WhatHappened' /\ WellFounded'
  BY DEF ShowOlder, server, wire, ServerTypes, WireTypes, PageTypes, SelectionTypes,
         WhatHappened, WellFounded
<1> QED BY <1>8, <1>10, <1>11, <1>12

\* A new text changes neither the ids nor the order of the elements.
LEMMA SetTextTyped ==
  ASSUME view \in Seq(Elements), NEW i, NEW text \in Contents \cup {Hidden}, SetText(i, text)
  PROVE  /\ view' \in Seq(Elements) /\ Len(view') = Len(view)
         /\ \A p \in DOMAIN view : view'[p].id = view[p].id /\ view'[p].live = view[p].live
<1>1. CASE view' = view
  BY <1>1
<1>2. ASSUME NEW p, view' = [view EXCEPT ![p].text = text]
      PROVE  /\ view' \in Seq(Elements) /\ Len(view') = Len(view)
             /\ \A q \in DOMAIN view : view'[q].id = view[q].id /\ view'[q].live = view[q].live
  <2>1. \A q \in DOMAIN view : view'[q] = IF q = p THEN [view[q] EXCEPT !.text = text] ELSE view[q]
    BY <1>2
  <2>2. \A q \in DOMAIN view : view[q] \in Elements
    OBVIOUS
  <2>3. \A q \in DOMAIN view :
           view'[q] \in Elements /\ view'[q].id = view[q].id /\ view'[q].live = view[q].live
    BY <2>1, <2>2 DEF Elements
  <2>4. DOMAIN view' = DOMAIN view /\ DOMAIN view = 1 .. Len(view) /\ Len(view) \in Nat
    BY <1>2
  <2>5. view' = [q \in 1 .. Len(view) |-> view'[q]]
    BY <1>2, <2>4
  <2>6. view' \in Seq(Elements)
    BY <2>3, <2>4, <2>5, IsASeq
  <2> QED BY <2>3, <2>4, <2>6
<1>3. view' = view \/ \E p : view' = [view EXCEPT ![p].text = text]
  BY DEF SetText
<1> QED BY <1>1, <1>2, <1>3

LEMMA DeliverTyped ==
  ASSUME Typed, NEW k \in DOMAIN down, Deliver(k) PROVE Typed'
<1> DEFINE i == down[k].id
<1> USE DEF Typed
<1>1. /\ down[k] \in Events /\ i \in DOMAIN messages /\ i \in Ids
      /\ down[k].content \in Contents /\ messages[i].room \in Rooms
      /\ down[k].type \in {"message", "message_edited", "message_deleted"}
  BY EventIds, StoredIds DEF Events
<1>2. down \in Seq(Events) /\ k \in 1 .. Len(down) /\ view \in Seq(Elements)
  BY DEF WireTypes, DocumentTypes
<1>3. /\ down' \in Seq(Events)
      /\ \A p \in DOMAIN down' : \E q \in DOMAIN down : down'[p] = down[q]
  BY <1>2, RemoveAtProperties DEF Deliver
<1>4. /\ reads' \subseteq [room : Rooms, id : Ids]
      /\ view' \in Seq(Elements) /\ arrivals' \subseteq Ids
      /\ edits' \subseteq [id : Ids, content : Contents]
  <2>1. CASE down[k].type = "message"
    <3>1. [room |-> messages[i].room, id |-> i] \in [room : Rooms, id : Ids]
      BY <1>1
    <3>2. reads' = reads \/ reads' = reads \cup {[room |-> messages[i].room, id |-> i]}
      BY <2>1 DEF Deliver, IsHere, markRoomAsRead
    <3>3. arrivals' \subseteq Ids /\ UNCHANGED <<edits, view>>
      BY <1>1, <2>1 DEF Deliver, DocumentTypes
    <3> QED BY <3>1, <3>2, <3>3 DEF WireTypes, DocumentTypes
  <2>2. CASE down[k].type = "message_edited"
    <3>1. [id |-> i, content |-> down[k].content] \in [id : Ids, content : Contents]
      BY <1>1
    <3>2. /\ edits' = edits \/ edits' = edits \cup {[id |-> i, content |-> down[k].content]}
          /\ UNCHANGED <<arrivals, view, reads>>
      BY <2>2 DEF Deliver
    <3> QED BY <3>1, <3>2 DEF WireTypes, DocumentTypes
  <2>3. CASE down[k].type = "message_deleted"
    <3>1. SetText(i, Hidden) /\ UNCHANGED <<arrivals, edits, reads>>
      BY <2>3 DEF Deliver
    <3> QED BY <1>2, <3>1, SetTextTyped DEF WireTypes, DocumentTypes
  <2> QED BY <1>1, <2>1, <2>2, <2>3
<1>5. WireTypes' /\ DocumentTypes'
  BY <1>3, <1>4 DEF Deliver, WireTypes, DocumentTypes
<1>6. WellFounded'
  <2>1. UNCHANGED <<messages, rejoining, currentRoom>>
    BY DEF Deliver, server
  <2> QED BY <1>3, <2>1 DEF WellFounded
<1>7. /\ ServerTypes' /\ PageTypes' /\ SelectionTypes' /\ PagingTypes' /\ OlderTypes'
      /\ WhatHappened'
  BY DEF Deliver, server, paging, ServerTypes, PageTypes, SelectionTypes, PagingTypes,
         OlderTypes, WhatHappened
<1> QED BY <1>5, <1>6, <1>7

LEMMA ArriveTyped ==
  ASSUME Typed, NEW i \in arrivals, Arrive(i) PROVE Typed'
<1> DEFINE e == [id |-> i, text |-> 0, live |-> TRUE]
<1> USE DEF Typed
<1>1. i \in Ids /\ i \in 0 .. MaxMessages
  BY Bounds DEF DocumentTypes, Ids
<1>2. e \in Elements
  BY <1>1, Bounds DEF Elements, Contents
<1>3. DocumentTypes'
  <2>1. view' = Append(view, e) /\ shown' = shown \cup {i} /\ arrivals' = arrivals \ {i}
    BY DEF Arrive
  <2> QED BY <1>1, <1>2, <2>1 DEF Arrive, DocumentTypes
<1>4. PagingTypes'
  BY <1>1 DEF Arrive, Larger, PagingTypes
<1>5. /\ ServerTypes' /\ WireTypes' /\ PageTypes' /\ SelectionTypes' /\ OlderTypes'
      /\ WhatHappened' /\ WellFounded'
  BY DEF Arrive, server, wire, ServerTypes, WireTypes, PageTypes, SelectionTypes,
         OlderTypes, WhatHappened, WellFounded
<1> QED BY <1>3, <1>4, <1>5

LEMMA ApplyEditTyped ==
  ASSUME Typed, NEW x \in edits, ApplyEdit(x) PROVE Typed'
<1> USE DEF Typed
<1>1. view \in Seq(Elements) /\ x.content \in Contents
  BY DEF DocumentTypes
<1>2. view' \in Seq(Elements)
  BY <1>1, SetTextTyped DEF ApplyEdit
<1>3. DocumentTypes'
  BY <1>2 DEF ApplyEdit, DocumentTypes
<1>4. /\ ServerTypes' /\ WireTypes' /\ PageTypes' /\ SelectionTypes' /\ PagingTypes'
      /\ OlderTypes' /\ WhatHappened' /\ WellFounded'
  BY DEF ApplyEdit, server, wire, paging, ServerTypes, WireTypes, PageTypes, SelectionTypes,
         PagingTypes, OlderTypes, WhatHappened, WellFounded
<1> QED BY <1>3, <1>4

\* The connection.
LEMMA ConnectionTyped ==
  ASSUME Typed, Disconnect \/ Reconnect \/ Rejoin PROVE Typed'
<1> USE DEF Typed
<1>1. /\ SelectionTypes' /\ PagingTypes' /\ OlderTypes' /\ DocumentTypes'
  BY DEF Disconnect, Reconnect, Rejoin, paging, document, SelectionTypes, PagingTypes,
         OlderTypes, DocumentTypes
<1>2. CASE Disconnect
  <2>1. \A k \in DOMAIN down : down[k].id \in Ids
    BY EventIds, StoredIds
  <2>2. unheard' \subseteq Ids /\ drops' \in 0 .. MaxDrops
    BY <1>2, <2>1, Bounds DEF Disconnect, WhatHappened
  <2>3. online' \in BOOLEAN /\ UNCHANGED <<currentRoom, rejoining>>
    BY <1>2 DEF Disconnect
  <2>4. ServerTypes' /\ WireTypes'
    BY <1>2 DEF Disconnect, ServerTypes, WireTypes
  <2>5. PageTypes' /\ WhatHappened' /\ WellFounded'
    BY <1>2, <2>2, <2>3 DEF Disconnect, PageTypes, WhatHappened, WellFounded
  <2> QED BY <1>1, <2>4, <2>5
<1>3. CASE Reconnect
  <2>1. online' \in BOOLEAN /\ rejoining' \in BOOLEAN /\ currentRoom' = currentRoom
    BY <1>3 DEF Reconnect, PageTypes
  <2>2. PageTypes' /\ WellFounded'
    BY <1>3, <2>1 DEF Reconnect, wire, server, PageTypes, WellFounded
  <2>3. ServerTypes' /\ WireTypes' /\ WhatHappened'
    BY <1>3 DEF Reconnect, server, wire, ServerTypes, WireTypes, WhatHappened
  <2> QED BY <1>1, <2>2, <2>3
<1>4. CASE Rejoin
  <2>1. [type |-> "join", room |-> currentRoom] \in Frames
    BY <1>4 DEF Rejoin, WellFounded, Frames
  <2>2. up' = up \/ up' = Append(up, [type |-> "join", room |-> currentRoom])
    BY <1>4 DEF Rejoin
  <2>3. rejoining' \in BOOLEAN /\ ~rejoining' /\ UNCHANGED <<currentRoom, online>>
    BY <1>4 DEF Rejoin
  <2>4. WireTypes'
    BY <1>4, <2>1, <2>2 DEF Rejoin, WireTypes
  <2>5. ServerTypes' /\ PageTypes' /\ WhatHappened' /\ WellFounded'
    BY <1>4, <2>3 DEF Rejoin, server, ServerTypes, PageTypes, WhatHappened, WellFounded
  <2> QED BY <1>1, <2>4, <2>5
<1> QED BY <1>2, <1>3, <1>4

LEMMA StutterTyped ==
  ASSUME Typed, UNCHANGED vars PROVE Typed'
BY DEF vars, server, wire, paging, document, Typed, ServerTypes, WireTypes, PageTypes,
       SelectionTypes, PagingTypes, OlderTypes, DocumentTypes, WhatHappened, WellFounded

LEMMA StepTyped ==
  ASSUME Typed, OlderFits, [Next]_vars PROVE Typed'
<1>1. CASE ServerStep
  BY <1>1, ServeFrameTyped, ServeOlderTyped, ServeReadTyped, ServeHistoryTyped DEF ServerStep
<1>2. CASE PageStep
  BY <1>2, KeysLoadedTyped, ShowRowTyped, ShowOlderTyped, DeliverTyped, ArriveTyped,
     ApplyEditTyped, ConnectionTyped DEF PageStep
<1>3. CASE UserStep
  BY <1>3, PostTyped, SelectRoomTyped, ChangeTyped, LoadOlderTyped DEF UserStep
<1>4. CASE Mishap
  BY <1>4, HistoryFailsTyped, OlderFailsTyped, ConnectionTyped DEF Mishap
<1>5. CASE UNCHANGED vars
  BY <1>5, StutterTyped
<1> QED BY <1>1, <1>2, <1>3, <1>4, <1>5 DEF Next

-----------------------------------------------------------------------------
(* The order of the pages.  First the steps that bring no page: the        *)
(* elements that pages brought stay where they are, and what is live comes *)
(* below.                                                                  *)

LEMMA NoPage ==
  ASSUME Order, UNCHANGED <<selections, older, oldestMessageId, isLoadingMessages>>,
         Historic' = Historic, Len(view') >= Len(view), Len(view) \in Nat, Len(view') \in Nat,
         \A p \in Historic : view'[p].id = view[p].id,
         Typed
  PROVE  Order'
<1> USE DEF Order
<1>1. \A p \in DOMAIN view : ~view[p].live <=> p \in Historic
  BY DEF Historic
<1>2. \A p \in DOMAIN view' : ~view'[p].live <=> p \in Historic'
  BY DEF Historic
<1>3. Historic \subseteq DOMAIN view /\ Historic' \subseteq DOMAIN view'
  BY DEF Historic
<1>4. OlderFits'
  <2>1. older.inserted \in 0 .. MaxMessages
    BY DEF Typed, OlderTypes, OlderLoads
  <2> QED BY <2>1, Bounds DEF OlderFits
<1>5. Exclusive'
  BY DEF Exclusive, Runs
<1>6. HistoryInOrder'
  BY <1>1, <1>2, <1>3 DEF HistoryInOrder
<1>7. HistoryGrowsDown'
  BY <1>1, <1>2, <1>3 DEF HistoryGrowsDown, AllFrom
<1>8. OlderGoesAbove'
  BY <1>1, <1>2, <1>3 DEF OlderGoesAbove, AllFrom
<1>9. OldestIsFirst'
  BY DEF OldestIsFirst, Runs, AllFrom
<1> QED BY <1>4, <1>5, <1>6, <1>7, <1>8, <1>9

LEMMA ViewLength ==
  ASSUME Typed PROVE Len(view) \in Nat /\ DOMAIN view = 1 .. Len(view) /\ view \in Seq(Elements)
BY DEF Typed, DocumentTypes

LEMMA ViewIds ==
  ASSUME Typed, NEW p \in DOMAIN view PROVE view[p].id \in Ids
<1>1. view[p] \in Elements
  BY ViewLength
<1> QED BY <1>1 DEF Elements

LEMMA SameViewOrder ==
  ASSUME Typed, Order, UNCHANGED <<selections, older, oldestMessageId, isLoadingMessages, view>>
  PROVE  Order'
<1>1. Historic' = Historic
  BY DEF Historic
<1> QED BY <1>1, NoPage, ViewLength

LEMMA SetTextOrder ==
  ASSUME Typed, Order, NEW i, NEW text \in Contents \cup {Hidden}, SetText(i, text),
         UNCHANGED <<selections, older, oldestMessageId, isLoadingMessages>>
  PROVE  Order'
<1>1. /\ view' \in Seq(Elements) /\ Len(view') = Len(view)
      /\ \A p \in DOMAIN view : view'[p].id = view[p].id /\ view'[p].live = view[p].live
  BY ViewLength, SetTextTyped
<1>2. DOMAIN view' = DOMAIN view
  BY <1>1, ViewLength
<1>3. Historic' = Historic
  BY <1>1, <1>2 DEF Historic
<1> QED BY <1>1, <1>3, NoPage, ViewLength DEF Historic

LEMMA ArriveOrder ==
  ASSUME Typed, Order, NEW i \in arrivals, Arrive(i) PROVE Order'
<1> DEFINE e == [id |-> i, text |-> 0, live |-> TRUE]
<1>1. /\ view' = Append(view, e) /\ view \in Seq(Elements)
      /\ UNCHANGED <<selections, older, oldestMessageId, isLoadingMessages>>
  BY ViewLength DEF Arrive
<1>2. /\ Len(view') = Len(view) + 1 /\ DOMAIN view' = 1 .. Len(view) + 1
      /\ \A p \in 1 .. Len(view) : view'[p] = view[p]
      /\ view'[Len(view) + 1] = e
  BY <1>1
<1>3. Historic' = Historic
  <2>1. e.live = TRUE
    OBVIOUS
  <2>2. DOMAIN view' = DOMAIN view \cup {Len(view) + 1}
    BY <1>2, ViewLength
  <2> QED BY <1>2, <2>1, <2>2, ViewLength DEF Historic
<1> QED BY <1>1, <1>2, <1>3, NoPage, ViewLength DEF Historic

LEMMA DeliverOrder ==
  ASSUME Typed, Order, NEW k \in DOMAIN down, Deliver(k) PROVE Order'
<1>1. UNCHANGED <<selections, older, oldestMessageId, isLoadingMessages>>
  BY DEF Deliver, paging
<1>2. down[k].type \in {"message", "message_edited", "message_deleted"}
  BY EventIds DEF Events
<1>3. UNCHANGED view \/ SetText(down[k].id, Hidden)
  BY <1>2 DEF Deliver
<1> QED BY <1>1, <1>3, SameViewOrder, SetTextOrder

LEMMA ApplyEditOrder ==
  ASSUME Typed, Order, NEW x \in edits, ApplyEdit(x) PROVE Order'
<1>1. x.content \in Contents
  BY DEF Typed, DocumentTypes
<1> QED BY <1>1, SetTextOrder DEF ApplyEdit, paging

LEMMA ElsewhereOrder ==
  ASSUME Typed, Order,
         \/ \E r \in Rooms : Post(r)
         \/ \E i \in DOMAIN messages : EditMessage(i) \/ DeleteMessage(i)
         \/ ServeFrame \/ \E x \in reads : ServeRead(x)
         \/ Disconnect \/ Reconnect \/ Rejoin \/ UNCHANGED vars
  PROVE  Order'
<1>1. UNCHANGED <<selections, older, oldestMessageId, isLoadingMessages, view>>
  BY DEF Post, EditMessage, DeleteMessage, ServeFrame, ServeRead, Disconnect, Reconnect,
         Rejoin, vars, paging, document
<1> QED BY <1>1, SameViewOrder

-----------------------------------------------------------------------------
(* The steps of the loads.                                                 *)

\* What a step that moves one selection does to the selections.
LEMMA Moved ==
  ASSUME Typed, NEW n \in DOMAIN selections, NEW load,
         selections' = [selections EXCEPT ![n] = load]
  PROVE  /\ DOMAIN selections' = DOMAIN selections
         /\ selections'[n] = load
         /\ \A k \in DOMAIN selections : k # n => selections'[k] = selections[k]
BY DEF Typed, SelectionTypes

LEMMA NoRowsFit ==
  ASSUME older' = NotOlder PROVE OlderFits'
BY FS_EmptySet, Bounds DEF OlderFits, NotOlder, NoMessage

LEMMA SelectRoomOrder ==
  ASSUME Typed, Order, NEW r \in Rooms, SelectRoom(r) PROVE Order'
<1> DEFINE load == [room |-> r, at |-> "keys", rows |-> {}, first |-> NoMessage, size |-> 0]
<1> USE DEF Order
<1>1. /\ selections' = Append(selections, load) /\ oldestMessageId' = NoMessage
      /\ UNCHANGED <<view, older, isLoadingMessages>>
  BY DEF SelectRoom, document
<1>2. /\ DOMAIN selections' = DOMAIN selections \cup {Len(selections) + 1}
      /\ Len(selections) + 1 \notin DOMAIN selections
      /\ \A k \in DOMAIN selections : selections'[k] = selections[k]
      /\ selections'[Len(selections) + 1] = load
  BY <1>1 DEF Typed, SelectionTypes
<1>3. load.at = "keys" /\ load.first = NoMessage
  OBVIOUS
<1>4. Historic' = Historic
  BY <1>1 DEF Historic
<1>5. OlderFits' /\ HistoryInOrder' /\ OldestIsFirst'
  BY <1>1 DEF OlderFits, HistoryInOrder, OldestIsFirst
<1>6. Exclusive'
  BY <1>1, <1>2, <1>3 DEF Exclusive, Runs
<1>7. HistoryGrowsDown'
  BY <1>1, <1>2, <1>3, <1>4 DEF HistoryGrowsDown, AllFrom
<1>8. OlderGoesAbove'
  BY <1>1, <1>4 DEF OlderGoesAbove, AllFrom
<1> QED BY <1>5, <1>6, <1>7, <1>8

LEMMA KeysLoadedOrder ==
  ASSUME Typed, Order, NEW n \in DOMAIN selections, KeysLoaded(n) PROVE Order'
<1> DEFINE load == [selections[n] EXCEPT !.at = IF isLoadingMessages THEN "done" ELSE "history"]
<1> USE DEF Order
<1>1. /\ selections' = [selections EXCEPT ![n] = load]
      /\ isLoadingMessages' = TRUE /\ oldestMessageId' = NoMessage
      /\ view' = <<>> /\ selections[n].at = "keys"
      /\ older' = [older EXCEPT !.anchor = IF older.at = "rows" THEN "gone" ELSE @]
  BY DEF KeysLoaded, loadMessages
<1>2. /\ load.at = IF isLoadingMessages THEN "done" ELSE "history"
      /\ load.first = selections[n].first
  BY SelectionType DEF Loads
<1>3. /\ DOMAIN selections' = DOMAIN selections /\ selections'[n] = load
      /\ \A k \in DOMAIN selections : k # n => selections'[k] = selections[k]
  BY <1>1, Moved
<1> HIDE DEF load
<1>4. /\ older'.at = older.at /\ older'.rows = older.rows /\ older'.inserted = older.inserted
      /\ older'.first = older.first /\ older'.before = older.before
      /\ older.at = "rows" => older'.anchor = "gone"
  BY <1>1 DEF Typed, OlderTypes, OlderLoads
<1>5. Historic' = {} /\ HistoryInOrder'
  BY <1>1 DEF Historic, HistoryInOrder
<1>6. OlderFits'
  BY <1>4 DEF OlderFits
<1>7. Exclusive'
  BY <1>1, <1>2, <1>3, <1>4 DEF Exclusive, Runs
<1>8. HistoryGrowsDown'
  BY <1>1, <1>2, <1>3, <1>5 DEF HistoryGrowsDown, AllFrom
<1>9. OlderGoesAbove'
  BY <1>4, <1>5 DEF OlderGoesAbove, AllFrom
<1>10. OldestIsFirst'
  BY <1>1 DEF OldestIsFirst
<1> QED BY <1>5, <1>6, <1>7, <1>8, <1>9, <1>10

\* No two rows of an answer are of one message.
LEMMA RowsDistinct ==
  ASSUME NEW S PROVE \A x, y \in get_messages(S) : x.id = y.id => x = y
BY DEF get_messages, Row

LEMMA ServeHistoryOrder ==
  ASSUME Typed, Order, NEW n \in DOMAIN selections, ServeHistory(n) PROVE Order'
<1> DEFINE rows == get_messages(Stored(selections[n].room))
           done == [selections[n] EXCEPT !.at = "done"]
           load == [selections[n] EXCEPT !.at = "rows", !.rows = rows, !.size = Cardinality(rows)]
<1> USE DEF Order
<1>1. /\ selections[n].at = "history"
      /\ UNCHANGED <<view, older, oldestMessageId>>
      /\ \/ selections' = [selections EXCEPT ![n] = done] /\ isLoadingMessages' = FALSE
         \/ selections' = [selections EXCEPT ![n] = load] /\ UNCHANGED isLoadingMessages
  BY DEF ServeHistory, Loaded, document
<1>2. Historic = {} /\ Historic' = {} /\ selections[n].first = NoMessage
  BY <1>1 DEF HistoryGrowsDown, Historic
<1>3. OlderFits' /\ HistoryInOrder' /\ OldestIsFirst' /\ OlderGoesAbove'
  BY <1>1, <1>2 DEF OlderFits, HistoryInOrder, OldestIsFirst, AllFrom, OlderGoesAbove
<1>4. /\ done.at = "done" /\ load.at = "rows" /\ load.first = NoMessage /\ load.rows = rows
  BY <1>2, SelectionType DEF Loads
<1>5. RowsOf(rows, NoMessage)
  <2>1. \A x \in rows : x.id \in Ids
    BY StoredTyped, RowsTyped DEF Rows
  <2> QED BY <2>1, RowsDistinct, Bounds DEF RowsOf, NoMessage, Ids
<1> HIDE DEF rows, load, done
<1>6. CASE selections' = [selections EXCEPT ![n] = done] /\ isLoadingMessages' = FALSE
  <2>1. /\ DOMAIN selections' = DOMAIN selections /\ selections'[n] = done
        /\ \A k \in DOMAIN selections : k # n => selections'[k] = selections[k]
    BY <1>6, Moved
  <2>2. Exclusive'
    BY <1>1, <1>4, <1>6, <2>1 DEF Exclusive, Runs
  <2>3. HistoryGrowsDown'
    BY <1>2, <1>4, <2>1 DEF HistoryGrowsDown, AllFrom
  <2> QED BY <1>3, <2>2, <2>3
<1>7. CASE selections' = [selections EXCEPT ![n] = load] /\ UNCHANGED isLoadingMessages
  <2>1. /\ DOMAIN selections' = DOMAIN selections /\ selections'[n] = load
        /\ \A k \in DOMAIN selections : k # n => selections'[k] = selections[k]
    BY <1>7, Moved
  <2>2. Exclusive'
    BY <1>1, <1>4, <1>7, <2>1 DEF Exclusive, Runs
  <2>3. HistoryGrowsDown'
    BY <1>2, <1>4, <1>5, <2>1 DEF HistoryGrowsDown, AllFrom
  <2> QED BY <1>3, <2>2, <2>3
<1> QED BY <1>1, <1>6, <1>7

LEMMA HistoryFailsOrder ==
  ASSUME Typed, Order, NEW n \in DOMAIN selections, HistoryFails(n) PROVE Order'
<1> DEFINE done == [selections[n] EXCEPT !.at = "done"]
<1> USE DEF Order
<1>1. /\ selections[n].at = "history" /\ UNCHANGED <<view, older, oldestMessageId>>
      /\ selections' = [selections EXCEPT ![n] = done] /\ isLoadingMessages' = FALSE
  BY DEF HistoryFails, Loaded, document
<1>2. Historic = {} /\ Historic' = {}
  BY <1>1 DEF HistoryGrowsDown, Historic
<1>3. OlderFits' /\ HistoryInOrder' /\ OldestIsFirst' /\ OlderGoesAbove'
  BY <1>1, <1>2 DEF OlderFits, HistoryInOrder, OldestIsFirst, AllFrom, OlderGoesAbove
<1>4. done.at = "done"
  BY SelectionType DEF Loads
<1> HIDE DEF done
<1>5. /\ DOMAIN selections' = DOMAIN selections /\ selections'[n] = done
      /\ \A k \in DOMAIN selections : k # n => selections'[k] = selections[k]
  BY <1>1, Moved
<1>6. Exclusive'
  BY <1>1, <1>4, <1>5 DEF Exclusive, Runs
<1>7. HistoryGrowsDown'
  BY <1>2, <1>4, <1>5 DEF HistoryGrowsDown, AllFrom
<1> QED BY <1>3, <1>6, <1>7

LEMMA ShowRowOrder ==
  ASSUME Typed, Order, NEW n \in DOMAIN selections, NEW m \in selections[n].rows, ShowRow(n, m)
  PROVE  Order'
<1> DEFINE load == selections[n]
           rest == load.rows \ {m}
           e == [id |-> m.id, text |-> m.text, live |-> FALSE]
           more == [load EXCEPT !.rows = rest, !.first = FirstOf(load, m)]
           done == [load EXCEPT !.at = "done", !.rows = {}]
           L == Len(view) + 1
           f == FirstOf(load, m)
<1> USE DEF Order
<1>1. /\ load.at = "rows" /\ IsFirst(m, load.rows)
      /\ view' = Append(view, e) /\ UNCHANGED older
      /\ \/ /\ selections' = [selections EXCEPT ![n] = more]
            /\ UNCHANGED <<oldestMessageId, isLoadingMessages>>
         \/ /\ rest = {} /\ selections' = [selections EXCEPT ![n] = done]
            /\ oldestMessageId' = f /\ isLoadingMessages' = FALSE
  BY DEF ShowRow, Loaded
<1>2. /\ load.rows \subseteq Rows /\ \A x \in load.rows : x.id \in Ids
      /\ load.first \in 0 .. MaxMessages /\ load \in Loads
  BY SelectionType DEF Rows
<1>3. /\ more.at = "rows" /\ more.rows = rest /\ more.first = f
      /\ done.at = "done"
  BY <1>1, <1>2 DEF Loads
<1>4. /\ f \in Ids /\ f <= m.id /\ f # NoMessage /\ \A x \in rest : x.id > m.id
      /\ RowsOf(rest, f)
      /\ f = load.first \/ (load.first = NoMessage /\ f = m.id)
  <2>1. RowsOf(load.rows, load.first) /\ m \in load.rows
    BY <1>1 DEF HistoryGrowsDown
  <2>2. \A x \in rest : x.id > m.id
    BY <1>1, <1>2, <2>1, Bounds DEF RowsOf, IsFirst, Ids
  <2> QED BY <1>2, <2>1, <2>2, Bounds DEF RowsOf, FirstOf, NoMessage, Ids
<1>5. /\ \A p \in Historic : view[p].id < m.id
      /\ IF load.first = NoMessage THEN Historic = {} ELSE AllFrom(load.first)
      /\ \A p \in Historic : view[p].id \in Ids
  <2> QED BY <1>1, ViewIds DEF HistoryGrowsDown, Historic
<1>6. /\ DOMAIN view = 1 .. L - 1 /\ DOMAIN view' = 1 .. L /\ Len(view') = L /\ L \in Nat
      /\ \A p \in DOMAIN view : view'[p] = view[p]
      /\ view'[L].id = m.id /\ view'[L].live = FALSE
  BY <1>1, ViewLength
<1>7. Historic' = Historic \cup {L} /\ Historic \subseteq 1 .. L - 1
  <2>1. DOMAIN view' = DOMAIN view \cup {L}
    BY <1>6
  <2> QED BY <1>6, <2>1 DEF Historic
<1> HIDE DEF more, done, rest, f, load, L
<1>8. HistoryInOrder'
  <2> SUFFICES ASSUME NEW p \in DOMAIN view', NEW q \in DOMAIN view', p < q,
                      ~view'[p].live, ~view'[q].live
               PROVE  view'[p].id < view'[q].id
    BY DEF HistoryInOrder
  <2>1. p \in Historic /\ p \in DOMAIN view /\ view'[p] = view[p]
    BY <1>6, <1>7 DEF Historic
  <2>2. CASE q = L
    BY <1>5, <1>6, <2>1, <2>2
  <2>3. CASE q \in DOMAIN view
    BY <1>6, <2>1, <2>3 DEF HistoryInOrder
  <2> QED BY <1>6, <2>2, <2>3
<1>9. \A p \in Historic' : view'[p].id >= f /\ view'[p].id <= m.id /\ view'[p].id \in Ids
  <2> SUFFICES ASSUME NEW p \in Historic'
               PROVE  view'[p].id >= f /\ view'[p].id <= m.id /\ view'[p].id \in Ids
    OBVIOUS
  <2>1. CASE p = L
    BY <1>2, <1>4, <1>6, <2>1, Bounds DEF Ids, load
  <2>2. CASE p \in Historic
    <3>1. view'[p] = view[p]
      BY <1>6, <1>7, <2>2
    <3>2. load.first # NoMessage
      BY <1>5, <2>2
    <3> QED BY <1>2, <1>4, <1>5, <2>2, <3>1, <3>2, Bounds DEF Ids, AllFrom, load
  <2> QED BY <1>7, <2>1, <2>2
<1>10. older.at = "idle" /\ \A k \in DOMAIN selections : Runs(k) => k = n
  BY <1>1 DEF Exclusive, Runs, load
<1>11. OlderFits' /\ OlderGoesAbove'
  BY <1>1, <1>10 DEF OlderFits, OlderGoesAbove
<1>12. CASE /\ selections' = [selections EXCEPT ![n] = more]
            /\ UNCHANGED <<oldestMessageId, isLoadingMessages>>
  <2>1. /\ DOMAIN selections' = DOMAIN selections /\ selections'[n] = more
        /\ \A k \in DOMAIN selections : k # n => selections'[k] = selections[k]
    BY <1>12, Moved
  <2>2. Exclusive' /\ OldestIsFirst'
    BY <1>1, <1>3, <1>12, <2>1 DEF Exclusive, Runs, OldestIsFirst, load
  <2>3. ASSUME NEW k \in DOMAIN selections, k # n
        PROVE  selections[k].at \notin {"history", "rows"} /\ selections'[k] = selections[k]
    BY <1>10, <2>1, <2>3 DEF Runs
  <2>4. \A p \in Historic', x \in rest : view'[p].id < x.id
    <3> SUFFICES ASSUME NEW p \in Historic', NEW x \in rest PROVE view'[p].id < x.id
      OBVIOUS
    <3>1. x.id \in Ids /\ m.id \in Ids
      BY <1>2 DEF rest, load
    <3> QED BY <1>4, <1>9, <3>1, Bounds DEF Ids
  <2>5. HistoryGrowsDown'
    <3> SUFFICES ASSUME NEW k \in DOMAIN selections'
                 PROVE  LET ld == selections'[k] IN
                        /\ ld.at = "history" => Historic' = {} /\ ld.first = NoMessage
                        /\ ld.at = "keys" => ld.first = NoMessage
                        /\ ld.at = "rows" =>
                              /\ RowsOf(ld.rows, ld.first)
                              /\ \A p \in Historic', x \in ld.rows : view'[p].id < x.id
                              /\ IF ld.first = NoMessage THEN Historic' = {}
                                 ELSE \A p \in Historic' : view'[p].id >= ld.first
      BY DEF HistoryGrowsDown, AllFrom
    <3>1. CASE k = n
      BY <1>3, <1>4, <1>9, <2>1, <2>4, <3>1
    <3>2. CASE k # n
      BY <2>1, <2>3, <3>2 DEF HistoryGrowsDown
    <3> QED BY <3>1, <3>2
  <2> QED BY <1>8, <1>11, <2>2, <2>5
<1>13. CASE /\ rest = {} /\ selections' = [selections EXCEPT ![n] = done]
            /\ oldestMessageId' = f /\ isLoadingMessages' = FALSE
  <2>1. /\ DOMAIN selections' = DOMAIN selections /\ selections'[n] = done
        /\ \A k \in DOMAIN selections : k # n => selections'[k] = selections[k]
    BY <1>13, Moved
  <2>2. Exclusive'
    BY <1>1, <1>3, <1>10, <1>13, <2>1 DEF Exclusive, Runs
  <2>3. OldestIsFirst'
    BY <1>9, <1>13 DEF OldestIsFirst, AllFrom
  <2>4. HistoryGrowsDown'
    BY <1>3, <1>10, <2>1 DEF HistoryGrowsDown, Runs
  <2> QED BY <1>8, <1>11, <2>2, <2>3, <2>4
<1> QED BY <1>1, <1>12, <1>13 DEF rest, more, done, f, load

LEMMA LoadOlderOrder ==
  ASSUME Typed, Order, LoadOlder PROVE Order'
<1> USE DEF Order
<1>1. /\ oldestMessageId # NoMessage /\ ~isLoadingMessages /\ isLoadingMessages' = TRUE
      /\ older' = [NotOlder EXCEPT !.at = "asked", !.room = currentRoom, !.before = oldestMessageId]
      /\ UNCHANGED <<view, selections, oldestMessageId>>
  BY DEF LoadOlder, document
<1>2. /\ older'.at = "asked" /\ older'.before = oldestMessageId /\ older'.first = NoMessage
      /\ older'.rows = {} /\ older'.inserted = 0
  BY <1>1 DEF NotOlder, NoMessage
<1>3. older.at = "idle" /\ \A n \in DOMAIN selections : ~Runs(n)
  BY <1>1 DEF Exclusive
<1>4. AllFrom(oldestMessageId)
  BY <1>1, <1>3 DEF OldestIsFirst
<1>5. Historic' = Historic
  BY <1>1 DEF Historic
<1>6. OlderFits'
  BY <1>2, FS_EmptySet, Bounds DEF OlderFits
<1>7. Exclusive'
  BY <1>1, <1>2, <1>3 DEF Exclusive, Runs
<1>8. HistoryInOrder' /\ HistoryGrowsDown' /\ OldestIsFirst'
  BY <1>1, <1>3, <1>4, <1>5 DEF HistoryInOrder, HistoryGrowsDown, OldestIsFirst, AllFrom
<1>9. OlderGoesAbove'
  BY <1>1, <1>2, <1>4, <1>5 DEF OlderGoesAbove, AllFrom
<1> QED BY <1>6, <1>7, <1>8, <1>9

LEMMA OlderFailsOrder ==
  ASSUME Typed, Order, OlderFails PROVE Order'
<1> USE DEF Order
<1>1. /\ older.at = "asked" \/ (older.at = "rows" /\ older.anchor = "gone")
      /\ older' = NotOlder /\ isLoadingMessages' = FALSE
      /\ UNCHANGED <<view, selections, oldestMessageId>>
  BY DEF OlderFails, document
<1>2. NotOlder.at = "idle" /\ Historic' = Historic
  BY <1>1 DEF NotOlder, Historic
<1>3. \A n \in DOMAIN selections : ~Runs(n)
  BY <1>1 DEF Exclusive
<1>4. OldestIsFirst'
  BY <1>1, <1>2, <1>3 DEF OldestIsFirst, OlderGoesAbove, AllFrom
<1>5. Exclusive'
  BY <1>1, <1>2, <1>3 DEF Exclusive, Runs
<1>6. HistoryInOrder' /\ HistoryGrowsDown' /\ OlderGoesAbove'
  BY <1>1, <1>2 DEF HistoryInOrder, HistoryGrowsDown, OlderGoesAbove, AllFrom
<1> QED BY <1>1, <1>4, <1>5, <1>6, NoRowsFit

LEMMA ServeOlderOrder ==
  ASSUME Typed, Order, ServeOlder PROVE Order'
<1> DEFINE S == {i \in Stored(older.room) : i < older.before}
           rows == get_messages(S)
           a == IF view = <<>> THEN "none" ELSE "first"
           load == [older EXCEPT !.at = "rows", !.rows = rows, !.size = Cardinality(rows),
                                 !.anchor = a]
<1> USE DEF Order
<1>1. /\ older.at = "asked" /\ UNCHANGED <<view, selections, oldestMessageId>>
      /\ \/ older' = NotOlder /\ isLoadingMessages' = FALSE
         \/ older' = load /\ UNCHANGED isLoadingMessages
  BY DEF ServeOlder, document
<1>2. /\ \A n \in DOMAIN selections : ~Runs(n)
      /\ AllFrom(older.before) /\ older.first = NoMessage /\ older.inserted = 0
      /\ Historic' = Historic
  BY <1>1 DEF Exclusive, OlderGoesAbove, OlderFits, Historic
<1>3. HistoryInOrder' /\ HistoryGrowsDown'
  BY <1>1, <1>2 DEF HistoryInOrder, HistoryGrowsDown, AllFrom
<1>4. /\ S \in SUBSET (DOMAIN messages) /\ S \subseteq Ids
  BY StoredTyped
<1>5. /\ rows \subseteq Rows /\ IsFiniteSet(rows) /\ Cardinality(rows) \in 0 .. MaxMessages
      /\ \A x \in rows : x.id \in Ids /\ x.id < older.before
      /\ RowsOf(rows, NoMessage)
  <2>1. /\ rows \subseteq Rows /\ IsFiniteSet(rows) /\ Cardinality(rows) \in 0 .. MaxMessages
        /\ \A x \in rows : x.id \in S
    BY <1>4, RowsTyped
  <2>2. \A x \in rows : x.id >= NoMessage
    BY <1>4, <2>1, Bounds DEF Ids, NoMessage
  <2> QED BY <1>4, <2>1, <2>2, RowsDistinct DEF RowsOf
<1> HIDE DEF S, rows
<1>6. /\ load.at = "rows" /\ load.rows = rows /\ load.anchor = a /\ load.first = NoMessage
      /\ load.inserted = 0
  BY <1>2 DEF Typed, OlderTypes, OlderLoads
<1> HIDE DEF load
<1>7. CASE older' = NotOlder /\ isLoadingMessages' = FALSE
  <2>1. NotOlder.at = "idle"
    BY DEF NotOlder
  <2>2. Exclusive' /\ OlderGoesAbove'
    BY <1>1, <1>2, <1>7, <2>1 DEF Exclusive, Runs, OlderGoesAbove
  <2>3. OldestIsFirst'
    BY <1>1, <1>2 DEF OldestIsFirst, AllFrom
  <2> QED BY <1>3, <1>7, <2>2, <2>3, NoRowsFit
<1>8. CASE older' = load /\ UNCHANGED isLoadingMessages
  <2>1. OlderFits'
    BY <1>1, <1>5, <1>6, <1>8, ViewLength, Bounds DEF OlderFits
  <2>2. Exclusive' /\ OldestIsFirst'
    BY <1>1, <1>2, <1>6, <1>8 DEF Exclusive, Runs, OldestIsFirst
  <2>3. \A p \in Historic, x \in rows : view[p].id > x.id /\ p \notin {0}
    <3> SUFFICES ASSUME NEW p \in Historic, NEW x \in rows PROVE view[p].id > x.id /\ p # 0
      OBVIOUS
    <3>1. older.before \in Nat /\ view[p].id \in Ids /\ x.id \in Ids /\ p \in 1 .. Len(view)
      BY <1>5, ViewIds, ViewLength, Bounds DEF Historic, Typed, OlderTypes, OlderLoads
    <3>2. view[p].id >= older.before /\ x.id < older.before
      BY <1>2, <1>5 DEF AllFrom
    <3> QED BY <3>1, <3>2, Bounds DEF Ids
  <2>4. view = <<>> => Historic = {}
    BY DEF Historic
  <2>5. \A p \in Historic : ~(p <= 0)
    BY ViewLength DEF Historic
  <2>6. OlderGoesAbove'
    BY <1>1, <1>2, <1>5, <1>6, <1>8, <2>3, <2>4, <2>5 DEF OlderGoesAbove
  <2> QED BY <1>3, <2>1, <2>2, <2>6
<1> QED BY <1>1, <1>7, <1>8

LEMMA ShowOlderOrder ==
  ASSUME Typed, Order, NEW m \in older.rows, ShowOlder(m) PROVE Order'
<1> DEFINE rest == older.rows \ {m}
           e == [id |-> m.id, text |-> m.text, live |-> FALSE]
           at == IF older.anchor = "none" THEN Len(view) + 1 ELSE older.inserted + 1
           f == FirstOf(older, m)
           more == [older EXCEPT !.rows = rest, !.inserted = @ + 1, !.first = f]
           Old(p) == IF p < at THEN p ELSE p - 1
<1> USE DEF Order
<1>1. /\ older.at = "rows" /\ older.anchor # "gone" /\ IsFirst(m, older.rows)
      /\ view' = InsertAt(view, at, e) /\ UNCHANGED selections
      /\ \/ older' = more /\ UNCHANGED <<oldestMessageId, isLoadingMessages>>
         \/ /\ rest = {} /\ older' = NotOlder
            /\ oldestMessageId' = f /\ isLoadingMessages' = FALSE
  BY DEF ShowOlder
<1>2. /\ older \in OlderLoads /\ older.rows \subseteq Rows /\ m \in Rows /\ m.id \in Ids
      /\ older.first \in 0 .. MaxMessages /\ older.inserted \in 0 .. MaxMessages
      /\ \A x \in older.rows : x.id \in Ids
      /\ older.anchor \in {"first", "none"}
  BY <1>1 DEF Typed, OlderTypes, OlderLoads, Rows
<1>3. /\ more.at = "rows" /\ more.rows = rest /\ more.first = f
      /\ more.inserted = older.inserted + 1 /\ more.anchor = older.anchor
  BY <1>1, <1>2 DEF OlderLoads
<1>4. /\ f \in Ids /\ f <= m.id /\ f # NoMessage /\ \A x \in rest : x.id > m.id
      /\ RowsOf(rest, f)
      /\ f = older.first \/ (older.first = NoMessage /\ f = m.id)
  <2>1. RowsOf(older.rows, older.first) /\ m \in older.rows
    BY <1>1 DEF OlderGoesAbove
  <2>2. \A x \in rest : x.id > m.id
    BY <1>1, <1>2, <2>1, Bounds DEF RowsOf, IsFirst, Ids
  <2> QED BY <1>2, <2>1, <2>2, Bounds DEF RowsOf, FirstOf, NoMessage, Ids
<1>5. at \in 1 .. Len(view) + 1 /\ e \in Elements /\ e.id = m.id /\ e.live = FALSE
  BY <1>1, <1>2, RowShown, ViewLength DEF OlderFits
<1> HIDE DEF at, e
<1>6. /\ DOMAIN view' = 1 .. Len(view) + 1 /\ Len(view') = Len(view) + 1
      /\ view'[at].id = m.id /\ view'[at].live = FALSE
      /\ \A p \in DOMAIN view' : p # at => Old(p) \in DOMAIN view /\ view'[p] = view[Old(p)]
  <2>1. /\ view' \in Seq(Elements) /\ Len(view') = Len(view) + 1
        /\ \A p \in 1 .. Len(view) + 1 :
              view'[p] = IF p < at THEN view[p] ELSE IF p = at THEN e ELSE view[p - 1]
    <3>1. /\ InsertAt(view, at, e) \in Seq(Elements)
          /\ Len(InsertAt(view, at, e)) = Len(view) + 1
          /\ \A p \in 1 .. Len(view) + 1 :
                InsertAt(view, at, e)[p] = IF p < at THEN view[p]
                                           ELSE IF p = at THEN e ELSE view[p - 1]
      BY <1>5, ViewLength, InsertAtProperties
    <3> QED BY <1>1, <3>1
  <2>2. DOMAIN view' = 1 .. Len(view) + 1
    BY <2>1
  <2> QED BY <1>5, <2>1, <2>2, ViewLength
<1>7. \A p \in Historic' : p = at \/ (p # at /\ Old(p) \in Historic /\ view'[p] = view[Old(p)])
  BY <1>6 DEF Historic
<1>8. at \in Historic' /\ Historic' \subseteq 1 .. Len(view) + 1
  BY <1>5, <1>6 DEF Historic
\* What is above the new element is older than it, what is below younger.
<1>9. ASSUME NEW p \in Historic
      PROVE  /\ view[p].id \in Ids /\ p \in 1 .. Len(view)
             /\ p < at => view[p].id < m.id /\ older.first # NoMessage
             /\ p >= at => older.anchor = "first" /\ view[p].id > m.id
  <2>1. view[p].id \in Ids /\ p \in 1 .. Len(view)
    BY ViewIds, ViewLength DEF Historic
  <2>2. CASE older.anchor = "none"
    BY <1>1, <2>1, <2>2, ViewLength DEF OlderGoesAbove, at
  <2>3. CASE older.anchor = "first"
    BY <1>1, <1>2, <2>1, <2>3, ViewLength, Bounds DEF OlderGoesAbove, at
  <2> QED BY <1>2, <2>1, <2>2, <2>3
<1> HIDE DEF more, rest, f
<1>10. HistoryInOrder'
  <2> SUFFICES ASSUME NEW p \in Historic', NEW q \in Historic', p < q
               PROVE  view'[p].id < view'[q].id
    BY DEF HistoryInOrder, Historic
  <2>1. p \in 1 .. Len(view) + 1 /\ q \in 1 .. Len(view) + 1 /\ at \in 1 .. Len(view) + 1
    BY <1>5, <1>8
  <2>2. CASE p = at
    <3>1. Old(q) \in Historic /\ view'[q] = view[Old(q)] /\ Old(q) >= at
      BY <1>7, <2>1, <2>2, ViewLength
    <3> QED BY <1>6, <1>9, <2>2, <3>1
  <2>3. CASE q = at
    <3>1. Old(p) \in Historic /\ view'[p] = view[Old(p)] /\ Old(p) < at
      BY <1>7, <2>1, <2>3, ViewLength
    <3> QED BY <1>6, <1>9, <2>3, <3>1
  <2>4. CASE p # at /\ q # at
    <3>1. /\ Old(p) \in Historic /\ view'[p] = view[Old(p)]
          /\ Old(q) \in Historic /\ view'[q] = view[Old(q)]
      BY <1>7, <2>4
    <3>2. Old(p) < Old(q)
      BY <2>1, <2>4, ViewLength
    <3> QED BY <3>1, <3>2 DEF HistoryInOrder, Historic
  <2> QED BY <2>2, <2>3, <2>4
<1>11. ASSUME NEW p \in Historic'
       PROVE  /\ view'[p].id >= f /\ view'[p].id \in Ids
              /\ p <= at => view'[p].id <= m.id
              /\ p > at => /\ older.anchor = "first" /\ Old(p) \in Historic
                           /\ view'[p] = view[Old(p)] /\ Old(p) >= at
  <2>1. p \in 1 .. Len(view) + 1 /\ at \in 1 .. Len(view) + 1
    BY <1>5, <1>8
  <2>2. CASE p = at
    BY <1>2, <1>4, <1>6, <2>1, <2>2, Bounds DEF Ids
  <2>3. CASE p # at
    <3>1. Old(p) \in Historic /\ view'[p] = view[Old(p)]
      BY <1>7, <2>3
    <3>2. view[Old(p)].id \in Ids
      BY <1>9, <3>1
    <3>3. view[Old(p)].id >= f
      <4>1. CASE older.first = NoMessage
        BY <1>2, <1>4, <1>9, <3>1, <4>1, ViewLength, <2>1, Bounds DEF Ids, NoMessage
      <4>2. CASE older.first # NoMessage
        BY <1>1, <1>4, <3>1, <4>2 DEF OlderGoesAbove, AllFrom
      <4> QED BY <4>1, <4>2
    <3>4. p < at => Old(p) < at
      OBVIOUS
    <3>5. p > at => Old(p) >= at
      BY <2>1, ViewLength
    <3> QED BY <1>2, <1>9, <2>3, <3>1, <3>2, <3>3, <3>4, <3>5, <2>1, ViewLength, Bounds DEF Ids
  <2> QED BY <2>2, <2>3
<1>12. \A n \in DOMAIN selections : ~Runs(n)
  BY <1>1 DEF Exclusive
<1>13. HistoryGrowsDown'
  BY <1>1, <1>12 DEF HistoryGrowsDown, Runs
<1>14. CASE older' = more /\ UNCHANGED <<oldestMessageId, isLoadingMessages>>
  <2>1. Exclusive' /\ OldestIsFirst'
    BY <1>1, <1>3, <1>12, <1>14 DEF Exclusive, Runs, OldestIsFirst
  <2>2. IsFiniteSet(rest) /\ Cardinality(rest) = Cardinality(older.rows) - 1
        /\ Cardinality(older.rows) \in Nat
    BY FS_RemoveElement, FS_CardinalityType DEF OlderFits, rest
  <2>3. OlderFits'
    BY <1>1, <1>2, <1>3, <1>6, <1>14, <2>2, ViewLength, Bounds DEF OlderFits
  <2>4. \A p \in Historic', x \in rest :
           /\ p <= at => view'[p].id < x.id
           /\ p > at => older.anchor = "first" /\ view'[p].id > x.id
    <3> SUFFICES ASSUME NEW p \in Historic', NEW x \in rest
                 PROVE  /\ p <= at => view'[p].id < x.id
                        /\ p > at => older.anchor = "first" /\ view'[p].id > x.id
      OBVIOUS
    <3>1. x \in older.rows /\ x.id \in Ids /\ x.id > m.id /\ m.id \in Ids /\ view'[p].id \in Ids
      BY <1>2, <1>4, <1>11 DEF rest
    <3>2. CASE p <= at
      <4>1. view'[p].id <= m.id
        BY <1>11, <3>2
      <4>2. ~(p > at)
        BY <1>5, <1>8, <3>2
      <4> QED BY <3>1, <4>1, <4>2, Bounds DEF Ids
    <3>3. CASE p > at
      <4>1. older.anchor = "first" /\ Old(p) \in Historic /\ view'[p] = view[Old(p)] /\ Old(p) >= at
        BY <1>11, <3>3
      <4>2. at = older.inserted + 1
        BY <4>1 DEF at
      <4>3. ~(Old(p) <= older.inserted)
        BY <1>2, <1>9, <4>1, <4>2, ViewLength
      <4> QED BY <1>1, <3>1, <3>3, <4>1, <4>3, <1>8, <1>5 DEF OlderGoesAbove
    <3>4. p \in Int /\ at \in Int
      BY <1>5, <1>8
    <3>5. p <= at \/ p > at
      BY <3>4
    <3> QED BY <3>2, <3>3, <3>4, <3>5
  <2>5. older.anchor = "none" => \A p \in Historic' : p <= at
    BY <1>5, <1>8, ViewLength DEF at
  <2>6. older.anchor = "first" => at = older.inserted + 1
    BY DEF at
  <2>7. older'.at = "rows" /\ older'.anchor = older.anchor /\ older'.rows = rest
        /\ older'.first = f /\ older'.inserted = older.inserted + 1
    BY <1>3, <1>14
  <2>8. \A p \in Historic' : p \in Int /\ at \in Int
    BY <1>5, <1>8
  <2>9. \A p \in Historic' : view'[p].id >= f
    BY <1>11
  <2>10. OlderGoesAbove'
    <3>1. older.anchor = "none" => \A p \in Historic', x \in rest : view'[p].id < x.id
      BY <2>4, <2>5
    <3>2. older.anchor = "first" =>
             \A p \in Historic', x \in rest :
                IF p <= older.inserted + 1 THEN view'[p].id < x.id ELSE view'[p].id > x.id
      BY <2>4, <2>6, <2>8
    <3> QED BY <1>1, <1>2, <1>4, <2>7, <2>9, <3>1, <3>2 DEF OlderGoesAbove, AllFrom
  <2> QED BY <1>10, <1>13, <2>1, <2>3, <2>10
<1>15. CASE /\ rest = {} /\ older' = NotOlder
            /\ oldestMessageId' = f /\ isLoadingMessages' = FALSE
  <2>1. NotOlder.at = "idle"
    BY DEF NotOlder
  <2>2. Exclusive' /\ OlderGoesAbove'
    BY <1>1, <1>12, <1>15, <2>1 DEF Exclusive, Runs, OlderGoesAbove
  <2>3. OldestIsFirst'
    BY <1>11, <1>15 DEF OldestIsFirst, AllFrom
  <2> QED BY <1>10, <1>13, <1>15, <2>2, <2>3, NoRowsFit
<1> QED BY <1>1, <1>14, <1>15 DEF more, rest, f

-----------------------------------------------------------------------------
(* The theorems.                                                           *)

LEMMA InitOrder == Init => Order
<1> SUFFICES ASSUME Init PROVE Order
  OBVIOUS
<1>1. older = NotOlder /\ selections = <<>> /\ view = <<>> /\ oldestMessageId = NoMessage
  BY DEF Init
<1>2. NotOlder.at = "idle" /\ NotOlder.rows = {} /\ NotOlder.inserted = 0
  BY DEF NotOlder
<1>3. Historic = {} /\ HistoryInOrder /\ HistoryGrowsDown
  BY <1>1 DEF Historic, HistoryInOrder, HistoryGrowsDown
<1>4. ~isLoadingMessages
  BY DEF Init
<1>5. Exclusive
  BY <1>1, <1>2, <1>4 DEF Exclusive
<1>6. OlderFits
  BY <1>1, <1>2, FS_EmptySet, Bounds DEF OlderFits
<1> QED BY <1>1, <1>2, <1>3, <1>5, <1>6 DEF Order, OlderGoesAbove, OldestIsFirst

LEMMA StepOrder ==
  ASSUME Typed, Order, [Next]_vars PROVE Order'
<1>1. CASE ServerStep
  BY <1>1, ElsewhereOrder, ServeOlderOrder, ServeHistoryOrder DEF ServerStep
<1>2. CASE PageStep
  BY <1>2, KeysLoadedOrder, ShowRowOrder, ShowOlderOrder, DeliverOrder, ArriveOrder,
     ApplyEditOrder, ElsewhereOrder DEF PageStep
<1>3. CASE UserStep
  BY <1>3, SelectRoomOrder, LoadOlderOrder, ElsewhereOrder DEF UserStep
<1>4. CASE Mishap
  BY <1>4, HistoryFailsOrder, OlderFailsOrder, ElsewhereOrder DEF Mishap
<1>5. CASE UNCHANGED vars
  BY <1>5, ElsewhereOrder
<1> QED BY <1>1, <1>2, <1>3, <1>4, <1>5 DEF Next

LEMMA Invariance == Spec => [](Typed /\ Order)
<1>1. Init => Typed /\ Order
  BY InitTyped, InitOrder
<1>2. Typed /\ Order /\ [Next]_vars => (Typed /\ Order)'
  BY StepTyped, StepOrder DEF Order
<1> QED BY <1>1, <1>2, PTL DEF Spec

LEMMA ExclusiveCounted ==
  ASSUME Typed, Exclusive PROVE LoadsExclude
<1> DEFINE R == {n \in DOMAIN selections : Runs(n)}
<1>1. R = {} \/ \E n \in R : R = {n}
  BY DEF Exclusive
<1>2. Cardinality(R) = 0 \/ Cardinality(R) = 1
  BY <1>1, FS_EmptySet, FS_Singleton
<1>3. older.at # "idle" => R = {}
  BY DEF Exclusive
<1>4. Cardinality({}) = 0
  BY FS_EmptySet
<1>5. Cardinality(R) + (IF older.at = "idle" THEN 0 ELSE 1) <= 1
  BY <1>2, <1>3, <1>4
<1> QED BY <1>5 DEF LoadsExclude, Exclusive

\* The page, the server and what is between them keep their types
\* (services.py, plugin.js, app.js).
THEOREM ChatTypes == Spec => []TypeOK
BY Invariance, TypedIsTypeOK, PTL

\* isLoadingMessages excludes a second load, however loadMessages and
\* loadOlderMessages are called while another of them awaits its answer or a
\* decryption.
THEOREM OneLoadAtATime == Spec => []LoadsExclude
<1>1. Typed /\ Order => LoadsExclude
  BY ExclusiveCounted DEF Order
<1> QED BY <1>1, Invariance, PTL

\* The elements that pages of history brought are in the order of their ids, none
\* twice, for any page size and any number of messages, selections, live messages
\* between the rows, failed fetches and losses of the connection.
THEOREM PagesStayInOrder == Spec => []HistoryInOrder
<1>1. Typed /\ Order => HistoryInOrder
  BY DEF Order
<1> QED BY <1>1, Invariance, PTL

-----------------------------------------------------------------------------
(* What the page was told.  A message is accounted for once the page has   *)
(* it, will have it, or is known not to get it.                            *)

LoadingIds == {i \in DOMAIN messages : Loading(i)}
Got == shown \cup arrivals \cup unheard \cup LoadingIds

\* The same of what is on the screen, and what the socket will bring.
OnScreen == {view[p].id : p \in DOMAIN view}
Here == OnScreen \cup arrivals \cup unheard \cup LoadingIds
IsMessage(k) == down[k].type = "message"
Coming == {down[k].id : k \in {l \in DOMAIN down : IsMessage(l)}}

\* The messages of room r up to b are all accounted for.
Covered(r, b) == \A i \in DOMAIN messages : messages[i].room = r /\ i <= b => i \in Got

\* Messages come in the order of their ids, and none that was delivered is after
\* one that was not.
WireInOrder ==
    /\ \A k, l \in DOMAIN down :
          k < l /\ IsMessage(k) /\ IsMessage(l) => down[k].id < down[l].id
    /\ \A j \in arrivals, k \in DOMAIN down : IsMessage(k) => j < down[k].id

\* Every id anywhere is that of a stored message, or none.
Known == 0 .. Len(messages)
PageIdsAreStored ==
    /\ arrivals \subseteq DOMAIN messages
    /\ lastMessageId \in Known /\ oldestMessageId \in Known
    /\ OnScreen \subseteq shown
LoadIdsAreStored ==
    \A n \in DOMAIN selections :
        /\ selections[n].first \in Known
        /\ \A x \in selections[n].rows : x.id \in DOMAIN messages
        /\ selections[n].at # "rows" => selections[n].rows = {}
OlderIdsAreStored ==
    /\ older.before \in Known /\ older.first <= older.before
    /\ \A x \in older.rows : x.id <= older.before
ReadIdsAreStored ==
    /\ \A x \in reads : x.id \in DOMAIN messages
    /\ \A r \in Rooms : last_read[r] \in Known
IdsAreStored ==
    PageIdsAreStored /\ LoadIdsAreStored /\ OlderIdsAreStored /\ ReadIdsAreStored

\* Without hurry the call of selectRoom under way is the last one.
OneAtATime ==
    /\ \A n \in DOMAIN selections :
          InProgress(n) =>
             /\ n = Len(selections) /\ selections[n].room = currentRoom
             /\ oldestMessageId = NoMessage
             /\ selections[n].at = "keys" => ~isLoadingMessages
    /\ older.at # "idle" => older.room = currentRoom

RoomIsHere ==
    \A i \in DOMAIN messages : messages[i].room = currentRoom => i \in Here \cup Coming

PageIsCovered ==
    /\ Covered(currentRoom, lastMessageId) /\ Covered(currentRoom, oldestMessageId)
    /\ \A n \in DOMAIN selections :
          selections[n].at = "rows" =>
             /\ Covered(selections[n].room, selections[n].first)
             /\ \A x \in selections[n].rows : Covered(selections[n].room, x.id)
    /\ older.at # "idle" => Covered(older.room, older.before)

ReadsAreCovered ==
    /\ \A x \in reads : Covered(x.room, x.id)
    /\ \A r \in Rooms : Covered(r, last_read[r])

Unhurried == OneAtATime /\ RoomIsHere /\ PageIsCovered /\ ReadsAreCovered

Told == WireInOrder /\ IdsAreStored /\ (~hasty => Unhurried)

\* What a step may do to what is stored and accounted for: rows are added after the
\* others and stay in their rooms, and nothing is forgotten.
RowsStay ==
    /\ DOMAIN messages \subseteq DOMAIN messages'
    /\ Len(messages) <= Len(messages') /\ DOMAIN messages' = 1 .. Len(messages')
    /\ \A i \in DOMAIN messages : messages'[i].room = messages[i].room
GotStays == Got \cap DOMAIN messages \subseteq Got'
CoveredNext(r, b) ==
    \A i \in DOMAIN messages' : messages'[i].room = r /\ i <= b => i \in Got'

LEMMA RowsLength ==
  ASSUME Typed
  PROVE  Len(messages) \in Nat /\ DOMAIN messages = 1 .. Len(messages)
BY DEF Typed, ServerTypes

LEMMA SameRows ==
  ASSUME Typed, UNCHANGED messages PROVE RowsStay
BY RowsLength DEF RowsStay

\* What was accounted for still is, and what is new has a larger id.
LEMMA StillCovered ==
  ASSUME Typed, RowsStay, GotStays, NEW r, NEW b \in Known, Covered(r, b)
  PROVE  CoveredNext(r, b)
<1> SUFFICES ASSUME NEW i \in DOMAIN messages', messages'[i].room = r, i <= b
             PROVE  i \in Got'
  BY DEF CoveredNext
<1>1. i \in DOMAIN messages
  BY RowsLength DEF RowsStay, Known
<1> QED BY <1>1 DEF RowsStay, GotStays, Covered

LEMMA CoveredBelow ==
  ASSUME Typed, RowsStay, GotStays, NEW r, NEW b \in Known, NEW c \in Int, c <= b,
         Covered(r, b)
  PROVE  CoveredNext(r, c)
<1>1. Covered(r, c)
  BY RowsLength DEF Covered, Known
<1>2. CASE c >= 0
  <2>1. c \in Known
    BY <1>2, RowsLength DEF Known
  <2> QED BY <1>1, <2>1, StillCovered
<1>3. CASE c < 0
  BY <1>3 DEF CoveredNext, RowsStay
<1> QED BY <1>2, <1>3

\* The ids that are known stay so.
LEMMA KnownStay ==
  ASSUME Typed, RowsStay PROVE Known \subseteq Known'
BY RowsLength DEF RowsStay, Known

\* Where the page and its loads stay as they are, so does what is covered.
LEMMA PageStays ==
  ASSUME Typed, RowsStay, GotStays, IdsAreStored, PageIsCovered,
         UNCHANGED <<selections, older, lastMessageId, oldestMessageId, currentRoom>>
  PROVE  PageIsCovered'
<1>1. CoveredNext(currentRoom, lastMessageId) /\ CoveredNext(currentRoom, oldestMessageId)
  BY StillCovered DEF PageIsCovered, IdsAreStored, PageIdsAreStored
<1>2. ASSUME NEW n \in DOMAIN selections, selections[n].at = "rows"
      PROVE  /\ CoveredNext(selections[n].room, selections[n].first)
             /\ \A x \in selections[n].rows : CoveredNext(selections[n].room, x.id)
  <2>1. selections[n].first \in Known
    BY DEF IdsAreStored, LoadIdsAreStored
  <2>2. \A x \in selections[n].rows : x.id \in Known
    BY RowsLength DEF IdsAreStored, LoadIdsAreStored, Known
  <2> QED BY <1>2, <2>1, <2>2, StillCovered DEF PageIsCovered
<1>3. older.at # "idle" => CoveredNext(older.room, older.before)
  BY StillCovered DEF PageIsCovered, IdsAreStored, OlderIdsAreStored
<1> QED BY <1>1, <1>2, <1>3 DEF PageIsCovered, Covered, CoveredNext

LEMMA ReadsStay ==
  ASSUME Typed, RowsStay, GotStays, IdsAreStored, ReadsAreCovered,
         reads' \subseteq reads, UNCHANGED last_read
  PROVE  ReadsAreCovered'
<1>1. \A x \in reads : CoveredNext(x.room, x.id)
  <2>1. \A x \in reads : x.id \in Known
    BY RowsLength DEF IdsAreStored, ReadIdsAreStored, Known
  <2> QED BY <2>1, StillCovered DEF ReadsAreCovered
<1>2. \A r \in Rooms : CoveredNext(r, last_read[r])
  BY StillCovered DEF ReadsAreCovered, IdsAreStored, ReadIdsAreStored
<1> QED BY <1>1, <1>2 DEF ReadsAreCovered, Covered, CoveredNext

\* A step of the server or of the connection: what the page holds stays.
LEMMA ElsewhereTold ==
  ASSUME Typed, Told, RowsStay,
         UNCHANGED <<selections, older, lastMessageId, oldestMessageId, isLoadingMessages,
                     currentRoom, hasty, arrivals, shown>>,
         OnScreen' = OnScreen, unheard \subseteq unheard',
         reads' \subseteq reads,
         \A r \in Rooms : last_read'[r] \in Known /\ (~hasty => Covered(r, last_read'[r])),
         \A i \in Coming : i \in Coming' \cup unheard',
         \A i \in DOMAIN messages' : i \in DOMAIN messages \/ messages'[i].room # currentRoom
                                     \/ i \in Coming' \cup unheard',
         WireInOrder'
  PROVE  Told'
<1>1. LoadingIds \subseteq LoadingIds'
  BY DEF LoadingIds, Loading, RowsStay
<1>2. GotStays /\ Here \subseteq Here'
  BY <1>1 DEF GotStays, Got, Here
<1>3. IdsAreStored'
  <2>1. Known \subseteq Known' /\ DOMAIN messages \subseteq DOMAIN messages'
    BY KnownStay DEF RowsStay
  <2>2. PageIdsAreStored'
    BY <2>1 DEF Told, IdsAreStored, PageIdsAreStored
  <2>3. LoadIdsAreStored'
    BY <2>1 DEF Told, IdsAreStored, LoadIdsAreStored
  <2>4. OlderIdsAreStored'
    BY <2>1 DEF Told, IdsAreStored, OlderIdsAreStored
  <2>5. ReadIdsAreStored'
    BY <2>1 DEF Told, IdsAreStored, ReadIdsAreStored
  <2> QED BY <2>2, <2>3, <2>4, <2>5 DEF IdsAreStored
<1>4. ASSUME ~hasty' PROVE Unhurried'
  <2>1. IdsAreStored /\ Unhurried
    BY <1>4 DEF Told
  <2>2. OneAtATime'
    BY <2>1 DEF Unhurried, OneAtATime, InProgress
  <2>3. PageIsCovered'
    BY <1>2, <2>1, PageStays DEF Unhurried
  <2>4. ReadsAreCovered'
    <3>1. \A x \in reads : x.id \in Known /\ Covered(x.room, x.id)
      BY <2>1, RowsLength DEF Unhurried, ReadsAreCovered, IdsAreStored, ReadIdsAreStored, Known
    <3>2. \A x \in reads : CoveredNext(x.room, x.id)
      BY <1>2, <3>1, StillCovered
    <3>3. \A r \in Rooms : CoveredNext(r, last_read'[r])
      BY <1>2, <1>4, StillCovered
    <3> QED BY <3>2, <3>3 DEF ReadsAreCovered, Covered, CoveredNext
  <2>5. RoomIsHere'
    BY <1>2, <2>1 DEF Unhurried, RoomIsHere, Here, RowsStay
  <2> QED BY <2>2, <2>3, <2>4, <2>5 DEF Unhurried
<1> QED BY <1>3, <1>4 DEF Told

\* What is on the wire stays in order when a broadcast is added to it.
LEMMA BroadcastInOrder ==
  ASSUME Typed, WireInOrder, UNCHANGED arrivals,
         NEW r, NEW type, NEW i \in Int, NEW content, Broadcast(r, type, i, content),
         type = "message" => /\ \A k \in DOMAIN down : down[k].id < i
                             /\ \A j \in arrivals : j < i
  PROVE  /\ WireInOrder' /\ Coming \subseteq Coming'
         /\ type = "message" /\ r \in joined => i \in Coming'
<1> DEFINE e == [type |-> type, id |-> i, content |-> content]
<1>1. down \in Seq(Events)
  BY DEF Typed, WireTypes
<1>2. CASE r \in joined
  <2>1. /\ DOMAIN down = 1 .. Len(down) /\ DOMAIN down' = 1 .. Len(down) + 1 /\ Len(down) \in Nat
        /\ \A k \in DOMAIN down : down'[k] = down[k]
        /\ down'[Len(down) + 1] = e
    BY <1>1, <1>2 DEF Broadcast
  <2>2. e.type = type /\ e.id = i
    OBVIOUS
  <2>3. Coming \subseteq Coming' /\ (type = "message" => i \in Coming')
    <3>1. Len(down) + 1 \in DOMAIN down'
      BY <2>1
    <3> QED BY <2>1, <2>2, <3>1 DEF Coming, IsMessage
  <2>4. WireInOrder'
    <3>1. ASSUME NEW k \in DOMAIN down', NEW l \in DOMAIN down', k < l,
                 IsMessage(k)', IsMessage(l)'
          PROVE  down'[k].id < down'[l].id
      <4>1. k \in DOMAIN down
        BY <2>1, <3>1
      <4>2. CASE l \in DOMAIN down
        BY <2>1, <3>1, <4>1, <4>2 DEF WireInOrder, IsMessage
      <4>3. CASE l = Len(down) + 1
        BY <2>1, <2>2, <3>1, <4>1, <4>3 DEF IsMessage
      <4> QED BY <2>1, <4>2, <4>3
    <3>2. ASSUME NEW j \in arrivals', NEW k \in DOMAIN down', IsMessage(k)'
          PROVE  j < down'[k].id
      <4>1. CASE k \in DOMAIN down
        BY <2>1, <3>2, <4>1 DEF WireInOrder, IsMessage
      <4>2. CASE k = Len(down) + 1
        BY <2>1, <2>2, <3>2, <4>2 DEF IsMessage
      <4> QED BY <2>1, <4>1, <4>2
    <3> QED BY <3>1, <3>2 DEF WireInOrder
  <2> QED BY <2>3, <2>4
<1>3. CASE r \notin joined
  <2>1. down' = down
    BY <1>3 DEF Broadcast
  <2> QED BY <1>3, <2>1 DEF Coming, IsMessage, WireInOrder
<1> QED BY <1>2, <1>3

LEMMA ReadPositions ==
  ASSUME Told
  PROVE  \A r \in Rooms : last_read[r] \in Known /\ (~hasty => Covered(r, last_read[r]))
BY DEF Told, Unhurried, ReadsAreCovered, IdsAreStored, ReadIdsAreStored

LEMMA PostTold ==
  ASSUME Typed, Told, NEW r \in Rooms, Post(r) PROVE Told'
<1> DEFINE i == Len(messages) + 1
           m == [room |-> r, content |-> 0, deleted |-> FALSE]
<1>1. /\ messages' = Append(messages, m) /\ Broadcast(r, "message", i, 0)
      /\ unheard' = IF r = currentRoom /\ r \notin joined THEN unheard \cup {i} ELSE unheard
      /\ UNCHANGED <<last_read, reads, currentRoom, selections, paging, older, document, hasty>>
  BY DEF Post
<1>2. /\ Len(messages') = i /\ DOMAIN messages' = 1 .. i /\ Len(messages) \in Nat
      /\ DOMAIN messages = 1 .. Len(messages)
      /\ \A j \in DOMAIN messages : messages'[j] = messages[j]
      /\ messages'[i].room = r
  <2>1. messages \in Seq(Messages) /\ m \in Messages /\ m.room = r
    BY Bounds DEF Typed, ServerTypes, Messages, Contents
  <2> QED BY <1>1, <2>1
<1>3. RowsStay
  BY <1>2 DEF RowsStay
<1>4. \A k \in DOMAIN down : down[k].id < i
  BY <1>2, EventIds
<1>5. \A j \in arrivals : j < i
  BY <1>2 DEF Told, IdsAreStored, PageIdsAreStored
<1>6. WireInOrder' /\ Coming \subseteq Coming' /\ (r \in joined => i \in Coming')
  BY <1>1, <1>2, <1>4, <1>5, BroadcastInOrder DEF document, Told
<1>7. i \in DOMAIN messages' => messages'[i].room # currentRoom \/ i \in Coming' \cup unheard'
  BY <1>1, <1>2, <1>6
<1>8. OnScreen' = OnScreen /\ unheard \subseteq unheard'
  BY <1>1 DEF OnScreen, document
<1>9. \A j \in DOMAIN messages' : j \in DOMAIN messages \/ j = i
  BY <1>2
<1>10. UNCHANGED <<selections, older, lastMessageId, oldestMessageId, isLoadingMessages,
                   currentRoom, hasty, arrivals, shown, reads, last_read>>
  BY <1>1 DEF paging, document
<1> HIDE DEF i, m
<1> QED BY <1>3, <1>6, <1>7, <1>8, <1>9, <1>10, ReadPositions, ElsewhereTold

LEMMA ChangeTold ==
  ASSUME Typed, Told, NEW i \in DOMAIN messages, EditMessage(i) \/ DeleteMessage(i)
  PROVE  Told'
<1>1. /\ UNCHANGED <<last_read, reads, currentRoom, selections, paging, older, document,
                     unheard, hasty>>
      /\ \E content :
            \/ Broadcast(messages[i].room, "message_edited", i, content)
            \/ Broadcast(messages[i].room, "message_deleted", i, content)
  BY DEF EditMessage, DeleteMessage
<1>2. /\ DOMAIN messages' = DOMAIN messages /\ Len(messages') = Len(messages)
      /\ \A j \in DOMAIN messages : messages'[j].room = messages[j].room
  <2>1. messages \in Seq(Messages)
    BY DEF Typed, ServerTypes
  <2>2. \A j \in DOMAIN messages : messages[j] \in Messages
    BY <2>1
  <2>3. CASE EditMessage(i)
    <3>1. messages' = [messages EXCEPT ![i].content = changes + 1]
      BY <2>3 DEF EditMessage
    <3> QED BY <2>1, <2>2, <3>1 DEF Messages
  <2>4. CASE DeleteMessage(i)
    <3>1. messages' = [messages EXCEPT ![i].deleted = TRUE]
      BY <2>4 DEF DeleteMessage
    <3> QED BY <2>1, <2>2, <3>1 DEF Messages
  <2> QED BY <2>3, <2>4
<1>3. RowsStay
  BY <1>2, RowsLength DEF RowsStay
<1>4. i \in Int
  BY RowsLength
<1>5. WireInOrder' /\ Coming \subseteq Coming'
  BY <1>1, <1>4, BroadcastInOrder DEF document, Told
<1>6. /\ OnScreen' = OnScreen
      /\ UNCHANGED <<selections, older, lastMessageId, oldestMessageId, isLoadingMessages,
                     currentRoom, hasty, arrivals, shown, reads, last_read, unheard>>
  BY <1>1 DEF paging, document, OnScreen
<1> QED BY <1>2, <1>3, <1>5, <1>6, ReadPositions, ElsewhereTold

LEMMA ServeReadTold ==
  ASSUME Typed, Told, NEW x \in reads, ServeRead(x) PROVE Told'
<1>1. /\ last_read' = [last_read EXCEPT ![x.room] = Larger(@, x.id)]
      /\ reads' \subseteq reads
      /\ UNCHANGED <<messages, down, currentRoom, selections, paging, older, document,
                     unheard, hasty>>
  BY DEF ServeRead, mark_room_read
<1>2. last_read \in [Rooms -> 0 .. MaxMessages] /\ x.room \in Rooms
  BY DEF Typed, ServerTypes, WireTypes
<1>3. x.id \in Known
  BY RowsLength DEF Told, IdsAreStored, ReadIdsAreStored, Known
<1>4. ~hasty => Covered(x.room, x.id)
  BY DEF Told, Unhurried, ReadsAreCovered
<1>5. \A r \in Rooms : last_read'[r] = last_read[r] \/ (r = x.room /\ last_read'[r] = x.id)
  BY <1>1, <1>2 DEF Larger
<1>6. \A r \in Rooms : last_read'[r] \in Known /\ (~hasty => Covered(r, last_read'[r]))
  BY <1>3, <1>4, <1>5, ReadPositions
<1>7. /\ OnScreen' = OnScreen /\ Coming' = Coming
      /\ UNCHANGED <<messages, selections, older, lastMessageId, oldestMessageId,
                     isLoadingMessages, currentRoom, hasty, arrivals, shown, unheard>>
  BY <1>1 DEF paging, document, OnScreen, Coming, IsMessage
<1>8. WireInOrder'
  BY <1>1, <1>7 DEF Told, WireInOrder, IsMessage
<1>9. RowsStay
  BY <1>1, SameRows
<1> QED BY <1>1, <1>6, <1>7, <1>8, <1>9, ElsewhereTold

\* Steps that touch neither the rows nor what is displayed.
LEMMA ConnectionTold ==
  ASSUME Typed, Told,
         ServeFrame \/ Disconnect \/ Reconnect \/ Rejoin \/ UNCHANGED vars
  PROVE  Told'
<1>1. /\ UNCHANGED <<messages, last_read, reads, currentRoom, selections, paging, older,
                     document, hasty>>
      /\ \/ UNCHANGED <<down, unheard>>
         \/ down' = <<>> /\ unheard' = unheard \cup {down[k].id : k \in DOMAIN down}
  BY DEF ServeFrame, Disconnect, Reconnect, Rejoin, vars, server, wire, paging, document
<1>2. Coming \subseteq Coming' \cup unheard' /\ unheard \subseteq unheard'
  BY <1>1 DEF Coming, IsMessage
<1>3. /\ OnScreen' = OnScreen
      /\ UNCHANGED <<messages, selections, older, lastMessageId, oldestMessageId,
                     isLoadingMessages, currentRoom, hasty, arrivals, shown>>
  BY <1>1 DEF paging, document, OnScreen
<1>4. WireInOrder'
  BY <1>1, <1>3 DEF Told, WireInOrder, IsMessage
<1>5. RowsStay
  BY <1>1, SameRows
<1> QED BY <1>1, <1>2, <1>3, <1>4, <1>5, ReadPositions, ElsewhereTold

LEMMA ApplyEditTold ==
  ASSUME Typed, Told, NEW x \in edits, ApplyEdit(x) PROVE Told'
<1>1. /\ SetText(x.id, x.content)
      /\ UNCHANGED <<messages, last_read, down, reads, currentRoom, selections, paging, older,
                     arrivals, shown, unheard, hasty>>
  BY DEF ApplyEdit, server, wire
<1>2. view \in Seq(Elements) /\ x.content \in Contents
  BY DEF Typed, DocumentTypes
<1>3. /\ view' \in Seq(Elements) /\ Len(view') = Len(view)
      /\ \A p \in DOMAIN view : view'[p].id = view[p].id
  BY <1>1, <1>2, SetTextTyped
<1>4. DOMAIN view' = DOMAIN view
  BY <1>2, <1>3
<1>5. OnScreen' = OnScreen /\ Coming' = Coming
  BY <1>1, <1>3, <1>4 DEF OnScreen, Coming, IsMessage
<1>6. WireInOrder' /\ RowsStay
  BY <1>1, SameRows DEF Told, WireInOrder, IsMessage
<1>7. UNCHANGED <<lastMessageId, oldestMessageId, isLoadingMessages>>
  BY <1>1 DEF paging
<1> QED BY <1>1, <1>5, <1>6, <1>7, ReadPositions, ElsewhereTold

\* Of the messages of the current room, those up to one that the socket has brought
\* are accounted for: what it has still to bring is newer.
LEMMA UpToDelivered ==
  ASSUME Typed, Told, ~hasty, NEW j \in Int,
         \A k \in DOMAIN down : IsMessage(k) => j < down[k].id
  PROVE  Covered(currentRoom, j)
<1> SUFFICES ASSUME NEW i \in DOMAIN messages, messages[i].room = currentRoom, i <= j
             PROVE  i \in Got
  BY DEF Covered
<1>1. i \in Here \cup Coming
  BY DEF Told, Unhurried, RoomIsHere
<1>2. i \notin Coming
  BY RowsLength DEF Coming
<1>3. Here \subseteq Got
  BY DEF Here, Got, Told, IdsAreStored, PageIdsAreStored
<1> QED BY <1>1, <1>2, <1>3

LEMMA FirstRemoved ==
  ASSUME NEW S, NEW s \in Seq(S), 1 \in DOMAIN s
  PROVE  /\ Len(s) \in Nat /\ Len(s) >= 1 /\ DOMAIN s = 1 .. Len(s)
         /\ DOMAIN RemoveAt(s, 1) = 1 .. Len(s) - 1
         /\ \A p \in 1 .. Len(s) - 1 : RemoveAt(s, 1)[p] = s[p + 1]
<1> DEFINE a == SubSeq(s, 1, 0)
           b == SubSeq(s, 2, Len(s))
<1>1. Len(s) \in Nat /\ Len(s) >= 1 /\ DOMAIN s = 1 .. Len(s)
  OBVIOUS
<1>2. a \in Seq(S) /\ Len(a) = 0
  OBVIOUS
<1>3. /\ b \in Seq(S) /\ Len(b) = Len(s) - 1
      /\ \A p \in 1 .. Len(s) - 1 : b[p] = s[p + 1]
  BY <1>1
<1>4. RemoveAt(s, 1) = a \o b
  BY DEF RemoveAt
<1> HIDE DEF a, b
<1>5. a \o b = b
  BY <1>2, <1>3
<1>6. DOMAIN b = 1 .. Len(s) - 1
  BY <1>1, <1>3
<1> QED BY <1>1, <1>3, <1>4, <1>5, <1>6

LEMMA DeliverTold ==
  ASSUME InOrder, Typed, Told, NEW k \in DOMAIN down, Deliver(k) PROVE Told'
<1> DEFINE e == down[1]
           fresh == e.type = "message" /\ IsHere(e.id)
<1>1. /\ k = 1 /\ down' = RemoveAt(down, 1)
      /\ UNCHANGED <<messages, last_read, joined, currentRoom, selections, paging, older, shown,
                     unheard, hasty>>
  BY DEF Deliver, server
<1>2. /\ arrivals' = IF fresh THEN arrivals \cup {e.id} ELSE arrivals
      /\ \/ reads' = reads
         \/ fresh /\ reads' = reads \cup {[room |-> currentRoom, id |-> e.id]}
      /\ view' = view \/ SetText(e.id, Hidden)
  <2>1. e.type \in {"message", "message_edited", "message_deleted"}
    BY <1>1, EventIds DEF Events
  <2>2. CASE e.type = "message"
    BY <1>1, <2>2 DEF Deliver, markRoomAsRead
  <2>3. CASE e.type = "message_edited"
    BY <1>1, <2>3 DEF Deliver
  <2>4. CASE e.type = "message_deleted"
    BY <1>1, <2>4 DEF Deliver
  <2> QED BY <2>1, <2>2, <2>3, <2>4
<1>3. e.id \in DOMAIN messages /\ e.id \in Int /\ e.id \in Known
  BY <1>1, EventIds, RowsLength DEF Known
<1>4. /\ Len(down) \in Nat /\ Len(down) >= 1 /\ DOMAIN down = 1 .. Len(down)
      /\ DOMAIN down' = 1 .. Len(down) - 1
      /\ \A p \in 1 .. Len(down) - 1 : down'[p] = down[p + 1]
  BY <1>1, FirstRemoved DEF Typed, WireTypes
<1>5. \A p \in DOMAIN down' : /\ p + 1 \in DOMAIN down /\ down'[p] = down[p + 1]
                              /\ 1 < p + 1 /\ p \in Int
  BY <1>4
<1>6. \A i \in Coming : i \in Coming' \/ (e.type = "message" /\ i = e.id)
  <2> SUFFICES ASSUME NEW l \in DOMAIN down, IsMessage(l), l # 1
               PROVE  down[l].id \in Coming'
    BY DEF Coming, IsMessage
  <2>1. l - 1 \in DOMAIN down' /\ down'[l - 1] = down[l]
    BY <1>4
  <2> QED BY <2>1 DEF Coming, IsMessage
<1>7. e.type = "message" => \A p \in DOMAIN down' : IsMessage(p)' => e.id < down'[p].id
  BY <1>4, <1>5 DEF Told, WireInOrder, IsMessage
<1>8. OnScreen' = OnScreen
  <2>1. CASE view' = view
    BY <2>1 DEF OnScreen
  <2>2. CASE SetText(e.id, Hidden)
    <3>1. view \in Seq(Elements)
      BY DEF Typed, DocumentTypes
    <3>2. /\ view' \in Seq(Elements) /\ Len(view') = Len(view)
          /\ \A p \in DOMAIN view : view'[p].id = view[p].id
      BY <2>2, <3>1, SetTextTyped
    <3> QED BY <3>1, <3>2 DEF OnScreen
  <2> QED BY <1>2, <2>1, <2>2
<1> HIDE DEF fresh, e
<1>9. /\ UNCHANGED <<lastMessageId, oldestMessageId, isLoadingMessages>>
      /\ arrivals \subseteq arrivals' /\ arrivals' \subseteq arrivals \cup {e.id}
  BY <1>1, <1>2 DEF paging
<1>10. RowsStay /\ GotStays /\ Here \subseteq Here' /\ Known' = Known
  BY <1>1, <1>8, <1>9, SameRows DEF GotStays, Got, Here, LoadingIds, Loading, Known
<1>11. WireInOrder'
  <2>1. \A p, q \in DOMAIN down' :
           p < q /\ IsMessage(p)' /\ IsMessage(q)' => down'[p].id < down'[q].id
    BY <1>5 DEF Told, WireInOrder, IsMessage
  <2>2. \A j \in arrivals, p \in DOMAIN down' : IsMessage(p)' => j < down'[p].id
    BY <1>5 DEF Told, WireInOrder, IsMessage
  <2>3. e.id \in arrivals' => e.id \in arrivals \/ e.type = "message"
    BY <1>2 DEF fresh
  <2> QED BY <1>7, <1>9, <2>1, <2>2, <2>3 DEF WireInOrder
<1>12. IdsAreStored'
  <2>1. PageIdsAreStored' /\ LoadIdsAreStored' /\ OlderIdsAreStored'
    BY <1>1, <1>3, <1>8, <1>9, <1>10 DEF Told, IdsAreStored, PageIdsAreStored,
       LoadIdsAreStored, OlderIdsAreStored
  <2>2. ReadIdsAreStored'
    BY <1>1, <1>2, <1>3, <1>10 DEF Told, IdsAreStored, ReadIdsAreStored
  <2> QED BY <2>1, <2>2 DEF IdsAreStored
<1>13. ASSUME ~hasty' PROVE Unhurried'
  <2>1. Unhurried /\ IdsAreStored /\ ~hasty
    BY <1>1, <1>13 DEF Told
  <2>2. OneAtATime'
    BY <1>1, <1>9, <2>1 DEF Unhurried, OneAtATime, InProgress
  <2>3. RoomIsHere'
    <3> SUFFICES ASSUME NEW i \in DOMAIN messages, messages[i].room = currentRoom
                 PROVE  i \in Here' \cup Coming'
      BY <1>1 DEF RoomIsHere
    <3>1. i \in Here \cup Coming
      BY <2>1 DEF Unhurried, RoomIsHere
    <3>2. CASE e.type = "message" /\ i = e.id
      BY <1>2, <3>2 DEF fresh, IsHere, Here
    <3> QED BY <1>6, <1>10, <3>1, <3>2
  <2>4. PageIsCovered'
    BY <1>1, <1>9, <1>10, <2>1, PageStays DEF Unhurried
  <2>5. ASSUME fresh PROVE CoveredNext(currentRoom, e.id)
    <3> SUFFICES ASSUME NEW i \in DOMAIN messages, messages[i].room = currentRoom, i <= e.id
                 PROVE  i \in Got'
      BY <1>1 DEF CoveredNext
    <3>1. i \in Here' \cup Coming'
      BY <1>1, <2>3 DEF RoomIsHere
    <3>2. i \notin Coming'
      BY <1>3, <1>7, <2>5, RowsLength DEF Coming, fresh
    <3>3. Here' \subseteq Got'
      BY <1>12 DEF Here, Got, IdsAreStored, PageIdsAreStored
    <3> QED BY <3>1, <3>2, <3>3
  <2>6. \A x \in reads : CoveredNext(x.room, x.id)
    <3>1. \A x \in reads : x.id \in Known /\ Covered(x.room, x.id)
      BY <2>1, RowsLength DEF Unhurried, ReadsAreCovered, IdsAreStored, ReadIdsAreStored, Known
    <3> QED BY <1>10, <3>1, StillCovered
  <2>7. \A r \in Rooms : CoveredNext(r, last_read[r])
    BY <1>10, <2>1, StillCovered DEF Unhurried, ReadsAreCovered, IdsAreStored, ReadIdsAreStored
  <2>8. \A x \in reads' : CoveredNext(x.room, x.id)
    BY <1>2, <2>5, <2>6
  <2>9. ReadsAreCovered'
    BY <1>1, <2>7, <2>8 DEF ReadsAreCovered, Covered, CoveredNext
  <2> QED BY <2>2, <2>3, <2>4, <2>9 DEF Unhurried
<1> QED BY <1>11, <1>12, <1>13 DEF Told

\* An element put at the end of the document.
LEMMA AppendedToView ==
  ASSUME Typed, NEW e \in Elements, view' = Append(view, e)
  PROVE  OnScreen' = OnScreen \cup {e.id}
<1>1. /\ DOMAIN view = 1 .. Len(view) /\ DOMAIN view' = 1 .. Len(view) + 1 /\ Len(view) \in Nat
      /\ view'[Len(view) + 1] = e /\ \A p \in DOMAIN view : view'[p] = view[p]
  BY ViewLength
<1>2. Len(view) + 1 \in DOMAIN view' /\ DOMAIN view \subseteq DOMAIN view'
  BY <1>1
<1>3. \A p \in DOMAIN view' : p \in DOMAIN view \/ p = Len(view) + 1
  BY <1>1
<1> QED BY <1>1, <1>2, <1>3 DEF OnScreen

LEMMA ArriveTold ==
  ASSUME Typed, Told, NEW i \in arrivals, Arrive(i) PROVE Told'
<1> DEFINE e == [id |-> i, text |-> 0, live |-> TRUE]
<1>1. /\ arrivals' = arrivals \ {i} /\ view' = Append(view, e) /\ shown' = shown \cup {i}
      /\ lastMessageId' = Larger(lastMessageId, i)
      /\ UNCHANGED <<messages, last_read, down, reads, currentRoom, selections,
                     isLoadingMessages, oldestMessageId, older, unheard, hasty>>
  BY DEF Arrive, server, wire
<1>2. i \in DOMAIN messages /\ i \in Int /\ i \in Known /\ lastMessageId \in Known
  BY RowsLength DEF Told, IdsAreStored, PageIdsAreStored, Known
<1>3. OnScreen' = OnScreen \cup {i}
  <2>1. e \in Elements /\ e.id = i
    BY Bounds DEF Typed, DocumentTypes, Elements, Contents
  <2> QED BY <1>1, <2>1, AppendedToView
<1>4. /\ RowsStay /\ GotStays /\ Here \subseteq Here' /\ Known' = Known /\ Coming' = Coming
  BY <1>1, <1>3, SameRows
     DEF GotStays, Got, Here, LoadingIds, Loading, Known, Coming, IsMessage
<1>5. lastMessageId' \in {lastMessageId, i}
  BY <1>1 DEF Larger
<1>6. WireInOrder'
  BY <1>1 DEF Told, WireInOrder, IsMessage
<1>7. IdsAreStored'
  BY <1>1, <1>2, <1>3, <1>4, <1>5 DEF Told, IdsAreStored, PageIdsAreStored, LoadIdsAreStored,
     OlderIdsAreStored, ReadIdsAreStored
<1>8. ASSUME ~hasty' PROVE Unhurried'
  <2>1. Unhurried /\ IdsAreStored /\ ~hasty
    BY <1>1, <1>8 DEF Told
  <2>2. OneAtATime'
    BY <1>1, <2>1 DEF Unhurried, OneAtATime, InProgress
  <2>3. RoomIsHere'
    BY <1>1, <1>4, <2>1 DEF Unhurried, RoomIsHere
  <2>4. Covered(currentRoom, i)
    BY <1>2, <2>1, UpToDelivered DEF Told, WireInOrder
  <2>5. CoveredNext(currentRoom, lastMessageId')
    BY <1>2, <1>4, <1>5, <2>1, <2>4, StillCovered DEF Unhurried, PageIsCovered
  <2>6. PageIsCovered'
    <3>1. CoveredNext(currentRoom, oldestMessageId)
      BY <1>4, <2>1, StillCovered DEF Unhurried, PageIsCovered, IdsAreStored, PageIdsAreStored
    <3>2. ASSUME NEW n \in DOMAIN selections, selections[n].at = "rows"
          PROVE  /\ CoveredNext(selections[n].room, selections[n].first)
                 /\ \A x \in selections[n].rows : CoveredNext(selections[n].room, x.id)
      <4>1. selections[n].first \in Known
        BY <2>1 DEF IdsAreStored, LoadIdsAreStored
      <4>2. \A x \in selections[n].rows : x.id \in Known
        BY <2>1, RowsLength DEF IdsAreStored, LoadIdsAreStored, Known
      <4> QED BY <1>4, <2>1, <3>2, <4>1, <4>2, StillCovered DEF Unhurried, PageIsCovered
    <3>3. older.at # "idle" => CoveredNext(older.room, older.before)
      BY <1>4, <2>1, StillCovered DEF Unhurried, PageIsCovered, IdsAreStored, OlderIdsAreStored
    <3> QED BY <1>1, <2>5, <3>1, <3>2, <3>3 DEF PageIsCovered, Covered, CoveredNext
  <2>7. ReadsAreCovered'
    BY <1>1, <1>4, <2>1, ReadsStay DEF Unhurried
  <2> QED BY <2>2, <2>3, <2>6, <2>7 DEF Unhurried
<1> QED BY <1>6, <1>7, <1>8 DEF Told

LEMMA SelectRoomTold ==
  ASSUME Typed, Order, Told, NEW r \in Rooms, SelectRoom(r) PROVE Told'
<1> DEFINE load == [room |-> r, at |-> "keys", rows |-> {}, first |-> NoMessage, size |-> 0]
           last == Len(selections) + 1
<1>1. /\ selections' = Append(selections, load) /\ currentRoom' = r
      /\ hasty' = (hasty \/ isLoadingMessages \/ \E n \in DOMAIN selections : InProgress(n))
      /\ lastMessageId' = NoMessage /\ oldestMessageId' = NoMessage
      /\ UNCHANGED <<messages, last_read, down, reads, isLoadingMessages, older, view, arrivals,
                     shown, unheard>>
  BY DEF SelectRoom, server, document
<1>2. /\ DOMAIN selections = 1 .. Len(selections) /\ Len(selections) \in Nat
      /\ DOMAIN selections' = 1 .. last /\ Len(selections') = last
      /\ \A n \in DOMAIN selections : selections'[n] = selections[n]
      /\ selections'[last] = load
  <2>1. selections \in Seq(Loads)
    BY DEF Typed, SelectionTypes
  <2>2. load \in Loads
    BY Bounds DEF Loads, NoMessage
  <2> QED BY <1>1, <2>1, <2>2
<1>3. /\ last \in DOMAIN selections' /\ load.at = "keys" /\ load.room = r /\ load.rows = {}
      /\ load.first = NoMessage
      /\ \A n \in DOMAIN selections' : n = last \/ n \in DOMAIN selections
      /\ DOMAIN selections \subseteq DOMAIN selections'
  BY <1>2
<1> HIDE DEF load, last
<1>4. LoadingIds \subseteq LoadingIds'
  BY <1>1, <1>2, <1>3 DEF LoadingIds, Loading
<1>5. \A i \in DOMAIN messages : messages[i].room = r => i \in LoadingIds'
  BY <1>1, <1>2, <1>3 DEF LoadingIds, Loading
<1>6. RowsStay /\ GotStays /\ Known' = Known /\ OnScreen' = OnScreen /\ NoMessage \in Known
  BY <1>1, <1>4, SameRows, RowsLength DEF GotStays, Got, Known, OnScreen, NoMessage
<1>7. WireInOrder'
  BY <1>1 DEF Told, WireInOrder, IsMessage
<1>8. IdsAreStored'
  <2>1. PageIdsAreStored' /\ OlderIdsAreStored' /\ ReadIdsAreStored'
    BY <1>1, <1>6 DEF Told, IdsAreStored, PageIdsAreStored, OlderIdsAreStored, ReadIdsAreStored
  <2>2. LoadIdsAreStored'
    BY <1>1, <1>2, <1>3, <1>6 DEF Told, IdsAreStored, LoadIdsAreStored
  <2> QED BY <2>1, <2>2 DEF IdsAreStored
<1>9. ASSUME ~hasty' PROVE Unhurried'
  <2>1. /\ Unhurried /\ IdsAreStored /\ ~isLoadingMessages
        /\ \A n \in DOMAIN selections : ~InProgress(n)
    BY <1>1, <1>9 DEF Told
  <2>2. older.at = "idle"
    BY <2>1 DEF Order, Exclusive
  <2>3. OneAtATime'
    <3>1. \A n \in DOMAIN selections' : InProgress(n)' => n = last
      BY <1>2, <1>3, <2>1 DEF InProgress
    <3> QED BY <1>1, <1>2, <1>3, <2>1, <2>2, <3>1 DEF OneAtATime
  <2>4. RoomIsHere'
    BY <1>1, <1>5 DEF RoomIsHere, Here
  <2>5. PageIsCovered'
    <3>1. \A n \in DOMAIN selections' : selections'[n].at # "rows"
      BY <1>2, <1>3, <2>1 DEF InProgress
    <3>2. \A i \in DOMAIN messages : messages[i].room = r => i \in Got'
      BY <1>5 DEF Got
    <3> QED BY <1>1, <2>2, <3>1, <3>2 DEF PageIsCovered, Covered
  <2>6. ReadsAreCovered'
    BY <1>1, <1>6, <2>1, ReadsStay DEF Unhurried
  <2> QED BY <2>3, <2>4, <2>5, <2>6 DEF Unhurried
<1> QED BY <1>7, <1>8, <1>9 DEF Told

\* Without hurry, a room whose keys have come is the current one, and its history is
\* fetched.
LEMMA KeysLoadedTold ==
  ASSUME Typed, Order, Told, NEW n \in DOMAIN selections, KeysLoaded(n) PROVE Told'
<1> DEFINE next == [selections[n] EXCEPT !.at = IF isLoadingMessages THEN "done" ELSE "history"]
<1>1. /\ selections[n].at = "keys"
      /\ selections' = [selections EXCEPT ![n] = next] /\ isLoadingMessages' = TRUE
      /\ view' = <<>> /\ lastMessageId' = NoMessage /\ oldestMessageId' = NoMessage
      /\ older' = [older EXCEPT !.anchor = IF older.at = "rows" THEN "gone" ELSE @]
      /\ UNCHANGED <<messages, last_read, down, reads, currentRoom, arrivals, shown, unheard, hasty>>
  BY DEF KeysLoaded, loadMessages, server
<1>2. /\ next.at = IF isLoadingMessages THEN "done" ELSE "history"
      /\ next.room = selections[n].room /\ next.rows = selections[n].rows
      /\ next.first = selections[n].first
  BY SelectionType DEF Loads
<1> HIDE DEF next
<1>3. /\ DOMAIN selections' = DOMAIN selections /\ Len(selections') = Len(selections)
      /\ selections'[n] = next
      /\ \A k \in DOMAIN selections : k # n => selections'[k] = selections[k]
  BY <1>1, Moved DEF Typed, SelectionTypes
<1>4. /\ older'.at = older.at /\ older'.room = older.room /\ older'.before = older.before
      /\ older'.rows = older.rows /\ older'.first = older.first
  BY <1>1 DEF Typed, OlderTypes, OlderLoads
<1>5. RowsStay /\ Known' = Known /\ OnScreen' = {} /\ NoMessage \in Known
  BY <1>1, SameRows, RowsLength DEF Known, OnScreen, NoMessage
<1>6. WireInOrder'
  BY <1>1 DEF Told, WireInOrder, IsMessage
<1>7. IdsAreStored'
  <2>1. PageIdsAreStored' /\ ReadIdsAreStored'
    BY <1>1, <1>5 DEF Told, IdsAreStored, PageIdsAreStored, ReadIdsAreStored
  <2>2. OlderIdsAreStored'
    BY <1>4, <1>5 DEF Told, IdsAreStored, OlderIdsAreStored
  <2>3. LoadIdsAreStored'
    BY <1>1, <1>2, <1>3, <1>5 DEF Told, IdsAreStored, LoadIdsAreStored
  <2> QED BY <2>1, <2>2, <2>3 DEF IdsAreStored
<1>8. ASSUME ~hasty' PROVE Unhurried'
  <2>1. Unhurried /\ IdsAreStored /\ ~hasty
    BY <1>1, <1>8 DEF Told
  <2>2. n = Len(selections) /\ selections[n].room = currentRoom /\ ~isLoadingMessages
    BY <1>1, <2>1 DEF Unhurried, OneAtATime, InProgress
  <2>3. LoadingIds \subseteq LoadingIds' /\ GotStays
    <3>1. LoadingIds \subseteq LoadingIds'
      BY <1>1, <1>2, <1>3, <2>2 DEF LoadingIds, Loading
    <3> QED BY <1>1, <3>1 DEF GotStays, Got
  <2>4. \A i \in DOMAIN messages : messages[i].room = currentRoom => i \in LoadingIds'
    BY <1>1, <1>2, <1>3, <2>2 DEF LoadingIds, Loading
  <2>5. OneAtATime'
    BY <1>1, <1>2, <1>3, <1>4, <2>1, <2>2 DEF Unhurried, OneAtATime, InProgress
  <2>6. RoomIsHere'
    BY <1>1, <2>4 DEF RoomIsHere, Here
  <2>7. PageIsCovered'
    <3>1. \A k \in DOMAIN selections' : selections'[k].at # "rows"
      BY <1>2, <1>3, <2>1, <2>2 DEF InProgress, Unhurried, OneAtATime
    <3>2. \A i \in DOMAIN messages : messages[i].room = currentRoom => i \in Got'
      BY <2>4 DEF Got
    <3>3. older.at = "idle"
      BY <2>2 DEF Order, Exclusive
    <3> QED BY <1>1, <1>4, <3>1, <3>2, <3>3 DEF PageIsCovered, Covered
  <2>8. ReadsAreCovered'
    BY <1>1, <1>5, <2>1, <2>3, ReadsStay DEF Unhurried
  <2> QED BY <2>5, <2>6, <2>7, <2>8 DEF Unhurried
<1> QED BY <1>6, <1>7, <1>8 DEF Told

\* loadMessages marks the room as read up to what is covered.
LEMMA LoadedMarks ==
  ASSUME NEW n, NEW last, Loaded(n, last)
  PROVE  /\ isLoadingMessages' = FALSE
         /\ \A x \in reads' : x \in reads \/ (last # NoMessage /\ x.room = selections[n].room
                                              /\ x.id = last)
BY DEF Loaded, markRoomAsRead

LEMMA MarkedCovered ==
  ASSUME Typed, RowsStay, GotStays, IdsAreStored, ReadsAreCovered, UNCHANGED last_read,
         NEW r, NEW b, CoveredNext(r, b),
         \A x \in reads' : x \in reads \/ (x.room = r /\ x.id = b)
  PROVE  ReadsAreCovered'
<1>1. \A x \in reads : x.id \in Known /\ Covered(x.room, x.id)
  BY RowsLength DEF ReadsAreCovered, IdsAreStored, ReadIdsAreStored, Known
<1>2. \A x \in reads' : CoveredNext(x.room, x.id)
  BY <1>1, StillCovered
<1>3. \A r1 \in Rooms : CoveredNext(r1, last_read[r1])
  BY StillCovered DEF ReadsAreCovered, IdsAreStored, ReadIdsAreStored
<1> QED BY <1>2, <1>3 DEF ReadsAreCovered, Covered, CoveredNext

\* The rows of an answer are those of its newest messages.
LEMMA RowsAreNewest ==
  ASSUME NEW S
  PROVE  /\ \A i \in Newest(S) : \E x \in get_messages(S) : x.id = i
         /\ \A x \in get_messages(S) : x.id \in Newest(S)
<1>1. \A i : Row(i).id = i
  BY DEF Row
<1> QED BY <1>1 DEF get_messages

LEMMA ServeHistoryTold ==
  ASSUME Typed, Order, Told, NEW n \in DOMAIN selections, ServeHistory(n) PROVE Told'
<1> DEFINE r == selections[n].room
           S == Stored(r)
           rows == get_messages(S)
           next == IF rows = {} THEN [selections[n] EXCEPT !.at = "done"]
                   ELSE [selections[n] EXCEPT !.at = "rows", !.rows = rows,
                                              !.size = Cardinality(rows)]
<1>1. /\ selections[n].at = "history"
      /\ unheard' = (unheard \ S) \cup (S \ Newest(S))
      /\ selections' = [selections EXCEPT ![n] = next]
      /\ \/ UNCHANGED <<isLoadingMessages, reads>>
         \/ Loaded(n, lastMessageId)
      /\ UNCHANGED <<messages, last_read, down, currentRoom, lastMessageId, oldestMessageId, older,
                     view, arrivals, shown, hasty>>
  BY DEF ServeHistory, server, document
<1>2. /\ next.at = IF rows = {} THEN "done" ELSE "rows"
      /\ next.room = r /\ next.first = selections[n].first
      /\ next.rows = IF rows = {} THEN selections[n].rows ELSE rows
  BY SelectionType DEF Loads
<1>3. selections[n].rows = {}
  BY <1>1 DEF Told, IdsAreStored, LoadIdsAreStored
<1>4. S \subseteq DOMAIN messages /\ \A x \in rows : x.id \in S
  BY StoredTyped, RowsTyped
<1>5. \A i \in S : i \in unheard' \/ \E x \in rows : x.id = i
  BY <1>1, RowsAreNewest
<1>6. \A i \in DOMAIN messages : i \in S <=> messages[i].room = r
  BY DEF Stored
<1>7. next.rows = rows
  BY <1>2, <1>3
<1> HIDE DEF next, rows, S, r
<1>8. /\ DOMAIN selections' = DOMAIN selections /\ Len(selections') = Len(selections)
      /\ selections'[n] = next
      /\ \A k \in DOMAIN selections : k # n => selections'[k] = selections[k]
  BY <1>1, Moved DEF Typed, SelectionTypes
<1>9. \A i \in S : i \in unheard' \cup LoadingIds'
  BY <1>1, <1>4, <1>5, <1>7, <1>8 DEF LoadingIds, Loading
<1>10. \A i \in DOMAIN messages : i \in LoadingIds => i \in S \cup LoadingIds'
  <2> SUFFICES ASSUME NEW i \in DOMAIN messages, i \in LoadingIds, i \notin S
               PROVE  i \in LoadingIds'
    OBVIOUS
  <2>1. PICK k \in DOMAIN selections :
           \/ selections[k].at \in {"keys", "history"} /\ selections[k].room = messages[i].room
           \/ \E x \in selections[k].rows : x.id = i
    BY DEF LoadingIds, Loading
  <2>2. k # n
    BY <1>3, <1>6, <2>1 DEF r
  <2> QED BY <1>1, <1>8, <2>1, <2>2 DEF LoadingIds, Loading
<1>11. /\ RowsStay /\ GotStays /\ Known' = Known /\ OnScreen' = OnScreen /\ Coming' = Coming
       /\ Here \cap DOMAIN messages \subseteq Here'
  BY <1>1, <1>9, <1>10, SameRows
     DEF GotStays, Got, Here, Known, OnScreen, Coming, IsMessage, LoadingIds
<1>12. WireInOrder'
  BY <1>1 DEF Told, WireInOrder, IsMessage
<1>13. \A x \in reads' : x \in reads \/ (lastMessageId # NoMessage /\ x.room = r
                                         /\ x.id = lastMessageId)
  BY <1>1, LoadedMarks DEF r
<1>14. IdsAreStored'
  <2>1. PageIdsAreStored' /\ OlderIdsAreStored'
    BY <1>1, <1>11 DEF Told, IdsAreStored, PageIdsAreStored, OlderIdsAreStored
  <2>2. LoadIdsAreStored'
    BY <1>1, <1>2, <1>4, <1>7, <1>8, <1>11 DEF Told, IdsAreStored, LoadIdsAreStored
  <2>3. ReadIdsAreStored'
    BY <1>1, <1>11, <1>13, RowsLength
       DEF Told, IdsAreStored, PageIdsAreStored, ReadIdsAreStored, Known, NoMessage
  <2> QED BY <2>1, <2>2, <2>3 DEF IdsAreStored
<1>15. ASSUME ~hasty' PROVE Unhurried'
  <2>1. Unhurried /\ IdsAreStored /\ ~hasty
    BY <1>1, <1>15 DEF Told
  <2>2. r = currentRoom
    BY <1>1, <2>1 DEF Unhurried, OneAtATime, InProgress, r
  <2>3. OneAtATime'
    BY <1>1, <1>2, <1>8, <2>1, LoadedMarks DEF Unhurried, OneAtATime, InProgress, r
  <2>4. RoomIsHere'
    BY <1>1, <1>6, <1>9, <2>2 DEF RoomIsHere, Here
  <2>5. \A b : CoveredNext(r, b)
    BY <1>1, <1>6, <1>9 DEF CoveredNext, Got
  <2>6. PageIsCovered'
    <3>1. ASSUME NEW k \in DOMAIN selections', selections'[k].at = "rows"
          PROVE  /\ CoveredNext(selections'[k].room, selections'[k].first)
                 /\ \A x \in selections'[k].rows : CoveredNext(selections'[k].room, x.id)
      <4>1. k = n
        BY <1>1, <1>8, <2>1, <3>1 DEF Unhurried, OneAtATime, InProgress
      <4> QED BY <1>2, <1>8, <2>5, <4>1
    <3>2. older.at # "idle" => CoveredNext(older.room, older.before)
      BY <1>11, <2>1, StillCovered DEF Unhurried, PageIsCovered, IdsAreStored, OlderIdsAreStored
    <3> QED BY <1>1, <2>2, <2>5, <3>1, <3>2 DEF PageIsCovered, Covered, CoveredNext
  <2>7. ReadsAreCovered'
    BY <1>1, <1>11, <1>13, <2>1, <2>5, MarkedCovered DEF Unhurried
  <2> QED BY <2>3, <2>4, <2>6, <2>7 DEF Unhurried
<1> QED BY <1>12, <1>14, <1>15 DEF Told

LEMMA HistoryFailsTold ==
  ASSUME Typed, Order, Told, NEW n \in DOMAIN selections, HistoryFails(n) PROVE Told'
<1> DEFINE r == selections[n].room
           next == [selections[n] EXCEPT !.at = "done"]
<1>1. /\ selections[n].at = "history"
      /\ unheard' = unheard \cup Stored(r)
      /\ selections' = [selections EXCEPT ![n] = next]
      /\ Loaded(n, lastMessageId)
      /\ UNCHANGED <<messages, last_read, down, currentRoom, lastMessageId, oldestMessageId, older,
                     view, arrivals, shown, hasty>>
  BY DEF HistoryFails, server, document
<1>2. next.at = "done" /\ next.first = selections[n].first /\ next.rows = selections[n].rows
  BY SelectionType DEF Loads
<1>3. selections[n].rows = {}
  BY <1>1 DEF Told, IdsAreStored, LoadIdsAreStored
<1>4. \A i \in DOMAIN messages : i \in Stored(r) <=> messages[i].room = r
  BY DEF Stored
<1> HIDE DEF next, r
<1>5. /\ DOMAIN selections' = DOMAIN selections /\ Len(selections') = Len(selections)
      /\ selections'[n] = next
      /\ \A k \in DOMAIN selections : k # n => selections'[k] = selections[k]
  BY <1>1, Moved DEF Typed, SelectionTypes
<1>6. \A i \in LoadingIds : i \in unheard' \cup LoadingIds'
  <2> SUFFICES ASSUME NEW i \in DOMAIN messages, i \in LoadingIds, i \notin Stored(r)
               PROVE  i \in LoadingIds'
    BY <1>1 DEF LoadingIds
  <2>1. PICK k \in DOMAIN selections :
           \/ selections[k].at \in {"keys", "history"} /\ selections[k].room = messages[i].room
           \/ \E x \in selections[k].rows : x.id = i
    BY DEF LoadingIds, Loading
  <2>2. k # n
    BY <1>3, <1>4, <2>1 DEF r
  <2> QED BY <1>1, <1>5, <2>1, <2>2 DEF LoadingIds, Loading
<1>7. /\ RowsStay /\ GotStays /\ Known' = Known /\ OnScreen' = OnScreen
  BY <1>1, <1>6, SameRows DEF GotStays, Got, Known, OnScreen
<1>8. WireInOrder'
  BY <1>1 DEF Told, WireInOrder, IsMessage
<1>9. /\ isLoadingMessages' = FALSE
      /\ \A x \in reads' : x \in reads \/ (lastMessageId # NoMessage /\ x.room = r
                                           /\ x.id = lastMessageId)
  BY <1>1, LoadedMarks DEF r
<1>10. IdsAreStored'
  <2>1. PageIdsAreStored' /\ OlderIdsAreStored'
    BY <1>1, <1>7 DEF Told, IdsAreStored, PageIdsAreStored, OlderIdsAreStored
  <2>2. LoadIdsAreStored'
    BY <1>1, <1>2, <1>3, <1>5, <1>7 DEF Told, IdsAreStored, LoadIdsAreStored
  <2>3. ReadIdsAreStored'
    BY <1>1, <1>7, <1>9, RowsLength
       DEF Told, IdsAreStored, PageIdsAreStored, ReadIdsAreStored, Known, NoMessage
  <2> QED BY <2>1, <2>2, <2>3 DEF IdsAreStored
<1>11. ASSUME ~hasty' PROVE Unhurried'
  <2>1. Unhurried /\ IdsAreStored /\ ~hasty
    BY <1>1, <1>11 DEF Told
  <2>2. r = currentRoom
    BY <1>1, <2>1 DEF Unhurried, OneAtATime, InProgress, r
  <2>3. OneAtATime'
    BY <1>1, <1>2, <1>5, <1>9, <2>1 DEF Unhurried, OneAtATime, InProgress
  <2>4. RoomIsHere'
    BY <1>1, <1>4, <2>2 DEF RoomIsHere, Here
  <2>5. \A b : CoveredNext(r, b)
    BY <1>1, <1>4 DEF CoveredNext, Got
  <2>6. PageIsCovered'
    <3>1. \A k \in DOMAIN selections' : selections'[k].at # "rows"
      BY <1>1, <1>2, <1>5, <2>1 DEF Unhurried, OneAtATime, InProgress
    <3>2. older.at # "idle" => CoveredNext(older.room, older.before)
      BY <1>7, <2>1, StillCovered DEF Unhurried, PageIsCovered, IdsAreStored, OlderIdsAreStored
    <3> QED BY <1>1, <2>2, <2>5, <3>1, <3>2 DEF PageIsCovered, Covered, CoveredNext
  <2>7. ReadsAreCovered'
    BY <1>1, <1>7, <1>9, <2>1, <2>5, MarkedCovered DEF Unhurried
  <2> QED BY <2>3, <2>4, <2>6, <2>7 DEF Unhurried
<1> QED BY <1>8, <1>10, <1>11 DEF Told

LEMMA ShowRowTold ==
  ASSUME Typed, Order, Told, NEW n \in DOMAIN selections, NEW m \in selections[n].rows,
         ShowRow(n, m)
  PROVE  Told'
<1> DEFINE load == selections[n]
           r == load.room
           rest == load.rows \ {m}
           f == FirstOf(load, m)
           e == [id |-> m.id, text |-> m.text, live |-> FALSE]
           next == IF rest # {} THEN [load EXCEPT !.rows = rest, !.first = f]
                   ELSE [load EXCEPT !.at = "done", !.rows = {}]
<1>1. /\ load.at = "rows" /\ view' = Append(view, e) /\ shown' = shown \cup {m.id}
      /\ lastMessageId' = Larger(lastMessageId, m.id)
      /\ selections' = [selections EXCEPT ![n] = next]
      /\ \/ rest # {} /\ UNCHANGED <<oldestMessageId, isLoadingMessages, reads>>
         \/ rest = {} /\ oldestMessageId' = f /\ Loaded(n, lastMessageId')
      /\ UNCHANGED <<messages, last_read, down, currentRoom, older, arrivals, unheard, hasty>>
  BY DEF ShowRow, server
<1>2. /\ next.at = IF rest # {} THEN "rows" ELSE "done"
      /\ next.room = r /\ next.rows = rest
      /\ next.first = IF rest # {} THEN f ELSE load.first
  BY <1>1, SelectionType DEF Loads
<1>3. f \in {load.first, m.id}
  BY DEF FirstOf
<1>4. /\ m \in Rows /\ e \in Elements /\ e.id = m.id
      /\ load.first \in Known /\ m.id \in DOMAIN messages /\ m.id \in Known /\ m.id \in Ids
      /\ \A x \in load.rows : x.id \in DOMAIN messages
  BY SelectionType, RowShown, RowsLength
     DEF Told, IdsAreStored, LoadIdsAreStored, Known
<1>5. OnScreen' = OnScreen \cup {m.id}
  BY <1>1, <1>4, AppendedToView
<1> HIDE DEF next, rest, f, e, r
<1>6. /\ DOMAIN selections' = DOMAIN selections /\ Len(selections') = Len(selections)
      /\ selections'[n] = next
      /\ \A k \in DOMAIN selections : k # n => selections'[k] = selections[k]
  BY <1>1, Moved DEF Typed, SelectionTypes
<1>7. \A i \in LoadingIds : i = m.id \/ i \in LoadingIds'
  <2> SUFFICES ASSUME NEW i \in DOMAIN messages, i \in LoadingIds, i # m.id
               PROVE  i \in LoadingIds'
    BY DEF LoadingIds
  <2>1. PICK k \in DOMAIN selections :
           \/ selections[k].at \in {"keys", "history"} /\ selections[k].room = messages[i].room
           \/ \E x \in selections[k].rows : x.id = i
    BY DEF LoadingIds, Loading
  <2>2. CASE k = n
    <3>1. \E x \in rest : x.id = i
      BY <1>1, <2>1, <2>2 DEF rest
    <3> QED BY <1>1, <1>2, <1>6, <3>1 DEF LoadingIds, Loading
  <2>3. CASE k # n
    BY <1>1, <1>6, <2>1, <2>3 DEF LoadingIds, Loading
  <2> QED BY <2>2, <2>3
<1>8. /\ RowsStay /\ GotStays /\ Here \subseteq Here' /\ Known' = Known /\ Coming' = Coming
  BY <1>1, <1>5, <1>7, SameRows DEF GotStays, Got, Here, Known, Coming, IsMessage
<1>9. WireInOrder'
  BY <1>1 DEF Told, WireInOrder, IsMessage
<1>10. lastMessageId' \in {lastMessageId, m.id}
  BY <1>1 DEF Larger
<1>11. \A x \in reads' : x \in reads \/ (lastMessageId' # NoMessage /\ x.room = r
                                         /\ x.id = lastMessageId')
  BY <1>1, LoadedMarks DEF r
<1>12. IdsAreStored'
  <2>1. PageIdsAreStored' /\ OlderIdsAreStored'
    BY <1>1, <1>3, <1>4, <1>5, <1>8, <1>10
       DEF Told, IdsAreStored, PageIdsAreStored, OlderIdsAreStored
  <2>2. LoadIdsAreStored'
    BY <1>1, <1>2, <1>3, <1>4, <1>6, <1>8 DEF Told, IdsAreStored, LoadIdsAreStored, rest
  <2>3. ReadIdsAreStored'
    BY <1>1, <1>4, <1>8, <1>10, <1>11, RowsLength
       DEF Told, IdsAreStored, PageIdsAreStored, ReadIdsAreStored, Known, NoMessage
  <2> QED BY <2>1, <2>2, <2>3 DEF IdsAreStored
<1>13. ASSUME ~hasty' PROVE Unhurried'
  <2>1. Unhurried /\ IdsAreStored /\ ~hasty
    BY <1>1, <1>13 DEF Told
  <2>2. r = currentRoom
    BY <1>1, <2>1 DEF Unhurried, OneAtATime, InProgress, r
  <2>3. /\ CoveredNext(r, load.first) /\ \A x \in load.rows : CoveredNext(r, x.id)
    <3>1. Covered(r, load.first) /\ \A x \in load.rows : Covered(r, x.id)
      BY <1>1, <2>1 DEF Unhurried, PageIsCovered, r
    <3>2. \A x \in load.rows : x.id \in Known
      BY <1>4, RowsLength DEF Known
    <3> QED BY <1>4, <1>8, <3>1, <3>2, StillCovered
  <2>4. CoveredNext(r, f) /\ CoveredNext(r, m.id)
    BY <1>3, <2>3
  <2>5. CoveredNext(currentRoom, lastMessageId')
    BY <1>8, <1>10, <2>1, <2>2, <2>4, StillCovered
       DEF Unhurried, PageIsCovered, IdsAreStored, PageIdsAreStored
  <2>6. CoveredNext(currentRoom, oldestMessageId')
    BY <1>1, <1>8, <2>1, <2>2, <2>4, StillCovered
       DEF Unhurried, PageIsCovered, IdsAreStored, PageIdsAreStored
  <2>7. OneAtATime'
    BY <1>1, <1>2, <1>6, <2>1 DEF Unhurried, OneAtATime, InProgress, r
  <2>8. RoomIsHere'
    BY <1>1, <1>8, <2>1 DEF Unhurried, RoomIsHere
  <2>9. PageIsCovered'
    <3>1. ASSUME NEW k \in DOMAIN selections', selections'[k].at = "rows"
          PROVE  /\ CoveredNext(selections'[k].room, selections'[k].first)
                 /\ \A x \in selections'[k].rows : CoveredNext(selections'[k].room, x.id)
      <4>1. k = n
        BY <1>1, <1>6, <2>1, <3>1 DEF Unhurried, OneAtATime, InProgress
      <4>2. rest \subseteq load.rows
        BY DEF rest
      <4> QED BY <1>2, <1>6, <2>3, <2>4, <3>1, <4>1, <4>2
    <3>2. older.at # "idle" => CoveredNext(older.room, older.before)
      BY <1>8, <2>1, StillCovered DEF Unhurried, PageIsCovered, IdsAreStored, OlderIdsAreStored
    <3> QED BY <1>1, <2>5, <2>6, <3>1, <3>2 DEF PageIsCovered, Covered, CoveredNext
  <2>10. ReadsAreCovered'
    BY <1>1, <1>8, <1>11, <2>1, <2>2, <2>5, MarkedCovered DEF Unhurried
  <2> QED BY <2>7, <2>8, <2>9, <2>10 DEF Unhurried
<1> QED BY <1>9, <1>12, <1>13 DEF Told

-----------------------------------------------------------------------------
(* Scrolling back.                                                         *)

\* What changes is the load and where the page is: the rows, the wire, and what was
\* asked for stay.
LEMMA OlderTold ==
  ASSUME Typed, Order, Told,
         UNCHANGED <<messages, last_read, down, reads, currentRoom, selections, arrivals,
                     unheard, hasty>>,
         shown \subseteq shown', OnScreen \subseteq OnScreen', OnScreen' \subseteq shown',
         lastMessageId' \in Known, oldestMessageId' \in Known,
         OlderIdsAreStored',
         ~hasty => /\ older'.at # "idle" => older'.room = currentRoom
                   /\ \/ /\ oldestMessageId' = oldestMessageId
                         /\ isLoadingMessages' => isLoadingMessages
                      \/ \A n \in DOMAIN selections : ~InProgress(n)
                   /\ CoveredNext(currentRoom, lastMessageId')
                   /\ CoveredNext(currentRoom, oldestMessageId')
                   /\ older'.at # "idle" => CoveredNext(older'.room, older'.before)
  PROVE  Told'
<1>1. /\ LoadingIds' = LoadingIds /\ RowsStay /\ GotStays /\ Here \subseteq Here'
      /\ Known' = Known /\ Coming' = Coming
  BY SameRows DEF LoadingIds, Loading, GotStays, Got, Here, Known, Coming, IsMessage
<1>2. WireInOrder'
  BY DEF Told, WireInOrder, IsMessage
<1>3. IdsAreStored'
  <2>1. PageIdsAreStored' /\ LoadIdsAreStored' /\ ReadIdsAreStored'
    BY <1>1 DEF Told, IdsAreStored, PageIdsAreStored, LoadIdsAreStored, ReadIdsAreStored
  <2> QED BY <2>1 DEF IdsAreStored
<1>4. ASSUME ~hasty' PROVE Unhurried'
  <2>1. Unhurried /\ IdsAreStored /\ ~hasty
    BY <1>4 DEF Told
  <2>2. OneAtATime'
    BY <1>4, <2>1 DEF Unhurried, OneAtATime, InProgress
  <2>3. RoomIsHere'
    BY <1>1, <2>1 DEF Unhurried, RoomIsHere
  <2>4. PageIsCovered'
    <3>1. ASSUME NEW n \in DOMAIN selections, selections[n].at = "rows"
          PROVE  /\ CoveredNext(selections[n].room, selections[n].first)
                 /\ \A x \in selections[n].rows : CoveredNext(selections[n].room, x.id)
      <4>1. selections[n].first \in Known /\ \A x \in selections[n].rows : x.id \in Known
        BY <2>1, RowsLength DEF IdsAreStored, LoadIdsAreStored, Known
      <4> QED BY <1>1, <2>1, <3>1, <4>1, StillCovered DEF Unhurried, PageIsCovered
    <3> QED BY <2>1, <3>1 DEF PageIsCovered, Covered, CoveredNext
  <2>5. ReadsAreCovered'
    BY <1>1, <2>1, ReadsStay DEF Unhurried
  <2> QED BY <2>2, <2>3, <2>4, <2>5 DEF Unhurried
<1> QED BY <1>2, <1>3, <1>4 DEF Told

\* What a page that holds still has covered.
LEMMA PageCovered ==
  ASSUME Typed, Told, ~hasty, RowsStay, GotStays
  PROVE  /\ CoveredNext(currentRoom, lastMessageId)
         /\ CoveredNext(currentRoom, oldestMessageId)
         /\ older.at # "idle" => CoveredNext(older.room, older.before)
BY StillCovered DEF Told, Unhurried, PageIsCovered, IdsAreStored, PageIdsAreStored,
   OlderIdsAreStored

\* No room is being selected while an older page is loaded.
LEMMA NoneInProgress ==
  ASSUME Typed, Order, Told, ~hasty, older.at # "idle" \/ oldestMessageId # NoMessage
  PROVE  \A n \in DOMAIN selections : ~InProgress(n)
<1> SUFFICES ASSUME NEW n \in DOMAIN selections, InProgress(n) PROVE FALSE
  OBVIOUS
<1>1. oldestMessageId = NoMessage /\ (selections[n].at = "keys" => ~isLoadingMessages)
  BY DEF Told, Unhurried, OneAtATime
<1>2. selections[n].at \in {"keys", "history", "rows", "done"}
  BY SelectionType DEF Loads
<1> QED BY <1>1, <1>2 DEF Order, Exclusive, InProgress, Runs

LEMMA LoadOlderTold ==
  ASSUME Typed, Order, Told, LoadOlder PROVE Told'
<1>1. /\ oldestMessageId # NoMessage
      /\ older' = [NotOlder EXCEPT !.at = "asked", !.room = currentRoom,
                                   !.before = oldestMessageId]
      /\ UNCHANGED <<messages, last_read, down, reads, currentRoom, selections, lastMessageId,
                     oldestMessageId, view, arrivals, shown, unheard, hasty>>
  BY DEF LoadOlder, server, wire, document
<1>2. /\ older'.at = "asked" /\ older'.room = currentRoom /\ older'.before = oldestMessageId
      /\ older'.rows = {} /\ older'.first = 0
  BY <1>1 DEF NotOlder, NoMessage
<1>3. /\ OnScreen' = OnScreen /\ OnScreen \subseteq shown /\ oldestMessageId \in Known
      /\ lastMessageId \in Known /\ Known' = Known
  BY <1>1 DEF OnScreen, Told, IdsAreStored, PageIdsAreStored, Known
<1>4. OlderIdsAreStored'
  BY <1>2, <1>3, RowsLength DEF OlderIdsAreStored, Known
<1>5. RowsStay /\ GotStays
  BY <1>1, SameRows DEF GotStays, Got, LoadingIds, Loading
<1>6. ~hasty => \A n \in DOMAIN selections : ~InProgress(n)
  BY <1>1, NoneInProgress
<1>7. ~hasty => CoveredNext(currentRoom, lastMessageId) /\ CoveredNext(currentRoom, oldestMessageId)
  BY <1>5, PageCovered
<1> QED BY <1>1, <1>2, <1>3, <1>4, <1>6, <1>7, OlderTold


LEMMA OlderFailsTold ==
  ASSUME Typed, Order, Told, OlderFails PROVE Told'
<1>1. /\ older' = NotOlder /\ isLoadingMessages' = FALSE
      /\ UNCHANGED <<messages, last_read, down, reads, currentRoom, selections, lastMessageId,
                     oldestMessageId, view, arrivals, shown, unheard, hasty>>
  BY DEF OlderFails, server, wire, document
<1>2. OnScreen' = OnScreen /\ Known' = Known
  BY <1>1 DEF OnScreen, Known
<1>3. PageIdsAreStored
  BY DEF Told, IdsAreStored
<1>4. NotOlder.at = "idle" /\ OlderIdsAreStored'
  BY <1>1, <1>2, RowsLength DEF OlderIdsAreStored, NotOlder, Known, NoMessage
<1>5. RowsStay /\ GotStays
  BY <1>1, SameRows DEF GotStays, Got, LoadingIds, Loading
<1>6. ~hasty => CoveredNext(currentRoom, lastMessageId) /\ CoveredNext(currentRoom, oldestMessageId)
  BY <1>5, PageCovered
<1> QED BY <1>1, <1>2, <1>3, <1>4, <1>6, OlderTold DEF PageIdsAreStored

LEMMA ServeOlderTold ==
  ASSUME Typed, Order, Told, ServeOlder PROVE Told'
<1> DEFINE S == {i \in Stored(older.room) : i < older.before}
           rows == get_messages(S)
           anchor == IF view = <<>> THEN "none" ELSE "first"
           next == [older EXCEPT !.at = "rows", !.rows = rows, !.size = Cardinality(rows),
                                 !.anchor = anchor]
<1>1. /\ older.at = "asked"
      /\ \/ older' = NotOlder /\ isLoadingMessages' = FALSE
         \/ older' = next /\ UNCHANGED isLoadingMessages
      /\ UNCHANGED <<messages, last_read, down, reads, currentRoom, selections, lastMessageId,
                     oldestMessageId, view, arrivals, shown, unheard, hasty>>
  BY DEF ServeOlder, server, wire, document
<1>2. /\ next.at = "rows" /\ next.room = older.room /\ next.before = older.before
      /\ next.rows = rows /\ next.first = older.first
  BY DEF Typed, OlderTypes, OlderLoads
<1>3. S \in SUBSET (DOMAIN messages)
  BY DEF Stored
<1>4. \A x \in rows : x.id \in S
  BY <1>3, RowsTyped
<1>5. OnScreen' = OnScreen /\ Known' = Known
  BY <1>1 DEF OnScreen, Known
<1>6. PageIdsAreStored /\ older.before \in Known /\ older.first <= older.before
  BY DEF Told, IdsAreStored, OlderIdsAreStored
<1>7. \A x \in rows : x.id <= older.before
  BY <1>3, <1>4, <1>6, RowsLength DEF Known
<1> HIDE DEF next, rows, S
<1>8. OlderIdsAreStored' /\ (isLoadingMessages' => isLoadingMessages)
  <2>1. CASE older' = NotOlder /\ isLoadingMessages' = FALSE
    BY <1>5, <2>1, RowsLength DEF OlderIdsAreStored, NotOlder, Known, NoMessage
  <2>2. CASE older' = next /\ UNCHANGED isLoadingMessages
    BY <1>2, <1>5, <1>6, <1>7, <2>2 DEF OlderIdsAreStored
  <2> QED BY <1>1, <2>1, <2>2
<1>9. NotOlder.at = "idle"
  BY DEF NotOlder
<1>10. RowsStay /\ GotStays
  BY <1>1, SameRows DEF GotStays, Got, LoadingIds, Loading
<1>11. ASSUME ~hasty
       PROVE  /\ CoveredNext(currentRoom, lastMessageId) /\ CoveredNext(currentRoom, oldestMessageId)
              /\ older'.at # "idle" => /\ CoveredNext(older'.room, older'.before)
                                       /\ older'.room = currentRoom
  <2>1. older.room = currentRoom
    BY <1>1, <1>11 DEF Told, Unhurried, OneAtATime
  <2>2. CoveredNext(older.room, older.before)
    BY <1>1, <1>10, <1>11, PageCovered
  <2> QED BY <1>1, <1>2, <1>9, <1>10, <1>11, <2>1, <2>2, PageCovered
<1> QED BY <1>1, <1>5, <1>6, <1>8, <1>11, OlderTold DEF PageIdsAreStored

\* The element of an older page that goes into the document.
LEMMA InsertedIds ==
  ASSUME NEW s \in Seq(Elements), NEW at \in 1 .. Len(s) + 1, NEW e \in Elements,
         NEW t, t = InsertAt(s, at, e)
  PROVE  /\ \A p \in DOMAIN t : t[p] = e \/ \E q \in DOMAIN s : t[p] = s[q]
         /\ \A q \in DOMAIN s : \E p \in DOMAIN t : t[p] = s[q]
         /\ \E p \in DOMAIN t : t[p] = e
<1>1. /\ t \in Seq(Elements) /\ Len(t) = Len(s) + 1
      /\ \A p \in 1 .. Len(s) + 1 :
            t[p] = IF p < at THEN s[p] ELSE IF p = at THEN e ELSE s[p - 1]
  BY InsertAtProperties
<1>2. DOMAIN t = 1 .. Len(s) + 1 /\ DOMAIN s = 1 .. Len(s) /\ Len(s) \in Nat
  BY <1>1
<1>3. ASSUME NEW p \in DOMAIN t, p # at
      PROVE  \E q \in DOMAIN s : t[p] = s[q]
  <2>1. CASE p < at
    BY <1>1, <1>2, <2>1
  <2>2. CASE p > at
    BY <1>1, <1>2, <2>2
  <2> QED BY <1>2, <1>3, <2>1, <2>2
<1>4. ASSUME NEW q \in DOMAIN s PROVE \E p \in DOMAIN t : t[p] = s[q]
  <2>1. CASE q < at
    BY <1>1, <1>2, <2>1
  <2>2. CASE q >= at
    <3>1. q + 1 \in DOMAIN t /\ ~(q + 1 < at) /\ q + 1 # at /\ (q + 1) - 1 = q
      BY <1>2, <2>2
    <3>2. t[q + 1] = s[q]
      BY <1>1, <1>2, <3>1
    <3> QED BY <3>1, <3>2
  <2> QED BY <1>2, <2>1, <2>2
<1>5. at \in DOMAIN t /\ t[at] = e
  BY <1>1, <1>2
<1> QED BY <1>3, <1>4, <1>5

LEMMA InsertedIntoView ==
  ASSUME Typed, NEW e, e \in Elements, NEW at, at \in 1 .. Len(view) + 1,
         view' = InsertAt(view, at, e)
  PROVE  OnScreen' = OnScreen \cup {e.id}
<1>1. view \in Seq(Elements)
  BY ViewLength
<1>2. /\ \A p \in DOMAIN view' : view'[p] = e \/ \E q \in DOMAIN view : view'[p] = view[q]
      /\ \A q \in DOMAIN view : \E p \in DOMAIN view' : view'[p] = view[q]
      /\ \E p \in DOMAIN view' : view'[p] = e
  BY <1>1, InsertedIds
<1> QED BY <1>2 DEF OnScreen

LEMMA ShowOlderTold ==
  ASSUME Typed, Order, Told, NEW m \in older.rows, ShowOlder(m) PROVE Told'
<1> DEFINE rest == older.rows \ {m}
           at == IF older.anchor = "none" THEN Len(view) + 1 ELSE older.inserted + 1
           f == FirstOf(older, m)
           e == [id |-> m.id, text |-> m.text, live |-> FALSE]
           next == [older EXCEPT !.rows = rest, !.inserted = @ + 1, !.first = f]
<1>1. /\ older.at = "rows" /\ older.anchor # "gone"
      /\ view' = InsertAt(view, at, e) /\ shown' = shown \cup {m.id}
      /\ lastMessageId' = Larger(lastMessageId, m.id)
      /\ \/ older' = next /\ UNCHANGED <<oldestMessageId, isLoadingMessages>>
         \/ older' = NotOlder /\ oldestMessageId' = f /\ isLoadingMessages' = FALSE
      /\ UNCHANGED <<messages, last_read, down, reads, currentRoom, selections, arrivals,
                     unheard, hasty>>
  BY DEF ShowOlder, server, wire
<1>2. /\ next.at = "rows" /\ next.room = older.room /\ next.before = older.before
      /\ next.rows = rest /\ next.first = f
      /\ m \in Rows /\ older.inserted \in Nat /\ older.first \in 0 .. MaxMessages
      /\ older.anchor \in {"none", "first"}
  BY <1>1 DEF Typed, OlderTypes, OlderLoads
<1>3. /\ e \in Elements /\ e.id = m.id /\ m.id \in Ids
      /\ lastMessageId \in Known /\ oldestMessageId \in Known /\ OnScreen \subseteq shown
      /\ older.before \in Known /\ m.id <= older.before /\ older.first <= older.before
      /\ \A x \in older.rows : x.id <= older.before
  BY <1>2, RowShown DEF Told, IdsAreStored, PageIdsAreStored, OlderIdsAreStored
<1>4. at \in 1 .. Len(view) + 1
  BY <1>1, <1>2, ViewLength DEF Order, OlderFits
<1>5. OnScreen' = OnScreen \cup {m.id}
  BY <1>1, <1>3, <1>4, InsertedIntoView
<1>6. m.id \in Known /\ f \in Known /\ f <= older.before /\ m.id \in Int /\ f \in Int
  BY <1>2, <1>3, RowsLength, Bounds DEF FirstOf, Known, Ids, NoMessage
<1>7. lastMessageId' \in {lastMessageId, m.id} /\ oldestMessageId' \in {oldestMessageId, f}
  BY <1>1 DEF Larger
<1>8. RowsStay /\ GotStays /\ Known' = Known
  BY <1>1, SameRows DEF GotStays, Got, LoadingIds, Loading, Known
<1>9. rest \subseteq older.rows
  OBVIOUS
<1> HIDE DEF next, rest, f, e, at
<1>10. OlderIdsAreStored'
  <2>1. CASE older' = NotOlder
    BY <1>8, <2>1, RowsLength DEF OlderIdsAreStored, NotOlder, Known, NoMessage
  <2>2. CASE older' = next
    BY <1>2, <1>3, <1>6, <1>8, <1>9, <2>2 DEF OlderIdsAreStored
  <2> QED BY <1>1, <2>1, <2>2
<1>11. NotOlder.at = "idle"
  BY DEF NotOlder
<1>12. ASSUME ~hasty
       PROVE  /\ CoveredNext(currentRoom, lastMessageId')
              /\ CoveredNext(currentRoom, oldestMessageId')
              /\ older'.at # "idle" => /\ CoveredNext(older'.room, older'.before)
                                       /\ older'.room = currentRoom
              /\ \A n \in DOMAIN selections : ~InProgress(n)
  <2>1. older.room = currentRoom
    BY <1>1, <1>12 DEF Told, Unhurried, OneAtATime
  <2>2. Covered(currentRoom, older.before)
    BY <1>1, <1>12, <2>1 DEF Told, Unhurried, PageIsCovered
  <2>3. /\ CoveredNext(currentRoom, older.before) /\ CoveredNext(currentRoom, m.id)
        /\ CoveredNext(currentRoom, f)
    BY <1>3, <1>6, <1>8, <2>2, StillCovered, CoveredBelow
  <2>4. CoveredNext(currentRoom, lastMessageId') /\ CoveredNext(currentRoom, oldestMessageId')
    BY <1>7, <1>8, <1>12, <2>3, PageCovered
  <2>5. older'.at # "idle" => CoveredNext(older'.room, older'.before) /\ older'.room = currentRoom
    BY <1>1, <1>2, <1>11, <2>1, <2>3
  <2>6. \A n \in DOMAIN selections : ~InProgress(n)
    BY <1>1, <1>12, NoneInProgress
  <2> QED BY <2>4, <2>5, <2>6
<1>13. lastMessageId' \in Known /\ oldestMessageId' \in Known
  BY <1>3, <1>6, <1>7
<1> QED BY <1>1, <1>3, <1>5, <1>10, <1>12, <1>13, OlderTold

-----------------------------------------------------------------------------

LEMMA InitTold == Init => Told
<1> SUFFICES ASSUME Init PROVE Told
  OBVIOUS
<1>1. /\ messages = <<>> /\ down = <<>> /\ arrivals = {} /\ selections = <<>> /\ view = <<>>
      /\ lastMessageId = 0 /\ oldestMessageId = 0 /\ older = NotOlder /\ reads = {}
      /\ \A r \in Rooms : last_read[r] = 0
  BY DEF Init, NoMessage
<1>2. DOMAIN messages = {} /\ DOMAIN down = {} /\ DOMAIN selections = {} /\ DOMAIN view = {}
      /\ Len(messages) = 0
  BY <1>1
<1>3. /\ NotOlder.at = "idle" /\ NotOlder.before = 0 /\ NotOlder.first = 0 /\ NotOlder.rows = {}
  BY DEF NotOlder, NoMessage
<1>4. 0 \in Known
  BY <1>2 DEF Known
<1>5. WireInOrder
  BY <1>1, <1>2 DEF WireInOrder
<1>6. IdsAreStored
  BY <1>1, <1>2, <1>3, <1>4 DEF IdsAreStored, PageIdsAreStored, LoadIdsAreStored,
     OlderIdsAreStored, ReadIdsAreStored, OnScreen
<1>7. Unhurried
  BY <1>1, <1>2, <1>3 DEF Unhurried, OneAtATime, RoomIsHere, PageIsCovered, ReadsAreCovered,
     Covered
<1> QED BY <1>5, <1>6, <1>7 DEF Told

LEMMA StepTold ==
  ASSUME InOrder, Typed, Order, Told, [Next]_vars PROVE Told'
<1>1. CASE ServerStep
  BY <1>1, ConnectionTold, ServeReadTold, ServeOlderTold, ServeHistoryTold DEF ServerStep
<1>2. CASE PageStep
  BY <1>2, KeysLoadedTold, ShowRowTold, ShowOlderTold, DeliverTold, ArriveTold,
     ApplyEditTold, ConnectionTold DEF PageStep
<1>3. CASE UserStep
  BY <1>3, PostTold, SelectRoomTold, ChangeTold, LoadOlderTold DEF UserStep
<1>4. CASE Mishap
  BY <1>4, HistoryFailsTold, OlderFailsTold, ConnectionTold DEF Mishap
<1>5. CASE UNCHANGED vars
  BY <1>5, ConnectionTold
<1> QED BY <1>1, <1>2, <1>3, <1>4, <1>5 DEF Next

LEMMA ToldInvariance ==
  ASSUME InOrder PROVE Spec => []Told
<1>1. Typed /\ Order /\ Told /\ [Next]_vars => Told'
  BY StepTold
<1> QED BY <1>1, InitTold, Invariance, PTL DEF Spec

\* Where broadcasts come in the order they were made, a read position covers no message
\* that the page neither displayed nor has on its way, except those that ServeHistory,
\* Post, a failed fetch or a lost connection are known to pass over (loadMessages,
\* onRoomAction and markRoomAsRead of plugin.js).
THEOREM ReadPositionsAreShown ==
  ASSUME InOrder
  PROVE  Spec => []ReadIsShown
<1>1. Typed /\ Told => ReadIsShown
  <2> SUFFICES ASSUME Typed, Told, ~hasty, NEW i \in DOMAIN messages,
                      i <= last_read[messages[i].room]
               PROVE  i \in shown \/ OnItsWay(i) \/ Loading(i) \/ i \in unheard
    BY DEF ReadIsShown
  <2>1. messages[i].room \in Rooms
    BY StoredIds
  <2>2. i \in Got
    BY <2>1 DEF Told, Unhurried, ReadsAreCovered, Covered
  <2> QED BY <2>2 DEF Got, LoadingIds, OnItsWay
<1> QED BY <1>1, ToldInvariance, Invariance, PTL

\* Under the same assumption, each message of a room that is loaded is in the document
\* or on its way to it, or is one that the page is known not to be told of: the history
\* that was fetched and the broadcasts since the subscription leave no other gap.
THEOREM RoomIsComplete ==
  ASSUME InOrder
  PROVE  Spec => []NothingElseIsMissed
<1>1. Typed /\ Told => NothingElseIsMissed
  <2> SUFFICES ASSUME Typed, Told, ~hasty, \A n \in DOMAIN selections : ~InProgress(n),
                      NEW i \in Stored(currentRoom)
               PROVE  IsShown(i) \/ OnItsWay(i) \/ i \in unheard
    BY DEF NothingElseIsMissed
  <2>1. i \in Here \cup Coming
    BY DEF Told, Unhurried, RoomIsHere, Stored
  <2>2. i \notin LoadingIds
    BY DEF LoadingIds, Loading, InProgress, Told, IdsAreStored, LoadIdsAreStored
  <2> QED BY <2>1, <2>2 DEF Here, Coming, OnScreen, IsShown, OnItsWay, IsMessage
<1> QED BY <1>1, ToldInvariance, Invariance, PTL
=============================================================================
