---------------------------- MODULE Plugins_proofs ----------------------------
(***************************************************************************)
(* Proofs about the plugins and services that MCPlugins checks side by     *)
(* side.  The components share no state, so that each part is about the    *)
(* specification of one of them.                                           *)
(*                                                                         *)
(* Attachments: files, rows, messages and rooms agree as the properties    *)
(* say, for any files, rooms and number of chunks, and any number of       *)
(* failing statements and restarts.                                        *)
(*                                                                         *)
(* Todo: a fetched list that has missed nothing becomes the items of its   *)
(* room, for any rooms, items and changes.  The answers under way and the  *)
(* list that is shown follow alike (Following); an item of the room is in  *)
(* each of them or about to be added, once, and the last that the page     *)
(* hears of it is its row or its end (Turns).                              *)
(*                                                                         *)
(* Reactions: fetched pills that have missed nothing become the stored     *)
(* reactions, for any messages, rooms and emoji.  An answer becomes them   *)
(* too for the messages about which nothing is under way but what it does  *)
(* not hold (BatchesInv), so that merging it leaves what is shown right.   *)
(*                                                                         *)
(* Typing: an indicator that is shown is true, for any bounds.  TypingInv  *)
(* follows each word of a start along the two wires: that of the end comes *)
(* after it, or the member still types, or the loss is accounted for.      *)
(*                                                                         *)
(* Backups: retention takes nothing away that a later one would have kept, *)
(* for any calendar and any numbers of the tiers.  What a tier holds later *)
(* of the archives that there are now, it holds now (HeldBefore), and a    *)
(* tier that works on what the earlier ones left holds what it would hold  *)
(* of all (HeldOfTheRest): an archive that is gone is never the newest of  *)
(* its period among more than the tier keeps.                              *)
(* The loop starts one backup a day: it has seen to the times of the       *)
(* schedule up to one (SeenTo), and time without what the backups of       *)
(* admins hold it up by (Unheld) does not pass the next.                   *)
(*                                                                         *)
(* Notices: every message arrives and every number of the sidebar is that  *)
(* of the server, but in the known ways.  MessagesInv says what is on its  *)
(* way for a message nobody was told of, and that a mark beyond it finds   *)
(* its history still to be fetched; WireInOrder, that no message overtakes *)
(* another of its room.  NumbersInv says that the newest answer, or what   *)
(* is drawn, is right unless the rooms will be loaded once more.           *)
(***************************************************************************)
EXTENDS Plugins, FiniteSetTheorems, SequenceTheorems, WellFoundedInduction, TLAPS

\* Abbreviations every proof looks through.
USE AttachmentsAssumption DEF store, requests, progress, download, history, NoPut

UpTo(n) == 0 .. n - 1

\* An upload that has not begun has left no trace.
Untried(a) ==
    upload[a] = "new" =>
        status[a] = "none" /\ puts[a] = NoPut /\ message[a] = "unsent" /\ next[a] = 0

\* What an upload under way has stored, unless the file has been deleted.
Stores(a) ==
    upload[a] \in {"ready", "put"} =>
        /\ status[a] # "complete"
        /\ status[a] = "pending" =>
              /\ chunks[a] = UpTo(next[a])
              /\ a \notin removed => a \in dirs /\ disk[a] = UpTo(next[a])

\* A chunk whose body is awaited is the next one, or that of a page that is gone.
Puts(a) ==
    /\ upload[a] = "put" => next[a] < NChunks
    /\ puts[a] # NoPut =>
          /\ status[a] # "complete"
          /\ upload[a] = "over" \/ (upload[a] = "put" /\ puts[a] = next[a])

\* A complete attachment has all its chunks, until its message is deleted.
Completes(a) ==
    /\ upload[a] = "send" =>
          status[a] # "pending" /\ (a \notin removed => status[a] = "complete")
    /\ status[a] = "complete" =>
          /\ chunks[a] = Indexes
          /\ a \notin removed /\ message[a] \in {"unsent", "there"} => disk[a] = Indexes

\* What is known of a file only once its message was sent.
Sent(a) ==
    /\ message[a] # "unsent" => upload[a] = "over" /\ status[a] # "pending"
    /\ message[a] = "there" /\ a \notin removed => status[a] = "complete"
    /\ a \in seen \cup links \cup linked => message[a] # "unsent"
    /\ a \in deleting => message[a] \in {"deleted", "gone"}

Reads(a) ==
    /\ a \in reading => left[a] \cup got[a] = Indexes
    /\ a \notin reading => left[a] = {}

\* The properties, for one file.
HasRow(a) == a \in dirs \/ disk[a] # {} \/ chunks[a] # {} => Stored(a)
GoesWithMessage(a) ==
    message[a] = "deleted" /\ Stored(a) /\ a \in linked /\ a \notin deleting
    => a \in missed
GoesWithRoom(a) == Stored(a) /\ room_id[a] \notin rooms => a \in adrift

FileInv(a) ==
    /\ Untried(a) /\ Stores(a) /\ Puts(a) /\ Completes(a) /\ Sent(a) /\ Reads(a)
    /\ HasRow(a) /\ GoesWithMessage(a) /\ GoesWithRoom(a)

Inv == TypeOK /\ \A a \in Files : FileInv(a)

-----------------------------------------------------------------------------
(* Files a step does not touch.                                            *)

Same(b) ==
    /\ status'[b] = status[b] /\ (b \in linked' <=> b \in linked)
    /\ chunks'[b] = chunks[b]
    /\ disk'[b] = disk[b] /\ (b \in dirs' <=> b \in dirs)
    /\ message'[b] = message[b] /\ puts'[b] = puts[b]
    /\ upload'[b] = upload[b] /\ next'[b] = next[b]
    /\ (b \in reading' <=> b \in reading) /\ left'[b] = left[b] /\ got'[b] = got[b]
    /\ (b \in deleting' <=> b \in deleting) /\ (b \in seen' <=> b \in seen)
    /\ (b \in links' <=> b \in links) /\ (b \in removed' <=> b \in removed)
    /\ (b \in missed' <=> b \in missed) /\ (b \in adrift' <=> b \in adrift)
    /\ (room_id'[b] \in rooms' <=> room_id[b] \in rooms)

LEMMA SameInv ==
  ASSUME NEW b \in Files, FileInv(b), Same(b)
  PROVE  FileInv(b)'
<1> USE DEF Same
<1>1. Untried(b)' /\ Stores(b)' /\ Puts(b)'
  BY DEF FileInv, Untried, Stores, Puts
<1>2. Completes(b)' /\ Sent(b)' /\ Reads(b)'
  BY DEF FileInv, Completes, Sent, Reads
<1>3. HasRow(b)' /\ GoesWithMessage(b)' /\ GoesWithRoom(b)'
  BY DEF FileInv, HasRow, GoesWithMessage, GoesWithRoom, Stored
<1> QED BY <1>1, <1>2, <1>3 DEF FileInv

\* A step of one file need be looked at for that file only.
LEMMA OneFile ==
  ASSUME Inv, NEW a \in Files, TypeOK', FileInv(a)',
         \A b \in Files \ {a} : Same(b)
  PROVE  Inv'
<1>1. ASSUME NEW b \in Files PROVE FileInv(b)'
  BY SameInv DEF Inv
<1> QED BY <1>1 DEF Inv

LEMMA InitInv == Init => Inv
<1> SUFFICES ASSUME Init PROVE Inv
  OBVIOUS
<1> USE DEF Init
<1>1. TypeOK
  BY DEF TypeOK, Indexes
<1>2. ASSUME NEW a \in Files PROVE FileInv(a)
  BY DEF FileInv, Untried, Stores, Puts, Completes, Sent, Reads, HasRow,
         GoesWithMessage, GoesWithRoom, Stored
<1> QED BY <1>1, <1>2 DEF Inv

-----------------------------------------------------------------------------
(* The upload.                                                             *)

LEMMA InitUploadInv ==
  ASSUME Inv, NEW a \in Files, NEW r \in Rooms, InitUpload(a, r) \/ InitUploadFails(a, r)
  PROVE  Inv'
<1>0. TypeOK /\ FileInv(a)
  BY DEF Inv
<1>1. TypeOK'
  BY <1>0 DEF TypeOK, InitUpload, InitUploadFails, Fault, Over
<1>2. \A b \in Files \ {a} : Same(b)
  BY <1>0 DEF TypeOK, InitUpload, InitUploadFails, Same, Over
<1>3. /\ status'[a] = "pending" /\ linked' = linked
      /\ chunks'[a] = {} /\ disk'[a] = {} /\ puts'[a] = NoPut /\ message' = message
      /\ message[a] = "unsent" /\ room_id'[a] = r
      /\ \/ upload'[a] = "ready" /\ next'[a] = 0 /\ a \in dirs'
         \/ upload'[a] = "over"
      /\ r \in rooms' \/ a \in adrift'
      /\ seen' = seen /\ links' = links /\ deleting' = deleting
      /\ reading' = reading /\ left' = left /\ got' = got
  BY <1>0 DEF TypeOK, InitUpload, InitUploadFails, FileInv, Untried, HasRow, Stored, Over
<1>4. FileInv(a)'
  <2>1. Untried(a)' /\ Stores(a)' /\ Puts(a)' /\ Completes(a)'
    BY <1>3 DEF Untried, Stores, Puts, Completes, UpTo
  <2>2. Sent(a)' /\ Reads(a)'
    BY <1>0, <1>3 DEF Sent, Reads, FileInv
  <2>3. HasRow(a)' /\ GoesWithMessage(a)' /\ GoesWithRoom(a)'
    BY <1>3 DEF HasRow, GoesWithMessage, GoesWithRoom, Stored
  <2> QED BY <2>1, <2>2, <2>3 DEF FileInv
<1> QED BY <1>1, <1>2, <1>4, OneFile

LEMMA PutChunkInv ==
  ASSUME Inv, NEW a \in Files, PutChunk(a)
  PROVE  Inv'
<1>0. TypeOK /\ FileInv(a)
  BY DEF Inv
<1>1. TypeOK'
  BY <1>0 DEF TypeOK, PutChunk, MoreChunks, Over, Indexes
<1>2. \A b \in Files \ {a} : Same(b)
  BY <1>0 DEF TypeOK, PutChunk, Over, Same
<1>3. /\ upload[a] = "ready" /\ next[a] < NChunks /\ next' = next
      /\ \/ /\ upload'[a] = "put" /\ puts'[a] = next[a] /\ status[a] = "pending"
         \/ upload'[a] = "over" /\ puts' = puts
      /\ UNCHANGED <<rooms, store, message, deleting, links, room_id, seen, download,
                     history>>
  BY <1>0 DEF TypeOK, PutChunk, MoreChunks, Over
<1>4. FileInv(a)'
  <2> USE <1>0, <1>3 DEF FileInv
  <2>1. Untried(a)' /\ Stores(a)' /\ Puts(a)' /\ Completes(a)'
    BY DEF Untried, Stores, Puts, Completes
  <2>2. Sent(a)' /\ Reads(a)'
    BY DEF Sent, Reads
  <2>3. HasRow(a)' /\ GoesWithMessage(a)' /\ GoesWithRoom(a)'
    BY DEF HasRow, GoesWithMessage, GoesWithRoom, Stored
  <2> QED BY <2>1, <2>2, <2>3
<1> QED BY <1>1, <1>2, <1>4, OneFile

LEMMA PutGone ==
  ASSUME Inv, NEW a \in Files, PutDropped(a) \/ Abort(a)
  PROVE  Inv'
<1>0. TypeOK /\ FileInv(a)
  BY DEF Inv
<1>1. TypeOK'
  BY <1>0 DEF TypeOK, PutDropped, Abort, Over
<1>2. \A b \in Files \ {a} : Same(b)
  BY <1>0 DEF TypeOK, Same, PutDropped, Abort, Over
<1>3. /\ upload'[a] = "over" /\ puts'[a] \in {puts[a], NoPut}
      /\ UNCHANGED <<rooms, store, message, deleting, links, next, room_id, seen, download,
                     history>>
  BY <1>0 DEF TypeOK, PutDropped, Abort, Over
<1>4. FileInv(a)'
  <2> USE <1>0, <1>3 DEF FileInv
  <2>1. Untried(a)' /\ Stores(a)' /\ Puts(a)' /\ Completes(a)'
    BY DEF Untried, Stores, Puts, Completes
  <2>2. Sent(a)' /\ Reads(a)'
    BY DEF Sent, Reads
  <2>3. HasRow(a)' /\ GoesWithMessage(a)' /\ GoesWithRoom(a)'
    BY DEF HasRow, GoesWithMessage, GoesWithRoom, Stored
  <2> QED BY <2>1, <2>2, <2>3
<1> QED BY <1>1, <1>2, <1>4, OneFile

\* A chunk whose body came: of an upload still under way, or of a page that is gone.
LEMMA StoreChunkInv ==
  ASSUME Inv, NEW a \in Files, StoreChunk(a)
  PROVE  Inv'
<1>0. TypeOK /\ FileInv(a)
  BY DEF Inv
<1>1. TypeOK'
  <2>1. upload[a] = "put" => next[a] < NChunks
    BY <1>0 DEF FileInv, Puts
  <2> QED BY <1>0, <2>1 DEF TypeOK, StoreChunk, Over, Indexes
<1>2. \A b \in Files \ {a} : Same(b)
  BY <1>0 DEF TypeOK, Same, StoreChunk, Over
<1>3. /\ puts[a] # NoPut /\ puts'[a] = NoPut
      /\ \/ /\ a \in dirs /\ disk'[a] = disk[a] \cup {puts[a]}
            /\ chunks'[a] = chunks[a] \cup {puts[a]}
            /\ \/ upload[a] = "put" /\ upload'[a] = "ready" /\ next'[a] = next[a] + 1
               \/ upload[a] # "put" /\ UNCHANGED <<upload, next>>
         \/ a \notin dirs /\ upload'[a] = "over" /\ UNCHANGED <<disk, chunks, next>>
      /\ UNCHANGED <<rooms, status, linked, dirs, message, deleting, links, room_id, seen,
                     download, history>>
  BY <1>0 DEF TypeOK, StoreChunk, Over, Indexes
<1>4. FileInv(a)'
  <2> USE <1>0, <1>3 DEF FileInv
  <2>0. UpTo(next[a]) \cup {next[a]} = UpTo(next[a] + 1)
    BY DEF TypeOK, UpTo
  <2>1. Untried(a)' /\ Puts(a)' /\ Completes(a)'
    BY DEF Untried, Puts, Completes
  <2>2. Stores(a)'
    BY <2>0 DEF Stores, Puts
  <2>3. Sent(a)' /\ Reads(a)'
    BY DEF Sent, Reads
  <2>4. HasRow(a)' /\ GoesWithMessage(a)' /\ GoesWithRoom(a)'
    BY DEF HasRow, GoesWithMessage, GoesWithRoom, Stored
  <2> QED BY <2>1, <2>2, <2>3, <2>4
<1> QED BY <1>1, <1>2, <1>4, OneFile

LEMMA StoreChunkFailsInv ==
  ASSUME Inv, NEW a \in Files, StoreChunkFails(a)
  PROVE  Inv'
<1>0. TypeOK /\ FileInv(a)
  BY DEF Inv
<1>1. TypeOK'
  BY <1>0 DEF TypeOK, StoreChunkFails, Over, Fault, Indexes
<1>2. \A b \in Files \ {a} : Same(b)
  BY <1>0 DEF TypeOK, Same, StoreChunkFails, Over
<1>3. /\ puts[a] # NoPut /\ puts'[a] = NoPut /\ a \in dirs
      /\ disk'[a] = disk[a] \cup {puts[a]} /\ upload'[a] = "over"
      /\ UNCHANGED <<rooms, status, linked, chunks, dirs, message, deleting, links, next,
                     room_id, seen, download, history>>
  BY <1>0 DEF TypeOK, StoreChunkFails, Over, Fault, Indexes
<1>4. FileInv(a)'
  <2> USE <1>0, <1>3 DEF FileInv
  <2>1. Untried(a)' /\ Stores(a)' /\ Puts(a)' /\ Completes(a)'
    BY DEF Untried, Stores, Puts, Completes
  <2>2. Sent(a)' /\ Reads(a)'
    BY DEF Sent, Reads
  <2>3. HasRow(a)' /\ GoesWithMessage(a)' /\ GoesWithRoom(a)'
    BY DEF HasRow, GoesWithMessage, GoesWithRoom, Stored
  <2> QED BY <2>1, <2>2, <2>3
<1> QED BY <1>1, <1>2, <1>4, OneFile

LEMMA FinalizeInv ==
  ASSUME Inv, NEW a \in Files, Finalize(a)
  PROVE  Inv'
<1>0. TypeOK /\ FileInv(a)
  BY DEF Inv
<1>1. TypeOK'
  BY <1>0 DEF TypeOK, Finalize, MoreChunks, Over
<1>2. \A b \in Files \ {a} : Same(b)
  BY <1>0 DEF TypeOK, Same, Finalize, Over
<1>3. /\ upload[a] = "ready" /\ next[a] = NChunks
      /\ \/ status[a] = "pending" /\ status'[a] = "complete" /\ upload'[a] = "send"
         \/ upload'[a] = "over" /\ status' = status
      /\ UNCHANGED <<rooms, linked, chunks, dirs, disk, message, requests, next, room_id,
                     seen, download, history>>
  BY <1>0 DEF TypeOK, Finalize, MoreChunks, Over
<1>4. FileInv(a)'
  <2> USE <1>0, <1>3 DEF FileInv
  <2>1. Untried(a)' /\ Stores(a)' /\ Puts(a)' /\ Completes(a)'
    BY DEF Untried, Stores, Puts, Completes, UpTo, Indexes
  <2>2. Sent(a)' /\ Reads(a)'
    BY DEF Sent, Reads
  <2>3. HasRow(a)' /\ GoesWithMessage(a)' /\ GoesWithRoom(a)'
    BY DEF HasRow, GoesWithMessage, GoesWithRoom, Stored
  <2> QED BY <2>1, <2>2, <2>3
<1> QED BY <1>1, <1>2, <1>4, OneFile

LEMMA SendMessageInv ==
  ASSUME Inv, NEW a \in Files, SendMessage(a)
  PROVE  Inv'
<1>0. TypeOK /\ FileInv(a)
  BY DEF Inv
<1>1. TypeOK'
  BY <1>0 DEF TypeOK, SendMessage, Over
<1>2. \A b \in Files \ {a} : Same(b)
  BY <1>0 DEF TypeOK, Same, SendMessage, Over
<1>3. /\ upload[a] = "send" /\ upload'[a] = "over"
      /\ \/ message'[a] = "there" /\ room_id[a] \in rooms
         \/ message' = message
      /\ UNCHANGED <<rooms, store, requests, next, room_id, seen, download, history>>
  BY <1>0 DEF TypeOK, SendMessage, Over
<1>4. FileInv(a)'
  <2> USE <1>0, <1>3 DEF FileInv
  <2>1. Untried(a)' /\ Stores(a)' /\ Puts(a)' /\ Completes(a)'
    BY DEF Untried, Stores, Puts, Completes, Sent
  <2>2. Sent(a)' /\ Reads(a)'
    BY DEF Sent, Reads, Completes
  <2>3. HasRow(a)' /\ GoesWithMessage(a)' /\ GoesWithRoom(a)'
    BY DEF HasRow, GoesWithMessage, GoesWithRoom, Stored
  <2> QED BY <2>1, <2>2, <2>3
<1> QED BY <1>1, <1>2, <1>4, OneFile

-----------------------------------------------------------------------------
(* Display, link and download.                                             *)

LEMMA DisplayInv ==
  ASSUME Inv, NEW a \in Files, Display(a)
  PROVE  Inv'
<1>0. TypeOK /\ FileInv(a)
  BY DEF Inv
<1>1. TypeOK'
  BY <1>0 DEF TypeOK, Display
<1>2. \A b \in Files \ {a} : Same(b)
  BY <1>0 DEF TypeOK, Same, Display
<1>3. /\ message[a] # "unsent"
      /\ UNCHANGED <<rooms, store, message, puts, deleting, progress, download, history>>
  BY DEF Display
<1>4. FileInv(a)'
  <2> USE <1>0, <1>3 DEF FileInv
  <2>1. Untried(a)' /\ Stores(a)' /\ Puts(a)' /\ Completes(a)'
    BY DEF Untried, Stores, Puts, Completes
  <2>2. Sent(a)' /\ Reads(a)'
    BY DEF Sent, Reads
  <2>3. HasRow(a)' /\ GoesWithMessage(a)' /\ GoesWithRoom(a)'
    BY DEF HasRow, GoesWithMessage, GoesWithRoom, Stored
  <2> QED BY <2>1, <2>2, <2>3
<1> QED BY <1>1, <1>2, <1>4, OneFile

\* What is linked late is in `missed'.
LEMMA ServeLinkInv ==
  ASSUME Inv, NEW a \in Files, ServeLink(a)
  PROVE  Inv'
<1>0. TypeOK /\ FileInv(a)
  BY DEF Inv
<1>1. TypeOK'
  BY <1>0 DEF TypeOK, ServeLink
<1>2. \A b \in Files \ {a} : Same(b)
  BY <1>0 DEF TypeOK, Same, ServeLink
<1>3. /\ a \in links /\ links' = links \ {a}
      /\ message[a] = "deleted" /\ a \notin deleting => a \in missed'
      /\ missed \subseteq missed'
      /\ UNCHANGED <<rooms, status, chunks, dirs, disk, message, puts, deleting, progress,
                     seen, download, removed, adrift>>
  BY DEF ServeLink
<1>4. FileInv(a)'
  <2> USE <1>0, <1>3 DEF FileInv
  <2>1. Untried(a)' /\ Stores(a)' /\ Puts(a)' /\ Completes(a)'
    BY DEF Untried, Stores, Puts, Completes
  <2>2. Sent(a)' /\ Reads(a)'
    BY DEF Sent, Reads
  <2>3. HasRow(a)' /\ GoesWithMessage(a)' /\ GoesWithRoom(a)'
    BY DEF HasRow, GoesWithMessage, GoesWithRoom, Stored
  <2> QED BY <2>1, <2>2, <2>3
<1> QED BY <1>1, <1>2, <1>4, OneFile

\* A download touches nothing but itself.
Reader ==
    UNCHANGED <<rooms, store, message, requests, progress, seen, history, faults>>

LEMMA ReaderInv ==
  ASSUME Inv, NEW a \in Files, Reader, Reads(a)',
         reading' \subseteq Files,
         left' \in [Files -> SUBSET Indexes], got' \in [Files -> SUBSET Indexes],
         \A b \in Files \ {a} : /\ b \in reading' <=> b \in reading
                                /\ left'[b] = left[b] /\ got'[b] = got[b]
  PROVE  Inv'
<1>0. TypeOK /\ FileInv(a)
  BY DEF Inv
<1>1. TypeOK'
  BY <1>0 DEF TypeOK, Reader
<1>2. \A b \in Files \ {a} : Same(b)
  BY DEF Same, Reader
<1>3. FileInv(a)'
  <2> USE <1>0 DEF FileInv, Reader
  <2>1. Untried(a)' /\ Stores(a)' /\ Puts(a)' /\ Completes(a)' /\ Sent(a)'
    BY DEF Untried, Stores, Puts, Completes, Sent
  <2>2. HasRow(a)' /\ GoesWithMessage(a)' /\ GoesWithRoom(a)'
    BY DEF HasRow, GoesWithMessage, GoesWithRoom, Stored
  <2> QED BY <2>1, <2>2
<1> QED BY <1>1, <1>2, <1>3, OneFile

\* The metadata of a file that was sent counts all its chunks.
LEMMA ReadMetaInv ==
  ASSUME Inv, NEW a \in Files, ReadMeta(a)
  PROVE  Inv'
<1>0. TypeOK /\ FileInv(a)
  BY DEF Inv
<1>1. chunks[a] = Indexes
  BY <1>0 DEF ReadMeta, FileInv, Sent, Completes, Stored, TypeOK
<1>2. Cardinality(chunks[a]) = NChunks
  <2>1. 0 \in Int /\ NChunks - 1 \in Int /\ 0 <= NChunks - 1
    OBVIOUS
  <2>2. Cardinality(0 .. NChunks - 1) = (NChunks - 1) - 0 + 1
    BY <2>1, FS_Interval
  <2> QED BY <1>1, <2>2 DEF Indexes
<1>3. /\ reading' = reading \cup {a} /\ Reader
      /\ left' = [left EXCEPT ![a] = Indexes] /\ got' = [got EXCEPT ![a] = {}]
  BY <1>2 DEF ReadMeta, Indexes, Reader
<1>4. Reads(a)'
  BY <1>0, <1>3 DEF Reads, TypeOK
<1> QED BY <1>0, <1>3, <1>4, ReaderInv DEF TypeOK

LEMMA ReadChunkInv ==
  ASSUME Inv, NEW a \in Files, NEW i \in left[a], ReadChunk(a, i)
  PROVE  Inv'
<1>0. TypeOK /\ FileInv(a) /\ i \in Indexes
  BY DEF Inv, TypeOK
<1>1. Reader
  BY DEF ReadChunk, Reader
<1>2. CASE WithoutChunk(a, i)
  <2>1. Reads(a)'
    BY <1>0, <1>2 DEF WithoutChunk, Reads, TypeOK
  <2> QED BY <1>0, <1>1, <1>2, <2>1, ReaderInv DEF TypeOK, WithoutChunk
<1>3. CASE /\ left' = [left EXCEPT ![a] = @ \ {i}]
           /\ got' = [got EXCEPT ![a] = @ \cup {i}] /\ UNCHANGED reading
  <2>1. Reads(a)'
    BY <1>0, <1>3 DEF FileInv, Reads, TypeOK
  <2> QED BY <1>0, <1>1, <1>3, <2>1, ReaderInv DEF TypeOK
<1> QED BY <1>2, <1>3 DEF ReadChunk

-----------------------------------------------------------------------------
(* What deletion does to the store, file by file.                          *)

StoreTypes ==
    /\ status \in [Files -> {"none", "pending", "complete"}] /\ linked \subseteq Files
    /\ chunks \in [Files -> SUBSET Indexes]
    /\ dirs \subseteq Files /\ disk \in [Files -> SUBSET Indexes]

Erased(b) ==
    status'[b] = "none" /\ b \notin linked' /\ chunks'[b] = {} /\ b \notin dirs' /\ disk'[b] = {}

RowsKept(b) ==
    /\ status'[b] = status[b] /\ (b \in linked' <=> b \in linked) /\ chunks'[b] = chunks[b]
    /\ b \in dirs' => b \in dirs
    /\ disk'[b] \subseteq disk[b]

Intact(b) == RowsKept(b) /\ (b \in dirs' <=> b \in dirs) /\ disk'[b] = disk[b]

LEMMA RemoveFacts ==
  ASSUME StoreTypes, NEW S \in SUBSET Files, Remove(S)
  PROVE  StoreTypes' /\ \A b \in Files : IF b \in S THEN Erased(b) ELSE Intact(b)
BY DEF StoreTypes, Remove, Erased, RowsKept, Intact

LEMMA RemoveFailsFacts ==
  ASSUME StoreTypes, NEW S \in SUBSET Files, RemoveFails(S)
  PROVE  StoreTypes' /\ \A b \in Files : \/ b \in S /\ (Erased(b) \/ RowsKept(b))
                                         \/ b \notin S /\ Intact(b)
<1> DEFINE Cut(done, a, rest) ==
        /\ status' = [b \in Files |-> IF b \in done THEN "none" ELSE status[b]]
        /\ linked' = linked \ done
        /\ chunks' = [b \in Files |-> IF b \in done THEN {} ELSE chunks[b]]
        /\ dirs' = dirs \ done \/ dirs' = dirs \ (done \cup {a})
        /\ disk' = [b \in Files |-> IF b \in done THEN {} ELSE
                                    IF b = a THEN rest ELSE disk[b]]
<1>1. PICK done \in SUBSET S : \E a \in S \ done : \E rest \in SUBSET disk[a] :
                                  Cut(done, a, rest)
  BY DEF RemoveFails
<1>2. PICK a \in S \ done : \E rest \in SUBSET disk[a] : Cut(done, a, rest)
  BY <1>1
<1>3. PICK rest \in SUBSET disk[a] : Cut(done, a, rest)
  BY <1>2
<1>4. StoreTypes'
  <2>1. rest \subseteq Indexes
    BY DEF StoreTypes
  <2> QED BY <1>3, <2>1 DEF StoreTypes
<1>5. ASSUME NEW b \in Files
      PROVE  \/ b \in S /\ (Erased(b) \/ RowsKept(b))
             \/ b \notin S /\ Intact(b)
  BY <1>3 DEF StoreTypes, Erased, RowsKept, Intact
<1> QED BY <1>4, <1>5

-----------------------------------------------------------------------------
(* Deletion.                                                               *)

LEMMA DeleteMessageInv ==
  ASSUME Inv, NEW a \in Files, DeleteMessage(a)
  PROVE  Inv'
<1>0. TypeOK /\ FileInv(a)
  BY DEF Inv
<1>1. TypeOK'
  BY <1>0 DEF TypeOK, DeleteMessage
<1>2. \A b \in Files \ {a} : Same(b)
  BY <1>0 DEF TypeOK, Same, DeleteMessage
<1>3. /\ message[a] # "unsent" /\ message'[a] = "deleted" /\ deleting' = deleting \cup {a}
      /\ UNCHANGED <<rooms, store, puts, links, progress, seen, download, history>>
  BY <1>0 DEF TypeOK, DeleteMessage
<1>4. FileInv(a)'
  <2> USE <1>0, <1>3 DEF FileInv
  <2>1. Untried(a)' /\ Stores(a)' /\ Puts(a)' /\ Completes(a)'
    BY DEF Untried, Stores, Puts, Completes, Sent
  <2>2. Sent(a)' /\ Reads(a)'
    BY DEF Sent, Reads
  <2>3. HasRow(a)' /\ GoesWithMessage(a)' /\ GoesWithRoom(a)'
    BY DEF HasRow, GoesWithMessage, GoesWithRoom, Stored
  <2> QED BY <2>1, <2>2, <2>3
<1> QED BY <1>1, <1>2, <1>4, OneFile

\* The deletion of one file, whole or not, once it is in `removed' or its message is
\* deleted.
LEMMA CutInv ==
  ASSUME TypeOK, NEW a \in Files, FileInv(a), Erased(a) \/ RowsKept(a),
         UNCHANGED <<rooms, message, puts, links, progress, seen, download, adrift>>,
         a \in removed' \/ (removed' = removed /\ message[a] \in {"deleted", "gone"}),
         removed \subseteq removed', missed \subseteq missed',
         a \in deleting' => a \in deleting,
         a \in deleting \ deleting' =>
             Erased(a) \/ a \in missed' \/ ~Stored(a) \/ a \notin linked
  PROVE  FileInv(a)'
<1> USE DEF FileInv
<1>1. Untried(a)' /\ Stores(a)' /\ Puts(a)' /\ Completes(a)'
  <2>1. CASE Erased(a)
    BY <2>1 DEF Erased, Untried, Stores, Puts, Completes, Sent
  <2>2. CASE RowsKept(a)
    BY <2>2 DEF RowsKept, Untried, Stores, Puts, Completes, Sent
  <2> QED BY <2>1, <2>2
<1>2. Sent(a)' /\ Reads(a)'
  BY DEF Erased, RowsKept, Sent, Reads
<1>3. HasRow(a)' /\ GoesWithMessage(a)' /\ GoesWithRoom(a)'
  BY DEF Erased, RowsKept, HasRow, GoesWithMessage, GoesWithRoom, Stored
<1> QED BY <1>1, <1>2, <1>3

LEMMA TypesOfStore == TypeOK => StoreTypes
BY DEF TypeOK, StoreTypes

LEMMA MessageCleanedInv ==
  ASSUME Inv, NEW a \in Files, MessageCleaned(a) \/ MessageCleanFails(a)
  PROVE  Inv'
<1>0. TypeOK /\ FileInv(a) /\ Linked(a) \in SUBSET Files
  BY DEF Inv, Linked
<1>1. /\ StoreTypes'
      /\ \A b \in Files : \/ b \in Linked(a) /\ (Erased(b) \/ RowsKept(b))
                          \/ b \notin Linked(a) /\ Intact(b)
      /\ MessageCleaned(a) /\ a \in Linked(a) => Erased(a)
  BY <1>0, TypesOfStore, RemoveFacts, RemoveFailsFacts DEF MessageCleaned, MessageCleanFails
<1>2. TypeOK'
  BY <1>0, <1>1 DEF TypeOK, StoreTypes, MessageCleaned, MessageCleanFails, Fault
<1>3. \A b \in Files \ {a} : Same(b)
  BY <1>0, <1>1 DEF Linked, Same, Intact, RowsKept, MessageCleaned, MessageCleanFails
<1>4. FileInv(a)'
  <2>1. Erased(a) \/ RowsKept(a)
    BY <1>1 DEF Intact
  <2>2. message[a] \in {"deleted", "gone"} /\ missed \subseteq missed' /\ deleting' = deleting \ {a}
        /\ UNCHANGED <<rooms, message, puts, links, progress, seen, download, removed, adrift>>
    BY <1>0 DEF MessageCleaned, MessageCleanFails, FileInv, Sent
  <2>3. Erased(a) \/ a \in missed' \/ ~Stored(a) \/ a \notin linked
    BY <1>1 DEF MessageCleaned, MessageCleanFails, Linked
  <2> QED BY <1>0, <2>1, <2>2, <2>3, CutInv
<1> QED BY <1>2, <1>3, <1>4, OneFile

LEMMA DeleteAttachmentInv ==
  ASSUME Inv, NEW a \in Files, DeleteAttachment(a)
  PROVE  Inv'
<1>0. TypeOK /\ FileInv(a) /\ {a} \in SUBSET Files
  BY DEF Inv
<1>1. /\ StoreTypes'
      /\ \A b \in Files : \/ b = a /\ (Erased(b) \/ RowsKept(b))
                          \/ b # a /\ Intact(b)
  BY <1>0, TypesOfStore, RemoveFacts, RemoveFailsFacts DEF DeleteAttachment
<1>2. TypeOK'
  BY <1>0, <1>1 DEF TypeOK, StoreTypes, DeleteAttachment, Fault
<1>3. \A b \in Files \ {a} : Same(b)
  BY <1>0, <1>1 DEF Same, Intact, RowsKept, DeleteAttachment
<1>4. FileInv(a)'
  BY <1>0, <1>1, CutInv DEF DeleteAttachment
<1> QED BY <1>2, <1>3, <1>4, OneFile

\* The files of a room that is deleted: their rows go, or they are in `adrift'.
LEMMA DeleteRoomInv ==
  ASSUME Inv, NEW r \in Rooms, DeleteRoom(r) \/ DeleteRoomFails(r)
  PROVE  Inv'
<1>0. TypeOK /\ FilesOf(r) \in SUBSET Files
  BY DEF Inv, FilesOf
<1>1. /\ StoreTypes'
      /\ \A b \in Files : \/ b \in FilesOf(r) /\ (Erased(b) \/ RowsKept(b))
                          \/ b \notin FilesOf(r) /\ Intact(b)
      /\ \A b \in FilesOf(r) : Erased(b) \/ b \in adrift'
  BY <1>0, TypesOfStore, RemoveFacts, RemoveFailsFacts DEF DeleteRoom, DeleteRoomFails
<1>2. /\ message' \in {message, Emptied(r)} /\ rooms' = rooms \ {r}
      /\ removed' = removed \cup {a \in Files : room_id[a] = r}
      /\ adrift \subseteq adrift' /\ adrift' \subseteq Files
      /\ UNCHANGED <<requests, progress, seen, download, missed>>
      /\ faults' \in 0 .. MaxFaults
  BY <1>0 DEF TypeOK, DeleteRoom, DeleteRoomFails, Fault
<1>3. TypeOK'
  <2>1. message' \in [Files -> {"unsent", "there", "deleted", "gone"}]
    BY <1>0, <1>2 DEF TypeOK, Emptied
  <2> QED BY <1>0, <1>1, <1>2, <2>1 DEF TypeOK, StoreTypes
<1>4. \A b \in Files \ FilesOf(r) : b \in adrift' <=> b \in adrift
  BY DEF DeleteRoom, DeleteRoomFails
<1>5. ASSUME NEW b \in Files, room_id[b] # r PROVE FileInv(b)'
  <2>1. b \notin FilesOf(r)
    BY <1>5 DEF FilesOf
  <2>2. message'[b] = message[b]
    BY <1>2, <1>5 DEF Emptied
  <2>3. Same(b)
    BY <1>1, <1>2, <1>4, <1>5, <2>1, <2>2 DEF Same, Intact, RowsKept
  <2> QED BY <2>3, SameInv DEF Inv
<1>6. ASSUME NEW b \in Files, room_id[b] = r PROVE FileInv(b)'
  <2>1. /\ Erased(b) \/ RowsKept(b)
        /\ Erased(b) \/ b \in adrift' \/ (RowsKept(b) /\ ~Stored(b))
    BY <1>1, <1>6 DEF FilesOf, Intact
  <2>2. b \in removed' /\ FileInv(b) /\ (Stored(b) => b \in FilesOf(r))
    BY <1>2, <1>6 DEF Inv, FilesOf
  <2>3. message'[b] = message[b] \/ (message[b] # "unsent" /\ message'[b] = "gone")
    BY <1>2 DEF Emptied
  <2> USE <2>2 DEF FileInv
  <2>4. Untried(b)' /\ Stores(b)' /\ Puts(b)' /\ Completes(b)'
    <3>1. CASE Erased(b)
      BY <1>2, <2>3, <3>1 DEF Erased, Untried, Stores, Puts, Completes, Sent
    <3>2. CASE RowsKept(b)
      BY <1>2, <2>3, <3>2 DEF RowsKept, Untried, Stores, Puts, Completes, Sent
    <3> QED BY <2>1, <3>1, <3>2
  <2>5. Sent(b)' /\ Reads(b)'
    BY <1>2, <2>1, <2>3 DEF Erased, RowsKept, Sent, Reads
  <2>6. HasRow(b)' /\ GoesWithMessage(b)'
    BY <1>2, <2>1, <2>3 DEF Erased, RowsKept, HasRow, GoesWithMessage, Stored
  <2>7. GoesWithRoom(b)'
    BY <1>2, <2>1 DEF Erased, RowsKept, GoesWithRoom, Stored
  <2> QED BY <2>4, <2>5, <2>6, <2>7
<1> QED BY <1>3, <1>5, <1>6 DEF Inv

LEMMA CreateRoomInv ==
  ASSUME Inv, NEW r \in Rooms, CreateRoom(r)
  PROVE  Inv'
<1> USE DEF CreateRoom
<1>1. TypeOK'
  BY DEF Inv, TypeOK
<1>2. ASSUME NEW b \in Files PROVE FileInv(b)'
  <2> USE DEF FileInv
  <2>1. FileInv(b)
    BY DEF Inv
  <2>2. Untried(b)' /\ Stores(b)' /\ Puts(b)' /\ Completes(b)'
    BY <2>1 DEF Untried, Stores, Puts, Completes
  <2>3. Sent(b)' /\ Reads(b)'
    BY <2>1 DEF Sent, Reads
  <2>4. HasRow(b)' /\ GoesWithMessage(b)' /\ GoesWithRoom(b)'
    BY <2>1 DEF HasRow, GoesWithMessage, GoesWithRoom, Stored
  <2> QED BY <2>2, <2>3, <2>4
<1> QED BY <1>1, <1>2 DEF Inv

LEMMA RestartInv ==
  ASSUME Inv, Restart
  PROVE  Inv'
<1>1. PICK old \in SUBSET {a \in Files : CanBeStale(a)} : Remove(old)
  BY DEF Restart
<1>2. /\ TypeOK /\ StoreTypes'
      /\ \A b \in Files : IF b \in old THEN Erased(b) ELSE Intact(b)
  <2>1. old \in SUBSET Files
    OBVIOUS
  <2> QED BY <1>1, <2>1, TypesOfStore, RemoveFacts DEF Inv
<1>3. TypeOK'
  BY <1>2 DEF TypeOK, StoreTypes, Restart, Fault
<1>4. ASSUME NEW b \in Files PROVE FileInv(b)'
  <2>1. FileInv(b)
    BY DEF Inv
  <2>2. /\ puts'[b] = NoPut /\ b \notin deleting' /\ (b \in links' => b \in links)
        /\ upload'[b] = IF upload[b] = "put" THEN "over" ELSE upload[b]
        /\ b \notin reading' /\ left'[b] = {}
        /\ b \in missed \cup deleting => b \in missed'
        /\ UNCHANGED <<rooms, message, next, room_id, seen, removed, adrift>>
    BY DEF Restart
  <2>3. (Erased(b) /\ status[b] = "pending") \/ Intact(b)
    BY <1>2 DEF CanBeStale
  <2> USE <2>1 DEF FileInv
  <2>4. Untried(b)' /\ Stores(b)' /\ Puts(b)' /\ Completes(b)'
    <3>1. CASE Erased(b) /\ status[b] = "pending"
      BY <2>2, <3>1 DEF Erased, Untried, Stores, Puts, Completes
    <3>2. CASE Intact(b)
      BY <2>2, <3>2 DEF Intact, RowsKept, Untried, Stores, Puts, Completes
    <3> QED BY <2>3, <3>1, <3>2
  <2>5. Sent(b)' /\ Reads(b)'
    BY <2>2, <2>3 DEF Erased, Intact, RowsKept, Sent, Reads
  <2>6. HasRow(b)' /\ GoesWithMessage(b)' /\ GoesWithRoom(b)'
    BY <2>2, <2>3 DEF Erased, Intact, RowsKept, HasRow, GoesWithMessage, GoesWithRoom, Stored
  <2> QED BY <2>4, <2>5, <2>6
<1> QED BY <1>3, <1>4 DEF Inv

-----------------------------------------------------------------------------
LEMMA InvStep == Inv /\ [Next]_vars => Inv'
<1> SUFFICES ASSUME Inv, [Next]_vars PROVE Inv'
  OBVIOUS
<1>1. CASE UNCHANGED vars
  <2>1. TypeOK'
    BY <1>1 DEF Inv, TypeOK, vars
  <2>2. \A b \in Files : Same(b)
    BY <1>1 DEF vars, Same
  <2>3. \A b \in Files : FileInv(b)'
    BY <2>2, SameInv DEF Inv
  <2> QED BY <2>1, <2>3 DEF Inv
<1>2. ASSUME NEW a \in Files, UploadStep(a) PROVE Inv'
  BY <1>2, InitUploadInv, PutChunkInv, StoreChunkInv, StoreChunkFailsInv, PutGone,
     FinalizeInv, SendMessageInv DEF UploadStep
<1>3. ASSUME NEW a \in Files, ReadStep(a) PROVE Inv'
  BY <1>3, DisplayInv, ServeLinkInv, ReadMetaInv, ReadChunkInv DEF ReadStep
<1>4. ASSUME NEW a \in Files, DeleteStep(a) PROVE Inv'
  BY <1>4, DeleteMessageInv, MessageCleanedInv, DeleteAttachmentInv DEF DeleteStep
<1>5. ASSUME NEW r \in Rooms, RoomStep(r) PROVE Inv'
  BY <1>5, DeleteRoomInv, CreateRoomInv DEF RoomStep
<1> QED BY <1>1, <1>2, <1>3, <1>4, <1>5, RestartInv DEF Next

LEMMA Invariance == Spec => []Inv
BY InitInv, InvStep, PTL DEF Spec

\* The types, for any files, rooms, chunks of a file and faults.
THEOREM AttachmentTypes == Spec => []TypeOK
<1>1. Inv => TypeOK
  BY DEF Inv
<1> QED BY <1>1, Invariance, PTL

\* No deletion, upload or restart, cut short or not, leaves a file on the disk that
\* no row names.
THEOREM NoFileIsOrphaned == Spec => []NoOrphanFiles
<1>1. Inv => NoOrphanFiles
  BY DEF Inv, FileInv, HasRow, NoOrphanFiles
<1> QED BY <1>1, Invariance, PTL

\* A message that can be read has its file, with every chunk, until one of the two is
\* deleted.
THEOREM SentFilesAreWhole == Spec => []SentIsWhole
<1>1. Inv => SentIsWhole
  BY DEF Inv, FileInv, Sent, Completes, SentIsWhole
<1> QED BY <1>1, Invariance, PTL

\* A download gets the whole file or fails.
THEOREM DownloadsAreWhole == Spec => []DownloadIsWhole
<1>1. Inv => DownloadIsWhole
  BY DEF Inv, TypeOK, FileInv, Reads, DownloadIsWhole
<1> QED BY <1>1, Invariance, PTL

\* Both, at once: files are whole where they are kept and where they are downloaded.
THEOREM FilesStayWhole == Spec => []FilesAreWhole
<1>1. SentIsWhole /\ DownloadIsWhole => FilesAreWhole
  BY DEF FilesAreWhole
<1> QED BY <1>1, SentFilesAreWhole, DownloadsAreWhole, PTL

\* A linked file goes with its message, except where `missed' says that the link came
\* late or that the deletion failed.
THEOREM FilesGoWithMessage == Spec => []DeletedWithMessage
<1>1. Inv => DeletedWithMessage
  BY DEF Inv, FileInv, GoesWithMessage, DeletedWithMessage
<1> QED BY <1>1, Invariance, PTL

\* A room's files go with it, except where `adrift' says that the room was gone before
\* the upload or that the deletion failed.
THEOREM FilesGoWithRoom == Spec => []DeletedWithRoom
<1>1. Inv => DeletedWithRoom
  BY DEF Inv, FileInv, GoesWithRoom, DeletedWithRoom
<1> QED BY <1>1, Invariance, PTL

\* A deletion takes the files with it, of a message as of a room.
THEOREM FilesGo == Spec => []FilesGoWithOwner
<1>1. DeletedWithMessage /\ DeletedWithRoom => FilesGoWithOwner
  BY DEF FilesGoWithOwner
<1> QED BY <1>1, FilesGoWithMessage, FilesGoWithRoom, PTL

\* The other components share nothing with the attachments.
HIDE AttachmentsAssumption DEF store, requests, progress, download, history, NoPut

-----------------------------------------------------------------------------
(* Todo lists.                                                             *)

Shown == [id : Nat, by : TD!Users, text : Nat, done : BOOLEAN]
Item == [room : PageRooms, by : TD!Users, text : Nat, done : BOOLEAN, gone : BOOLEAN]
Told == [kind : {"todo_added", "todo_updated", "todo_deleted"}, room : PageRooms, row : Shown]
Asked == [type : {"join", "leave", "add", "edit", "toggle", "delete"},
          room : PageRooms \cup {NoRoom}, id : Nat, done : BOOLEAN]
Choice == [room : PageRooms, at : {"keys", "asked", "answered", "done"}, rows : Seq(Shown),
           calm : BOOLEAN]

ListTypes ==
    /\ alive \subseteq PageRooms /\ currentRoom \in PageRooms \cup {NoRoom}
    /\ items \in Seq(Item) /\ up \in Seq(Asked) /\ down \in Seq(Told)
    /\ selections \in Seq(Choice) /\ list \in Seq(Shown) /\ drawn \in Seq(Shown)
    /\ editingItemId \in Nat /\ follows \in BOOLEAN /\ changes \in Nat

\* The list l of room r becomes the items of r by the broadcasts under way, and of an item
\* that is not yet there nothing was heard.
TurnsAt(l, r, i) ==
    /\ i \in TD!ItemsOf(r) => TD!Shows(l, r, i)
    /\ i \notin TD!ItemsOf(r) => TD!Hides(l, r, i)
    /\ i \notin DOMAIN items => TD!Copies(l, i) = {} /\ TD!About(r, i) = {}
Turns(l, r) == \A i \in Nat : TurnsAt(l, r, i)

\* A list that has missed nothing: the one that is shown, or an answer.
Following(l, r) ==
    \/ follows /\ l = list /\ r = currentRoom
    \/ \E n \in DOMAIN selections :
          selections[n].calm /\ l = selections[n].rows /\ r = selections[n].room

ListInv == ListTypes /\ \A l, r : Following(l, r) => Turns(l, r)

LEMMA RowsAreShown ==
    ASSUME NEW t, NEW i \in Nat, t[i] \in Item
    PROVE  TD!Row(t, i) \in Shown /\ TD!Row(t, i).id = i
  BY DEF TD!Row, Shown, Item

\* What is not about r leaves its lists as they were.
LEMMA TurnsElsewhere ==
    ASSUME NEW l, NEW r, Turns(l, r), items \in Seq(Item), DOMAIN items \subseteq DOMAIN items',
           TD!ItemsOf(r)' = TD!ItemsOf(r),
           \A i \in TD!ItemsOf(r) : TD!Row(items, i)' = TD!Row(items, i),
           \A i \in Nat : TD!About(r, i)' = TD!About(r, i),
           \A i \in Nat : \A k \in TD!About(r, i) : down'[k] = down[k]
    PROVE  Turns(l, r)'
<1> SUFFICES ASSUME NEW i \in Nat
             PROVE  /\ i \in TD!ItemsOf(r) => TD!Shows(l, r, i)'
                    /\ i \notin TD!ItemsOf(r) => TD!Hides(l, r, i)'
                    /\ i \notin DOMAIN items' => TD!Copies(l, i) = {} /\ TD!About(r, i) = {}
  BY DEF Turns, TurnsAt, TD!Copies
<1>1. TD!About(r, i)' = TD!About(r, i) /\ TD!Copies(l, i)' = TD!Copies(l, i)
  BY DEF TD!Copies
<1>2. \A k \in TD!About(r, i) : down'[k] = down[k]
  OBVIOUS
<1>3. TD!Additions(r, i)' = TD!Additions(r, i) /\ TD!LastAbout(r, i)' = TD!LastAbout(r, i)
  BY <1>1, <1>2 DEF TD!Additions, TD!LastAbout
<1>4. TD!LastAbout(r, i) \subseteq TD!About(r, i)
  BY DEF TD!LastAbout
<1>5. ASSUME i \in TD!ItemsOf(r) PROVE TD!Shows(l, r, i)'
  <2>1. TD!Shows(l, r, i) /\ TD!Row(items, i)' = TD!Row(items, i)
    BY <1>5 DEF Turns, TurnsAt
  <2> QED
    BY <2>1, <1>1, <1>2, <1>3, <1>4 DEF TD!Shows
<1>6. ASSUME i \notin TD!ItemsOf(r) PROVE TD!Hides(l, r, i)'
  <2>1. TD!Hides(l, r, i)
    BY <1>6 DEF Turns, TurnsAt
  <2> QED
    BY <2>1, <1>1, <1>2, <1>3, <1>4 DEF TD!Hides
<1> QED
  BY <1>5, <1>6 DEF Turns, TurnsAt

\* A broadcast about room q on the wire.
LEMMA AboutAppended ==
    ASSUME down \in Seq(Told), NEW e \in Told, down' = Append(down, e), NEW r, NEW i \in Nat
    PROVE  /\ TD!About(r, i)' = TD!About(r, i)
                    \cup (IF e.room = r /\ e.row.id = i THEN {Len(down) + 1} ELSE {})
           /\ \A k \in DOMAIN down : down'[k] = down[k] /\ k < Len(down) + 1
           /\ down'[Len(down) + 1] = e /\ TD!About(r, i) \subseteq DOMAIN down
           /\ DOMAIN down \subseteq Nat
<1>1. /\ DOMAIN down' = DOMAIN down \cup {Len(down) + 1} /\ Len(down) + 1 \notin DOMAIN down
      /\ \A k \in DOMAIN down : down'[k] = down[k] /\ k < Len(down) + 1
      /\ down'[Len(down) + 1] = e
      /\ DOMAIN down \subseteq Nat
  OBVIOUS
<1> QED
  BY <1>1 DEF TD!About

\* A new item that is told.
LEMMA TurnsAdded ==
    ASSUME ListTypes, NEW l, NEW r \in PageRooms, Turns(l, r), NEW u \in TD!Users,
           items' = Append(items, [room |-> r, by |-> u, text |-> 0, done |-> FALSE,
                                   gone |-> FALSE]),
           NEW e, e = [kind |-> "todo_added", room |-> r, row |-> TD!Row(items', Len(items) + 1)],
           down' = Append(down, e)
    PROVE  Turns(l, r)' /\ e \in Told
<1>0. PICK new : new = Len(items) + 1
  OBVIOUS
<1>1. /\ new \in Nat /\ new \notin DOMAIN items /\ DOMAIN items' = DOMAIN items \cup {new}
      /\ \A i \in DOMAIN items : items'[i] = items[i]
      /\ items'[new] = [room |-> r, by |-> u, text |-> 0, done |-> FALSE, gone |-> FALSE]
  BY <1>0 DEF ListTypes
<1>2. TD!ItemsOf(r)' = TD!ItemsOf(r) \cup {new} /\ TD!ItemsOf(r) \subseteq DOMAIN items
  BY <1>1 DEF TD!ItemsOf
<1>3. e \in Told /\ e.room = r /\ e.row.id = new /\ e.kind = "todo_added"
      /\ e.row = TD!Row(items', new)
  <2>1. e.row = TD!Row(items', new) /\ e.row.id = new /\ e.room = r /\ e.kind = "todo_added"
    BY <1>0 DEF TD!Row
  <2>2. items'[new] \in Item
    BY <1>1 DEF Item
  <2>3. e.row \in Shown
    BY <2>1, <2>2, <1>1, RowsAreShown
  <2> QED
    BY <2>1, <2>3 DEF Told
<1>4. down \in Seq(Told)
  BY DEF ListTypes
<1>5. ASSUME NEW i \in Nat
      PROVE  /\ TD!About(r, i)' = TD!About(r, i) \cup (IF i = new THEN {Len(down) + 1} ELSE {})
             /\ \A k \in DOMAIN down : down'[k] = down[k] /\ k < Len(down) + 1
             /\ down'[Len(down) + 1] = e /\ TD!About(r, i) \subseteq DOMAIN down
  <2>1. /\ TD!About(r, i)' = TD!About(r, i)
                    \cup (IF e.room = r /\ e.row.id = i THEN {Len(down) + 1} ELSE {})
        /\ \A k \in DOMAIN down : down'[k] = down[k] /\ k < Len(down) + 1
        /\ down'[Len(down) + 1] = e /\ TD!About(r, i) \subseteq DOMAIN down
    BY <1>3, <1>4, AboutAppended
  <2> QED
    BY <2>1, <1>3
<1>6. ASSUME NEW i \in Nat, i # new
      PROVE  /\ TD!About(r, i)' = TD!About(r, i) /\ TD!Copies(l, i)' = TD!Copies(l, i)
             /\ \A k \in TD!About(r, i) : down'[k] = down[k]
             /\ TD!Additions(r, i)' = TD!Additions(r, i)
             /\ TD!LastAbout(r, i)' = TD!LastAbout(r, i)
             /\ TD!LastAbout(r, i) \subseteq TD!About(r, i)
  BY <1>5, <1>6 DEF TD!Copies, TD!Additions, TD!LastAbout
<1>7. /\ TD!Copies(l, new) = {} /\ TD!About(r, new) = {}
  BY <1>1 DEF Turns, TurnsAt
<1>8. TD!About(r, new)' = {Len(down) + 1} /\ down'[Len(down) + 1] = e
  BY <1>1, <1>5, <1>7
<1>9. TD!Shows(l, r, new)'
  <2>1. TD!Additions(r, new)' = {Len(down) + 1} /\ TD!LastAbout(r, new)' \subseteq {Len(down) + 1}
    BY <1>3, <1>8 DEF TD!Additions, TD!LastAbout
  <2>2. TD!Copies(l, new)' = {} /\ TD!About(r, new)' = {Len(down) + 1}
    BY <1>7, <1>8 DEF TD!Copies
  <2>3. down'[Len(down) + 1].row = TD!Row(items, new)' /\ down'[Len(down) + 1].kind = "todo_added"
    BY <1>3, <1>8 DEF TD!Row
  <2> QED
    BY <2>1, <2>2, <2>3 DEF TD!Shows
<1> SUFFICES ASSUME NEW i \in Nat, i # new
             PROVE  /\ i \in TD!ItemsOf(r) => TD!Shows(l, r, i)'
                    /\ i \notin TD!ItemsOf(r) => TD!Hides(l, r, i)'
                    /\ i \notin DOMAIN items => TD!Copies(l, i)' = {} /\ TD!About(r, i)' = {}
  BY <1>1, <1>2, <1>3, <1>9 DEF Turns, TurnsAt
<1>10. ASSUME i \in TD!ItemsOf(r) PROVE TD!Shows(l, r, i)'
  <2>1. TD!Shows(l, r, i)
    BY <1>10 DEF Turns, TurnsAt
  <2>2. TD!Row(items, i)' = TD!Row(items, i)
    BY <1>1, <1>2, <1>10 DEF TD!Row
  <2> QED
    BY <2>1, <2>2, <1>6 DEF TD!Shows
<1>11. ASSUME i \notin TD!ItemsOf(r) PROVE TD!Hides(l, r, i)'
  <2>1. TD!Hides(l, r, i)
    BY <1>11 DEF Turns, TurnsAt
  <2> QED
    BY <2>1, <1>6 DEF TD!Hides
<1> QED
  BY <1>6, <1>10, <1>11 DEF Turns, TurnsAt

\* A change of an item, or its end, that is told.
LEMMA TurnsChanged ==
    ASSUME ListTypes, NEW l, NEW r \in PageRooms, Turns(l, r), NEW i \in TD!ItemsOf(r),
           NEW x \in Item, items' = [items EXCEPT ![i] = x], x.room = r, x.by = items[i].by,
           NEW e \in Told, down' = Append(down, e), e.room = r, e.row.id = i,
           \/ e.kind = "todo_updated" /\ ~x.gone /\ e.row = TD!Row(items', i)
           \/ e.kind = "todo_deleted" /\ x.gone
    PROVE  Turns(l, r)'
<1>1. /\ i \in Nat /\ i \in DOMAIN items /\ DOMAIN items' = DOMAIN items /\ items'[i] = x
      /\ \A j \in DOMAIN items : j # i => items'[j] = items[j]
      /\ TD!ItemsOf(r) \subseteq DOMAIN items
  BY DEF ListTypes, TD!ItemsOf
<1>2. TD!ItemsOf(r)' = IF x.gone THEN TD!ItemsOf(r) \ {i} ELSE TD!ItemsOf(r)
  BY <1>1 DEF TD!ItemsOf
<1>3. down \in Seq(Told)
  BY DEF ListTypes
<1>4. ASSUME NEW j \in Nat
      PROVE  /\ TD!About(r, j)' = TD!About(r, j) \cup (IF j = i THEN {Len(down) + 1} ELSE {})
             /\ \A k \in DOMAIN down : down'[k] = down[k] /\ k < Len(down) + 1
             /\ down'[Len(down) + 1] = e /\ TD!About(r, j) \subseteq DOMAIN down
             /\ DOMAIN down \subseteq Nat
  BY <1>3, AboutAppended
<1>5. ASSUME NEW j \in Nat, j # i
      PROVE  /\ TD!About(r, j)' = TD!About(r, j) /\ TD!Copies(l, j)' = TD!Copies(l, j)
             /\ \A k \in TD!About(r, j) : down'[k] = down[k]
             /\ TD!Additions(r, j)' = TD!Additions(r, j)
             /\ TD!LastAbout(r, j)' = TD!LastAbout(r, j)
             /\ TD!LastAbout(r, j) \subseteq TD!About(r, j)
  <2>1. TD!About(r, j)' = TD!About(r, j) \cup {}
    BY <1>4, <1>5
  <2>2. \A k \in TD!About(r, j) : down'[k] = down[k]
    BY <1>4
  <2> QED
    BY <2>1, <2>2 DEF TD!Copies, TD!Additions, TD!LastAbout
<1>6. /\ TD!About(r, i)' = TD!About(r, i) \cup {Len(down) + 1}
      /\ down'[Len(down) + 1] = e
      /\ \A k \in TD!About(r, i) : down'[k] = down[k]
      /\ TD!LastAbout(r, i)' = {Len(down) + 1}
      /\ TD!Additions(r, i)' = TD!Additions(r, i)
  <2>1. /\ TD!About(r, i)' = TD!About(r, i) \cup {Len(down) + 1}
        /\ down'[Len(down) + 1] = e
        /\ \A k \in TD!About(r, i) : k \in Nat /\ down'[k] = down[k] /\ k < Len(down) + 1
    BY <1>1, <1>4
  <2>2. Len(down) + 1 \in Nat
    BY <1>3
  <2>3. TD!LastAbout(r, i)' = {Len(down) + 1}
    BY <2>1, <2>2 DEF TD!LastAbout
  <2> QED
    BY <2>1, <2>3 DEF TD!Additions
<1>7. TD!Shows(l, r, i) /\ TD!Copies(l, i)' = TD!Copies(l, i)
  BY <1>1 DEF Turns, TurnsAt, TD!Copies
<1>8. ASSUME ~x.gone PROVE TD!Shows(l, r, i)'
  <2>1. e.kind = "todo_updated" /\ e.row = TD!Row(items, i)'
    BY <1>8 DEF TD!Row
  <2> QED
    BY <1>6, <1>7, <2>1 DEF TD!Shows
<1>9. ASSUME x.gone PROVE TD!Hides(l, r, i)'
  BY <1>6, <1>9 DEF TD!Hides
<1>10. ASSUME NEW j \in Nat, j # i
       PROVE  /\ j \in TD!ItemsOf(r) => TD!Shows(l, r, j)'
              /\ j \notin TD!ItemsOf(r) => TD!Hides(l, r, j)'
              /\ j \notin DOMAIN items => TD!Copies(l, j)' = {} /\ TD!About(r, j)' = {}
  <2>1. ASSUME j \in TD!ItemsOf(r) PROVE TD!Shows(l, r, j)'
    <3>1. TD!Shows(l, r, j)
      BY <2>1 DEF Turns, TurnsAt
    <3>2. TD!Row(items, j)' = TD!Row(items, j)
      BY <1>1, <1>10, <2>1 DEF TD!Row
    <3>3. /\ TD!About(r, j)' = TD!About(r, j) /\ TD!Copies(l, j)' = TD!Copies(l, j)
          /\ \A k \in TD!About(r, j) : down'[k] = down[k]
          /\ TD!Additions(r, j)' = TD!Additions(r, j)
          /\ TD!LastAbout(r, j)' = TD!LastAbout(r, j)
          /\ TD!LastAbout(r, j) \subseteq TD!About(r, j)
      BY <1>5, <1>10
    <3> QED
      BY <3>1, <3>2, <3>3 DEF TD!Shows
  <2>2. ASSUME j \notin TD!ItemsOf(r) PROVE TD!Hides(l, r, j)'
    <3>1. TD!Hides(l, r, j)
      BY <2>2 DEF Turns, TurnsAt
    <3> QED
      BY <3>1, <1>5, <1>10 DEF TD!Hides
  <2> QED
    BY <2>1, <2>2, <1>5, <1>10 DEF Turns, TurnsAt
<1> QED
  BY <1>1, <1>2, <1>8, <1>9, <1>10 DEF Turns, TurnsAt

\* A change of what is in room q leaves the lists of the others as they were.
LEMMA TurnsBeside ==
    ASSUME ListTypes, NEW q, NEW r, r # q, NEW l, Turns(l, r),
           items' \in Seq(Item), DOMAIN items \subseteq DOMAIN items',
           \A i \in DOMAIN items :
              items'[i] = items[i] \/ (items[i].room = q /\ items'[i].room = q),
           \A i \in DOMAIN items' : i \in DOMAIN items \/ items'[i].room = q,
           down' = down \/ \E e \in Told : e.room = q /\ down' = Append(down, e)
    PROVE  Turns(l, r)'
<1>1. TD!ItemsOf(r)' = TD!ItemsOf(r)
  BY DEF TD!ItemsOf
<1>2. ASSUME NEW i \in TD!ItemsOf(r) PROVE TD!Row(items, i)' = TD!Row(items, i)
  BY DEF TD!ItemsOf, TD!Row
<1>3. ASSUME NEW i \in Nat
      PROVE  /\ TD!About(r, i)' = TD!About(r, i)
             /\ \A k \in TD!About(r, i) : down'[k] = down[k]
  <2>1. CASE down' = down
    BY <2>1 DEF TD!About
  <2>2. ASSUME NEW e \in Told, e.room = q, down' = Append(down, e)
        PROVE  /\ TD!About(r, i)' = TD!About(r, i)
               /\ \A k \in TD!About(r, i) : down'[k] = down[k]
    <3>1. /\ TD!About(r, i)' = TD!About(r, i)
                    \cup (IF e.room = r /\ e.row.id = i THEN {Len(down) + 1} ELSE {})
          /\ \A k \in DOMAIN down : down'[k] = down[k] /\ k < Len(down) + 1
          /\ TD!About(r, i) \subseteq DOMAIN down
      BY <2>2, AboutAppended DEF ListTypes
    <3>2. TD!About(r, i)' = TD!About(r, i) \cup {}
      BY <2>2, <3>1
    <3> QED
      BY <3>1, <3>2
  <2> QED
    BY <2>1, <2>2
<1>4. items \in Seq(Item)
  BY DEF ListTypes
<1> QED
  BY <1>1, <1>2, <1>3, <1>4, TurnsElsewhere

Heard(m, told) == told /\ m.room \in joined

\* A change: the lists that are not behind go on.
LEMMA ChangeFacts ==
    ASSUME ListTypes, NEW u \in TD!Users, NEW m, m.room \in PageRooms, m.done \in BOOLEAN,
           NEW told \in BOOLEAN, TD!Change(u, m, told)
    PROVE  /\ items' \in Seq(Item) /\ down' \in Seq(Told) /\ changes' \in Nat
           /\ \A l, r : Turns(l, r) /\ (r = m.room => Heard(m, told)) => Turns(l, r)'
           /\ Heard(m, told) => UNCHANGED <<follows, selections>>
           /\ ~Heard(m, told) => TD!Behind(m.room)
<1> USE DEF Heard
<1>t. items \in Seq(Item) /\ down \in Seq(Told) /\ changes \in Nat
  BY DEF ListTypes
<1>1. ASSUME TD!add_item(u, m, told)
      PROVE  /\ items' \in Seq(Item) /\ down' \in Seq(Told) /\ changes' \in Nat
             /\ \A l, r : Turns(l, r) /\ (r = m.room => Heard(m, told)) => Turns(l, r)'
             /\ Heard(m, told) => UNCHANGED <<follows, selections>>
             /\ ~Heard(m, told) => TD!Behind(m.room)
  <2> DEFINE x == [room |-> m.room, by |-> u, text |-> 0, done |-> FALSE, gone |-> FALSE]
             e == [kind |-> "todo_added", room |-> m.room, row |-> TD!Row(items', Len(items) + 1)]
  <2>1. /\ items' = Append(items, x) /\ UNCHANGED changes
        /\ TD!Announce(m.room, "todo_added", TD!Row(items', Len(items) + 1), told)
    BY <1>1 DEF TD!add_item
  <2>2. /\ IF Heard(m, told) THEN down' = Append(down, e) /\ UNCHANGED <<follows, selections>>
           ELSE TD!Behind(m.room) /\ UNCHANGED down
    BY <2>1 DEF TD!Announce
  <2>3. x \in Item /\ x.room = m.room
    BY DEF Item
  <2>4. /\ items' \in Seq(Item) /\ DOMAIN items \subseteq DOMAIN items'
        /\ \A i \in DOMAIN items : items'[i] = items[i]
        /\ \A i \in DOMAIN items' : i \in DOMAIN items \/ items'[i] = x
        /\ Len(items) + 1 \in Nat /\ items'[Len(items) + 1] = x
    <3> HIDE DEF x
    <3> QED
      BY <1>t, <2>1, <2>3
  <2>5. e \in Told /\ e.room = m.room
    <3>1. TD!Row(items', Len(items) + 1) \in Shown
      BY <2>3, <2>4, RowsAreShown
    <3> QED
      BY <3>1 DEF Told
  <2>6. down' = down \/ (e.room = m.room /\ down' = Append(down, e))
    <3> HIDE DEF e
    <3> QED
      BY <2>2, <2>5 DEF TD!Behind
  <2>7. down' \in Seq(Told)
    <3> HIDE DEF e
    <3> QED
      BY <2>5, <2>6, <1>t
  <2>8. ASSUME NEW l, NEW r, Turns(l, r), r # m.room PROVE Turns(l, r)'
    <3>1. \A i \in DOMAIN items' : i \in DOMAIN items \/ items'[i].room = m.room
      BY <2>3, <2>4
    <3>2. down' = down \/ \E f \in Told : f.room = m.room /\ down' = Append(down, f)
      <4> HIDE DEF e
      <4> QED
        BY <2>5, <2>6
    <3> HIDE DEF e, x
    <3> QED
      BY <2>4, <2>8, <3>1, <3>2, TurnsBeside
  <2>9. ASSUME NEW l, NEW r, Turns(l, r), r = m.room, Heard(m, told) PROVE Turns(l, r)'
    <3>1. down' = Append(down, e)
      BY <2>2, <2>9
    <3>2. PICK f : f = e
      OBVIOUS
    <3>3. /\ f = [kind |-> "todo_added", room |-> r, row |-> TD!Row(items', Len(items) + 1)]
          /\ down' = Append(down, f)
      BY <3>1, <3>2, <2>9
    <3>4. items' = Append(items, [room |-> r, by |-> u, text |-> 0, done |-> FALSE,
                                  gone |-> FALSE])
      BY <2>1, <2>9
    <3> HIDE DEF e, x
    <3> QED
      BY <2>9, <3>3, <3>4, TurnsAdded
  <2> HIDE DEF e, x
  <2> QED
    BY <1>t, <2>1, <2>2, <2>4, <2>7, <2>8, <2>9
<1>2. ASSUME NEW kind \in {"todo_updated", "todo_deleted"}, NEW i \in TD!ItemsOf(m.room),
             NEW x \in Item, items' = [items EXCEPT ![i] = x], x.room = m.room,
             x.by = items[i].by, x.gone <=> kind = "todo_deleted",
             NEW row \in Shown, row.id = i, kind = "todo_updated" => row = TD!Row(items', i),
             TD!Announce(m.room, kind, row, told), changes' = changes + 1
      PROVE  /\ items' \in Seq(Item) /\ down' \in Seq(Told) /\ changes' \in Nat
             /\ \A l, r : Turns(l, r) /\ (r = m.room => Heard(m, told)) => Turns(l, r)'
             /\ Heard(m, told) => UNCHANGED <<follows, selections>>
             /\ ~Heard(m, told) => TD!Behind(m.room)
  <2>1. PICK e : e = [kind |-> kind, room |-> m.room, row |-> row]
    OBVIOUS
  <2>2. e \in Told /\ e.room = m.room /\ e.row = row /\ e.kind = kind
    BY <1>2, <2>1 DEF Told
  <2>3. /\ IF Heard(m, told) THEN down' = Append(down, e) /\ UNCHANGED <<follows, selections>>
           ELSE TD!Behind(m.room) /\ UNCHANGED down
    BY <1>2, <2>1 DEF TD!Announce
  <2>4. i \in DOMAIN items /\ items[i].room = m.room
    BY <1>2 DEF TD!ItemsOf
  <2>5. /\ items' \in Seq(Item) /\ DOMAIN items' = DOMAIN items
        /\ \A j \in DOMAIN items : items'[j] = items[j]
                            \/ (items[j].room = m.room /\ items'[j].room = m.room)
    BY <1>t, <1>2, <2>4
  <2>6. down' = down \/ \E f \in Told : f.room = m.room /\ down' = Append(down, f)
    BY <2>2, <2>3 DEF TD!Behind
  <2>7. down' \in Seq(Told)
    BY <2>6, <1>t
  <2>8. ASSUME NEW l, NEW r, Turns(l, r), r # m.room PROVE Turns(l, r)'
    BY <2>5, <2>6, <2>8, TurnsBeside
  <2>9. ASSUME NEW l, NEW r, Turns(l, r), r = m.room, Heard(m, told) PROVE Turns(l, r)'
    <3>1. down' = Append(down, e)
      BY <2>3, <2>9
    <3>2. \/ e.kind = "todo_updated" /\ ~x.gone /\ e.row = TD!Row(items', i)
          \/ e.kind = "todo_deleted" /\ x.gone
      BY <1>2, <2>2
    <3> QED
      BY <1>2, <2>2, <2>9, <3>1, <3>2, TurnsChanged
  <2> QED
    BY <1>t, <1>2, <2>3, <2>5, <2>7, <2>8, <2>9
<1>3. ASSUME TD!update_item(u, m, told)
      PROVE  \E i \in TD!ItemsOf(m.room), x \in Item, row \in Shown :
                /\ items' = [items EXCEPT ![i] = x] /\ x.room = m.room
                /\ x.by = items[i].by /\ ~x.gone
                /\ row.id = i /\ row = TD!Row(items', i)
                /\ TD!Announce(m.room, "todo_updated", row, told) /\ changes' = changes + 1
  <2>1. /\ m.id \in TD!ItemsOf(m.room) /\ changes' = changes + 1
        /\ items' = IF m.type = "edit" THEN [items EXCEPT ![m.id].text = changes + 1]
                    ELSE [items EXCEPT ![m.id].done = m.done]
        /\ TD!Announce(m.room, "todo_updated", TD!Row(items', m.id), told)
    BY <1>3 DEF TD!update_item, TD!Found
  <2>2. m.id \in DOMAIN items /\ m.id \in Nat /\ items[m.id].room = m.room /\ ~items[m.id].gone
        /\ items[m.id] \in Item
    BY <2>1, <1>t DEF TD!ItemsOf
  <2>3. PICK y : y = items[m.id] /\ y \in Item /\ y.room = m.room /\ ~y.gone
    BY <2>2
  <2>a. PICK v \in Nat : v = changes + 1
    BY <1>t
  <2>4. /\ [y EXCEPT !.text = v] \in Item
        /\ [y EXCEPT !.text = v].room = y.room
        /\ [y EXCEPT !.text = v].by = y.by
        /\ [y EXCEPT !.text = v].gone = y.gone
    BY <2>3 DEF Item
  <2>5. /\ [y EXCEPT !.done = m.done] \in Item
        /\ [y EXCEPT !.done = m.done].room = y.room
        /\ [y EXCEPT !.done = m.done].by = y.by
        /\ [y EXCEPT !.done = m.done].gone = y.gone
    BY <2>3 DEF Item
  <2>6. PICK x \in Item : /\ items' = [items EXCEPT ![m.id] = x] /\ x.room = m.room
                          /\ x.by = items[m.id].by /\ ~x.gone
    <3>1. CASE m.type = "edit"
      <4>1. items' = [items EXCEPT ![m.id] = [y EXCEPT !.text = v]]
        BY <2>1, <2>3, <2>a, <3>1
      <4> QED
        BY <2>3, <2>4, <4>1
    <3>2. CASE m.type # "edit"
      <4>1. items' = [items EXCEPT ![m.id] = [y EXCEPT !.done = m.done]]
        BY <2>1, <2>3, <3>2
      <4> QED
        BY <2>3, <2>5, <4>1
    <3> QED
      BY <3>1, <3>2
  <2>7. PICK row : row = TD!Row(items', m.id)
    OBVIOUS
  <2>8. row \in Shown /\ row.id = m.id
    <3>1. items'[m.id] \in Item
      BY <2>2, <2>6, <1>t
    <3> QED
      BY <3>1, <2>2, <2>7, RowsAreShown
  <2> QED
    BY <2>1, <2>6, <2>7, <2>8
<1>4. ASSUME TD!delete_item(u, m, told)
      PROVE  \E i \in TD!ItemsOf(m.room), x \in Item, row \in Shown :
                /\ items' = [items EXCEPT ![i] = x] /\ x.room = m.room
                /\ x.by = items[i].by /\ x.gone
                /\ row.id = i
                /\ TD!Announce(m.room, "todo_deleted", row, told) /\ changes' = changes + 1
  <2>1. /\ m.id \in TD!ItemsOf(m.room) /\ changes' = changes + 1
        /\ items' = [items EXCEPT ![m.id].gone = TRUE]
        /\ TD!Announce(m.room, "todo_deleted", TD!Row(items, m.id), told)
    BY <1>4 DEF TD!delete_item, TD!Found
  <2>2. m.id \in DOMAIN items /\ m.id \in Nat /\ items[m.id].room = m.room
        /\ items[m.id] \in Item
    BY <2>1, <1>t DEF TD!ItemsOf
  <2>3. PICK y : y = items[m.id] /\ y \in Item /\ y.room = m.room
    BY <2>2
  <2>4. /\ [y EXCEPT !.gone = TRUE] \in Item
        /\ [y EXCEPT !.gone = TRUE].room = y.room
        /\ [y EXCEPT !.gone = TRUE].by = y.by
        /\ [y EXCEPT !.gone = TRUE].gone = TRUE
    BY <2>3 DEF Item
  <2>5. items' = [items EXCEPT ![m.id] = [y EXCEPT !.gone = TRUE]]
    BY <2>1, <2>3
  <2>6. TD!Row(items, m.id) \in Shown /\ TD!Row(items, m.id).id = m.id
    BY <2>2, RowsAreShown
  <2> QED
    BY <2>1, <2>3, <2>4, <2>5, <2>6
<1>5. CASE TD!update_item(u, m, told)
  BY <1>2, <1>3, <1>5
<1>6. CASE TD!delete_item(u, m, told)
  BY <1>2, <1>4, <1>6
<1> QED
  BY <1>1, <1>5, <1>6 DEF TD!Change

\* The numbers of S in their order: each of them once.
LEMMA AscendingFacts ==
    ASSUME NEW S \in SUBSET Nat, IsFiniteSet(S)
    PROVE  /\ TD!Ascending(S) \in [1 .. Cardinality(S) -> S] /\ Cardinality(S) \in Nat
           /\ \A x \in S : \E k \in 1 .. Cardinality(S) : TD!Ascending(S)[k] = x
           /\ \A j, k \in 1 .. Cardinality(S) :
                 TD!Ascending(S)[j] = TD!Ascending(S)[k] => j = k
<1> DEFINE n == Cardinality(S)
           Upto(x) == {y \in S : y <= x}
           rank == [x \in S |-> Cardinality(Upto(x))]
<1>1. n \in Nat
  BY FS_CardinalityType
<1>2. ASSUME NEW x \in S
      PROVE IsFiniteSet(Upto(x)) /\ Cardinality(Upto(x)) \in 1 .. n
  <2>1. IsFiniteSet(Upto(x)) /\ Cardinality(Upto(x)) <= n /\ Cardinality(Upto(x)) \in Nat
    BY FS_Subset, FS_CardinalityType, Upto(x) \subseteq S
  <2>2. x \in Upto(x)
    OBVIOUS
  <2>3. Cardinality(Upto(x)) # 0
    BY <2>1, <2>2, FS_EmptySet
  <2> QED
    BY <1>1, <2>1, <2>3
<1>3. ASSUME NEW x \in S, NEW y \in S, x < y
      PROVE  Cardinality(Upto(x)) < Cardinality(Upto(y))
  <2>1. Upto(x) \subseteq Upto(y) /\ Upto(x) # Upto(y)
    <3>1. y \in Upto(y) /\ y \notin Upto(x)
      BY <1>3
    <3>2. \A z \in Upto(x) : z \in Upto(y)
      BY <1>3
    <3> QED
      BY <3>1, <3>2
  <2>2. IsFiniteSet(Upto(y)) /\ Cardinality(Upto(x)) \in Nat /\ Cardinality(Upto(y)) \in Nat
    BY <1>2
  <2>3. Cardinality(Upto(x)) <= Cardinality(Upto(y))
        /\ (Cardinality(Upto(x)) = Cardinality(Upto(y)) => Upto(x) = Upto(y))
    BY <2>1, <2>2, FS_Subset
  <2> HIDE DEF Upto
  <2> QED
    BY <2>1, <2>2, <2>3
<1>4. rank \in [S -> 1 .. n] /\ \A x \in S : rank[x] = Cardinality(Upto(x))
  <2> HIDE DEF Upto, n
  <2> QED
    BY <1>2
<1>5. \A x, y \in S : rank[x] = rank[y] => x = y
  <2> SUFFICES ASSUME NEW x \in S, NEW y \in S, x # y PROVE rank[x] # rank[y]
    OBVIOUS
  <2>1. x < y \/ y < x
    OBVIOUS
  <2>2. rank[x] \in Nat /\ rank[y] \in Nat
    BY <1>1, <1>4
  <2> HIDE DEF rank, Upto
  <2> QED
    BY <2>1, <2>2, <1>3, <1>4
<1> HIDE DEF rank, Upto
<1>6. \A k \in 1 .. n : \E x \in S : rank[x] = k
  <2>1. IsFiniteSet(1 .. n) /\ Cardinality(1 .. n) = n
    BY <1>1, FS_Interval
  <2>2. rank \in Injection(S, 1 .. n)
    BY <1>4, <1>5 DEF Injection, IsInjective
  <2>3. rank \in Surjection(S, 1 .. n)
    BY <2>1, <2>2, FS_Injection
  <2> QED
    BY <2>3 DEF Surjection
<1>7. PICK s : s = [k \in 1 .. n |-> CHOOSE x \in S : rank[x] = k]
  OBVIOUS
<1>8. s \in [1 .. n -> S] /\ \A k \in 1 .. n : rank[s[k]] = k
  BY <1>6, <1>7
<1>9. \A i, j \in DOMAIN s : i < j => s[i] < s[j]
  <2> SUFFICES ASSUME NEW i \in 1 .. n, NEW j \in 1 .. n, i < j PROVE s[i] < s[j]
    BY <1>8
  <2>1. s[i] \in S /\ s[j] \in S /\ rank[s[i]] = i /\ rank[s[j]] = j
    BY <1>8
  <2>2. s[j] < s[i] => rank[s[j]] < rank[s[i]]
    BY <2>1, <1>3, <1>4
  <2>3. s[i] \in Nat /\ s[j] \in Nat
    BY <2>1
  <2>4. i \in Nat /\ j \in Nat
    BY <1>1
  <2> QED
    BY <2>1, <2>2, <2>3, <2>4
<1>10. PICK a : a = TD!Ascending(S)
  OBVIOUS
<1>11. a \in [1 .. n -> S] /\ \A i, j \in DOMAIN a : i < j => a[i] < a[j]
  <2>1. \E t \in [1 .. Cardinality(S) -> S] : \A i, j \in DOMAIN t : i < j => t[i] < t[j]
    BY <1>8, <1>9
  <2>2. TD!Cardinality(S) = Cardinality(S)
    BY Zenon DEF TD!Cardinality, Cardinality
  <2> QED
    BY <2>1, <2>2, <1>10, Zenon DEF TD!Ascending
<1>12. \A i, j \in 1 .. n : a[i] = a[j] => i = j
  <2> SUFFICES ASSUME NEW i \in 1 .. n, NEW j \in 1 .. n, i # j PROVE a[i] # a[j]
    OBVIOUS
  <2>1. a[i] \in Nat /\ a[j] \in Nat /\ (i < j => a[i] < a[j]) /\ (j < i => a[j] < a[i])
    BY <1>11
  <2> QED
    BY <2>1
<1>13. \A x \in S : \E k \in 1 .. n : a[k] = x
  <2>1. IsFiniteSet(1 .. n) /\ Cardinality(1 .. n) = n
    BY <1>1, FS_Interval
  <2>2. a \in Injection(1 .. n, S)
    BY <1>11, <1>12 DEF Injection, IsInjective
  <2>3. a \in Surjection(1 .. n, S)
    BY <2>1, <2>2, FS_Injection
  <2> QED
    BY <2>3 DEF Surjection
<1> QED
  BY <1>1, <1>10, <1>11, <1>12, <1>13

\* An answer holds every item of the room once, as it is stored.
LEMMA AnswerFacts ==
    ASSUME ListTypes, NEW r
    PROVE  /\ TD!get_items(r) \in Seq(Shown)
           /\ \A i \in Nat :
                 IF i \in TD!ItemsOf(r)
                 THEN \E k : /\ TD!Copies(TD!get_items(r), i) = {k}
                             /\ TD!get_items(r)[k] = TD!Row(items, i)
                 ELSE TD!Copies(TD!get_items(r), i) = {}
<1>1. PICK F, T : /\ F = {i \in TD!ItemsOf(r) : items[i].done = FALSE}
                  /\ T = {i \in TD!ItemsOf(r) : items[i].done = TRUE}
  OBVIOUS
<1>2. /\ items \in Seq(Item) /\ TD!ItemsOf(r) \subseteq DOMAIN items
      /\ DOMAIN items = 1 .. Len(items) /\ Len(items) \in Nat
  BY DEF ListTypes, TD!ItemsOf
<1>3. /\ F \cup T = TD!ItemsOf(r) /\ F \cap T = {}
  <2>1. \A i \in TD!ItemsOf(r) : items[i].done = TRUE \/ items[i].done = FALSE
    <3> SUFFICES ASSUME NEW i \in TD!ItemsOf(r)
                 PROVE  items[i].done = TRUE \/ items[i].done = FALSE
      OBVIOUS
    <3>1. PICK x : x = items[i]
      OBVIOUS
    <3>2. x \in Item
      BY <1>2, <3>1
    <3>3. x.done \in BOOLEAN
      BY <3>2 DEF Item
    <3> QED
      BY <3>1, <3>3
  <2> QED
    BY <1>1, <2>1
<1>4. IsFiniteSet(DOMAIN items)
  BY <1>2, FS_Interval
<1>5. /\ F \in SUBSET Nat /\ IsFiniteSet(F)
      /\ T \in SUBSET Nat /\ IsFiniteSet(T)
  <2>1. F \subseteq DOMAIN items /\ T \subseteq DOMAIN items
    BY <1>2, <1>3
  <2> QED
    BY <2>1, <1>2, <1>4, FS_Subset
<1>6. PICK p, q : p = TD!Ascending(F) /\ q = TD!Ascending(T)
  OBVIOUS
<1>7. PICK n, m : n = Cardinality(F) /\ m = Cardinality(T)
  OBVIOUS
<1>8. /\ n \in Nat /\ p \in [1 .. n -> F]
      /\ \A x \in F : \E k \in 1 .. n : p[k] = x
      /\ \A j, k \in 1 .. n : p[j] = p[k] => j = k
  BY <1>5, <1>6, <1>7, AscendingFacts
<1>9. /\ m \in Nat /\ q \in [1 .. m -> T]
      /\ \A x \in T : \E k \in 1 .. m : q[k] = x
      /\ \A j, k \in 1 .. m : q[j] = q[k] => j = k
  BY <1>5, <1>6, <1>7, AscendingFacts
<1>10. PICK ids : ids = p \o q
  OBVIOUS
<1>11. /\ p \in Seq(Nat) /\ q \in Seq(Nat) /\ Len(p) = n /\ Len(q) = m
  <2>1. ASSUME NEW j \in Nat, NEW S \in SUBSET Nat, NEW f \in [1 .. j -> S]
        PROVE  f \in Seq(Nat) /\ Len(f) = j
    <3>1. f \in [1 .. j -> Nat]
      BY <2>1
    <3> QED
      BY <3>1
  <2> QED
    BY <1>5, <1>8, <1>9, <2>1
<1>12. /\ ids \in Seq(Nat) /\ DOMAIN ids = 1 .. n + m
       /\ \A k \in 1 .. n + m : ids[k] = IF k <= n THEN p[k] ELSE q[k - n]
  <2>1. n \in Nat /\ m \in Nat
    BY <1>8, <1>9
  <2>2. ids \in Seq(Nat) /\ Len(ids) = n + m
    BY <1>10, <1>11, ConcatProperties
  <2>3. DOMAIN ids = 1 .. n + m
    BY <2>1, <2>2
  <2> QED
    BY <2>1, <2>2, <2>3, <1>10, <1>11, ConcatProperties
<1>13. \A k \in 1 .. n + m : ids[k] \in TD!ItemsOf(r)
  <2> SUFFICES ASSUME NEW k \in 1 .. n + m PROVE ids[k] \in TD!ItemsOf(r)
    OBVIOUS
  <2>1. CASE k <= n
    <3>1. k \in 1 .. n /\ ids[k] = p[k]
      BY <2>1, <1>8, <1>9, <1>12
    <3> QED
      BY <3>1, <1>3, <1>8
  <2>2. CASE ~(k <= n)
    <3>1. k - n \in 1 .. m /\ ids[k] = q[k - n]
      BY <2>2, <1>8, <1>9, <1>12
    <3> QED
      BY <3>1, <1>3, <1>9
  <2> QED
    BY <2>1, <2>2
<1>14. \A i \in TD!ItemsOf(r) : \E k \in 1 .. n + m : ids[k] = i
  <2> SUFFICES ASSUME NEW i \in TD!ItemsOf(r) PROVE \E k \in 1 .. n + m : ids[k] = i
    OBVIOUS
  <2>1. CASE i \in F
    <3>1. PICK k \in 1 .. n : p[k] = i
      BY <2>1, <1>8
    <3>2. k \in 1 .. n + m /\ k <= n
      BY <1>8, <1>9
    <3> QED
      BY <3>1, <3>2, <1>12
  <2>2. CASE i \in T
    <3>1. PICK k \in 1 .. m : q[k] = i
      BY <2>2, <1>9
    <3>2. n + k \in 1 .. n + m /\ ~(n + k <= n) /\ (n + k) - n = k
      BY <1>8, <1>9
    <3> QED
      BY <3>1, <3>2, <1>12
  <2> QED
    BY <1>3, <2>1, <2>2
<1>15. \A j, k \in 1 .. n + m : ids[j] = ids[k] => j = k
  <2> SUFFICES ASSUME NEW j \in 1 .. n + m, NEW k \in 1 .. n + m, ids[j] = ids[k]
               PROVE  j = k
    OBVIOUS
  <2>1. \A h \in 1 .. n + m : \/ h \in 1 .. n /\ h <= n /\ ids[h] = p[h] /\ ids[h] \in F
                              \/ h - n \in 1 .. m /\ ids[h] = q[h - n] /\ ids[h] \in T
    <3> SUFFICES ASSUME NEW h \in 1 .. n + m
                 PROVE  \/ h \in 1 .. n /\ h <= n /\ ids[h] = p[h] /\ ids[h] \in F
                        \/ h - n \in 1 .. m /\ ids[h] = q[h - n] /\ ids[h] \in T
      OBVIOUS
    <3>1. CASE h <= n
      <4>1. h \in 1 .. n /\ ids[h] = p[h]
        BY <3>1, <1>8, <1>9, <1>12
      <4> QED
        BY <3>1, <4>1, <1>8
    <3>2. CASE ~(h <= n)
      <4>1. h - n \in 1 .. m /\ ids[h] = q[h - n]
        BY <3>2, <1>8, <1>9, <1>12
      <4> QED
        BY <4>1, <1>9
    <3> QED
      BY <3>1, <3>2
  <2>2. CASE ids[j] \in F
    <3>1. j \in 1 .. n /\ ids[j] = p[j] /\ k \in 1 .. n /\ ids[k] = p[k]
      BY <2>1, <2>2, <1>3
    <3> QED
      BY <3>1, <1>8
  <2>3. CASE ids[j] \in T
    <3>1. j - n \in 1 .. m /\ ids[j] = q[j - n] /\ k - n \in 1 .. m /\ ids[k] = q[k - n]
      BY <2>1, <2>3, <1>3
    <3>2. j - n = k - n
      BY <3>1, <1>9
    <3> QED
      BY <3>2, <1>8, <1>9
  <2> QED
    BY <2>1, <2>2, <2>3
<1>16. PICK l : l = TD!get_items(r)
  OBVIOUS
<1>17. l = [k \in 1 .. n + m |-> TD!Row(items, ids[k])]
  BY <1>1, <1>6, <1>10, <1>12, <1>16, Zenon DEF TD!get_items
<1>18. \A k \in 1 .. n + m : l[k] \in Shown /\ l[k].id = ids[k] /\ l[k] = TD!Row(items, ids[k])
  <2> SUFFICES ASSUME NEW k \in 1 .. n + m
               PROVE  l[k] \in Shown /\ l[k].id = ids[k] /\ l[k] = TD!Row(items, ids[k])
    OBVIOUS
  <2>1. ids[k] \in Nat /\ items[ids[k]] \in Item
    BY <1>2, <1>13
  <2> QED
    BY <1>17, <2>1, RowsAreShown
<1>19. l \in Seq(Shown) /\ DOMAIN l = 1 .. n + m
  <2>1. n + m \in Nat
    BY <1>8, <1>9
  <2>2. ASSUME NEW j \in Nat, NEW f, f = [k \in 1 .. j |-> TD!Row(items, ids[k])],
               \A k \in 1 .. j : f[k] \in Shown
        PROVE  f \in Seq(Shown) /\ DOMAIN f = 1 .. j
    <3>1. f \in [1 .. j -> Shown]
      BY <2>2
    <3> QED
      BY <3>1
  <2> QED
    BY <1>17, <1>18, <2>1, <2>2
<1>20. ASSUME NEW i \in Nat, i \in TD!ItemsOf(r)
       PROVE  \E k : TD!Copies(l, i) = {k} /\ l[k] = TD!Row(items, i)
  <2>1. PICK k \in 1 .. n + m : ids[k] = i
    BY <1>14, <1>20
  <2>2. TD!Copies(l, i) = {k}
    BY <1>15, <1>18, <1>19, <2>1 DEF TD!Copies
  <2> QED
    BY <1>18, <2>1, <2>2
<1>21. ASSUME NEW i \in Nat, i \notin TD!ItemsOf(r) PROVE TD!Copies(l, i) = {}
  BY <1>13, <1>18, <1>19, <1>21 DEF TD!Copies
<1> QED
  BY <1>16, <1>19, <1>20, <1>21

\* The copies of i in l2 are those of l.
Like(l, l2, i) ==
    /\ \A k \in TD!Copies(l2, i) : \E j \in TD!Copies(l, i) : l2[k] = l[j]
    /\ TD!Copies(l2, i) = {} <=> TD!Copies(l, i) = {}
    /\ (\A j, k \in TD!Copies(l, i) : j = k) => \A j, k \in TD!Copies(l2, i) : j = k

\* A broadcast changes the copies of its item, and no others.
LEMMA AppliedFacts ==
    ASSUME NEW l \in Seq(Shown), NEW e \in Told, e.room = currentRoom,
           NEW l2, l2 = TD!Applied(l, e)
    PROVE  /\ l2 \in Seq(Shown)
           /\ \A i \in Nat : i # e.row.id => Like(l, l2, i)
           /\ e.kind = "todo_added" =>
                 /\ TD!Copies(l2, e.row.id) = TD!Copies(l, e.row.id) \cup {Len(l) + 1}
                 /\ l2[Len(l) + 1] = e.row
           /\ e.kind = "todo_updated" =>
                 /\ TD!Copies(l2, e.row.id) = TD!Copies(l, e.row.id)
                 /\ \A k \in TD!Copies(l2, e.row.id) : l2[k] = e.row
           /\ e.kind = "todo_deleted" => TD!Copies(l2, e.row.id) = {}
<1>1. e.row \in Shown /\ e.kind \in {"todo_added", "todo_updated", "todo_deleted"}
  BY DEF Told
<1>2. /\ DOMAIN l = 1 .. Len(l) /\ Len(l) \in Nat /\ \A k \in DOMAIN l : l[k] \in Shown
  OBVIOUS
<1>3. CASE e.kind = "todo_added"
  <2>1. l2 = Append(l, e.row)
    BY <1>3 DEF TD!Applied
  <2>2. /\ l2 \in Seq(Shown) /\ DOMAIN l2 = DOMAIN l \cup {Len(l) + 1}
        /\ \A k \in DOMAIN l : l2[k] = l[k]
        /\ l2[Len(l) + 1] = e.row
    BY <1>1, <1>2, <2>1
  <2>3. ASSUME NEW i \in Nat, i # e.row.id PROVE Like(l, l2, i)
    <3>1. TD!Copies(l2, i) = TD!Copies(l, i)
      BY <2>2, <2>3 DEF TD!Copies
    <3>2. \A k \in TD!Copies(l, i) : l2[k] = l[k]
      BY <2>2 DEF TD!Copies
    <3> QED
      BY <3>1, <3>2 DEF Like
  <2>4. TD!Copies(l2, e.row.id) = TD!Copies(l, e.row.id) \cup {Len(l) + 1}
    BY <2>2 DEF TD!Copies
  <2> QED
    BY <1>3, <2>2, <2>3, <2>4
<1>4. CASE e.kind = "todo_updated"
  <2>1. l2 = [k \in DOMAIN l |-> IF l[k].id = e.row.id THEN e.row ELSE l[k]]
    BY <1>4 DEF TD!Applied
  <2>2. /\ DOMAIN l2 = DOMAIN l
        /\ \A k \in DOMAIN l : l2[k] = IF l[k].id = e.row.id THEN e.row ELSE l[k]
    BY <2>1
  <2>3. l2 \in Seq(Shown)
    BY <1>1, <1>2, <2>1
  <2>4. ASSUME NEW i \in Nat, i # e.row.id PROVE Like(l, l2, i)
    <3>1. TD!Copies(l2, i) = TD!Copies(l, i)
      BY <2>2, <2>4 DEF TD!Copies
    <3>2. \A k \in TD!Copies(l, i) : l2[k] = l[k]
      BY <2>2, <2>4 DEF TD!Copies
    <3> QED
      BY <3>1, <3>2 DEF Like
  <2>5. /\ TD!Copies(l2, e.row.id) = TD!Copies(l, e.row.id)
        /\ \A k \in TD!Copies(l2, e.row.id) : l2[k] = e.row
    BY <2>2 DEF TD!Copies
  <2> QED
    BY <1>4, <2>3, <2>4, <2>5
<1>5. CASE e.kind = "todo_deleted"
  <2>1. PICK S : S = {k \in DOMAIN l : l[k].id # e.row.id}
    OBVIOUS
  <2>2. PICK s : s = TD!Ascending(S)
    OBVIOUS
  <2>3. PICK n : n = Cardinality(S)
    OBVIOUS
  <2>4. S \in SUBSET Nat /\ IsFiniteSet(S)
    <3>1. IsFiniteSet(DOMAIN l) /\ S \subseteq DOMAIN l
      BY <1>2, <2>1, FS_Interval
    <3> QED
      BY <1>2, <3>1, FS_Subset
  <2>5. /\ n \in Nat /\ s \in [1 .. n -> S]
        /\ \A x \in S : \E k \in 1 .. n : s[k] = x
        /\ \A j, k \in 1 .. n : s[j] = s[k] => j = k
    BY <2>2, <2>3, <2>4, AscendingFacts
  <2>6. l2 = [k \in 1 .. n |-> l[s[k]]]
    <3>1. l2 = [k \in DOMAIN s |-> l[s[k]]]
      BY <1>5, <2>1, <2>2 DEF TD!Applied
    <3> QED
      BY <3>1, <2>5
  <2>7. \A k \in 1 .. n : l2[k] = l[s[k]] /\ s[k] \in DOMAIN l /\ l[s[k]].id # e.row.id
    BY <2>1, <2>5, <2>6
  <2>8. l2 \in Seq(Shown) /\ DOMAIN l2 = 1 .. n
    BY <1>2, <2>5, <2>6, <2>7
  <2>9. TD!Copies(l2, e.row.id) = {}
    BY <2>7, <2>8 DEF TD!Copies
  <2>10. ASSUME NEW i \in Nat, i # e.row.id PROVE Like(l, l2, i)
    <3>1. \A k \in TD!Copies(l2, i) :
             k \in 1 .. n /\ s[k] \in TD!Copies(l, i) /\ l2[k] = l[s[k]]
      BY <2>7, <2>8 DEF TD!Copies
    <3>2. \A j \in TD!Copies(l, i) : \E k \in TD!Copies(l2, i) : s[k] = j
      <4> SUFFICES ASSUME NEW j \in TD!Copies(l, i)
                   PROVE  \E k \in TD!Copies(l2, i) : s[k] = j
        OBVIOUS
      <4>1. j \in S /\ l[j].id = i
        BY <2>1, <2>10 DEF TD!Copies
      <4>2. PICK k \in 1 .. n : s[k] = j
        BY <4>1, <2>5
      <4> QED
        BY <4>1, <4>2, <2>7, <2>8 DEF TD!Copies
    <3> QED
      BY <3>1, <3>2, <2>5 DEF Like
  <2> QED
    BY <1>5, <2>8, <2>9, <2>10
<1> QED
  BY <1>1, <1>3, <1>4, <1>5

\* The first broadcast comes to the page: what is left of those about an item.
LEMMA AboutTail ==
    ASSUME down \in Seq(Told), down # <<>>, down' = Tail(down), NEW r, NEW i
    PROVE  /\ \A k \in TD!About(r, i)' : /\ k + 1 \in TD!About(r, i) /\ k \in Nat
                                         /\ down'[k] = down[k + 1]
           /\ \A k \in TD!About(r, i) : k \in Nat /\ (k = 1 \/ k - 1 \in TD!About(r, i)')
           /\ 0 \notin TD!About(r, i)'
<1>1. /\ DOMAIN down = 1 .. Len(down) /\ Len(down) \in Nat /\ Len(down) >= 1
      /\ DOMAIN down' = 1 .. Len(down) - 1
      /\ \A k \in 1 .. Len(down) - 1 : down'[k] = down[k + 1]
  OBVIOUS
<1>2. \A k \in 1 .. Len(down) : k \in Nat /\ (k = 1 \/ k - 1 \in 1 .. Len(down) - 1)
  BY <1>1
<1>3. \A k \in 1 .. Len(down) - 1 : k \in Nat /\ k + 1 \in 1 .. Len(down)
  BY <1>1
<1>4. ASSUME NEW k \in TD!About(r, i)'
      PROVE k + 1 \in TD!About(r, i) /\ k \in Nat /\ down'[k] = down[k + 1]
  <2>1. k \in 1 .. Len(down) - 1 /\ down'[k].room = r /\ down'[k].row.id = i
    BY <1>1, <1>4 DEF TD!About
  <2> QED
    BY <1>1, <1>3, <2>1 DEF TD!About
<1>5. ASSUME NEW k \in TD!About(r, i) PROVE k \in Nat /\ (k = 1 \/ k - 1 \in TD!About(r, i)')
  <2>1. k \in 1 .. Len(down) /\ down[k].room = r /\ down[k].row.id = i
    BY <1>1, <1>5 DEF TD!About
  <2>2. ASSUME k # 1 PROVE k - 1 \in TD!About(r, i)'
    <3>1. k - 1 \in 1 .. Len(down) - 1 /\ (k - 1) + 1 = k
      BY <1>1, <1>2, <2>1, <2>2
    <3> QED
      BY <1>1, <2>1, <3>1 DEF TD!About
  <2> QED
    BY <1>2, <2>1, <2>2
<1>6. 0 \notin TD!About(r, i)'
  BY <1>1 DEF TD!About
<1> QED
  BY <1>4, <1>5, <1>6

\* The last word about an item stays the last.
LEMMA LastTail ==
    ASSUME down \in Seq(Told), down # <<>>, down' = Tail(down), NEW r, NEW i
    PROVE  /\ \A k \in TD!LastAbout(r, i)' : /\ k + 1 \in TD!LastAbout(r, i)
                                             /\ down'[k] = down[k + 1]
           /\ \A k \in TD!LastAbout(r, i) : k = 1 \/ (/\ k - 1 \in TD!LastAbout(r, i)'
                                                      /\ down'[k - 1] = down[k])
           /\ TD!About(r, i)' = {} /\ 1 \in TD!About(r, i) => TD!LastAbout(r, i) = {1}
           /\ 1 \in TD!LastAbout(r, i) => TD!About(r, i)' = {}
<1>1. /\ \A k \in TD!About(r, i)' : /\ k + 1 \in TD!About(r, i) /\ k \in Nat
                                    /\ down'[k] = down[k + 1]
      /\ \A k \in TD!About(r, i) : k \in Nat /\ (k = 1 \/ k - 1 \in TD!About(r, i)')
      /\ 0 \notin TD!About(r, i)'
  BY AboutTail
<1>2. TD!LastAbout(r, i) = {k \in TD!About(r, i) : \A j \in TD!About(r, i) : j <= k}
  BY DEF TD!LastAbout
<1>3. TD!LastAbout(r, i)' = {k \in TD!About(r, i)' : \A j \in TD!About(r, i)' : j <= k}
  BY DEF TD!LastAbout
<1>4. ASSUME NEW k \in TD!LastAbout(r, i)'
      PROVE  k + 1 \in TD!LastAbout(r, i) /\ down'[k] = down[k + 1]
  <2>1. /\ k \in TD!About(r, i)' /\ \A j \in TD!About(r, i)' : j <= k
        /\ k + 1 \in TD!About(r, i) /\ k \in Nat /\ down'[k] = down[k + 1]
    BY <1>1, <1>3, <1>4
  <2>2. ASSUME NEW j \in TD!About(r, i) PROVE j <= k + 1
    <3>1. j \in Nat /\ (j = 1 \/ j - 1 <= k)
      BY <1>1, <2>1, <2>2
    <3> QED
      BY <2>1, <3>1
  <2> QED
    BY <1>2, <2>1, <2>2
<1>5. ASSUME NEW k \in TD!LastAbout(r, i), k # 1
      PROVE  k - 1 \in TD!LastAbout(r, i)' /\ down'[k - 1] = down[k]
  <2>1. /\ k \in TD!About(r, i) /\ k \in Nat /\ \A j \in TD!About(r, i) : j <= k
        /\ k - 1 \in TD!About(r, i)'
    BY <1>1, <1>2, <1>5
  <2>2. k - 1 \in Nat /\ (k - 1) + 1 = k
    BY <1>1, <2>1
  <2>3. ASSUME NEW j \in TD!About(r, i)' PROVE j <= k - 1
    <3>1. j \in Nat /\ j + 1 <= k
      BY <1>1, <2>1, <2>3
    <3> QED
      BY <2>1, <3>1
  <2>4. down'[k - 1] = down[k]
    BY <1>1, <2>1, <2>2
  <2> QED
    BY <1>3, <2>1, <2>3, <2>4
<1>6. ASSUME TD!About(r, i)' = {}, 1 \in TD!About(r, i) PROVE TD!LastAbout(r, i) = {1}
  <2>1. TD!About(r, i) = {1}
    BY <1>1, <1>6
  <2> QED
    BY <1>2, <2>1
<1>7. ASSUME 1 \in TD!LastAbout(r, i), NEW k \in TD!About(r, i)' PROVE FALSE
  <2>1. k + 1 <= 1 /\ k \in Nat /\ k # 0
    BY <1>1, <1>2, <1>7
  <2> QED
    BY <2>1
<1> QED
  BY <1>4, <1>5, <1>6, <1>7

\* A broadcast that is not about item i of the list l2, which is like l in i.
LEMMA TurnsPast ==
    ASSUME ListTypes, down # <<>>, down' = Tail(down), UNCHANGED items,
           NEW l, NEW l2, NEW r, NEW i, Like(l, l2, i), TurnsAt(l, r, i),
           ~(down[1].room = r /\ down[1].row.id = i)
    PROVE  TurnsAt(l2, r, i)'
<1>t. down \in Seq(Told)
  BY DEF ListTypes
<1>1. /\ \A k \in TD!About(r, i)' : /\ k + 1 \in TD!About(r, i) /\ k \in Nat
                                    /\ down'[k] = down[k + 1]
      /\ \A k \in TD!About(r, i) : k \in Nat /\ k # 1 /\ k - 1 \in TD!About(r, i)'
  <2>1. /\ \A k \in TD!About(r, i)' : /\ k + 1 \in TD!About(r, i) /\ k \in Nat
                                      /\ down'[k] = down[k + 1]
        /\ \A k \in TD!About(r, i) : k \in Nat /\ (k = 1 \/ k - 1 \in TD!About(r, i)')
    BY <1>t, AboutTail
  <2>2. 1 \notin TD!About(r, i)
    BY DEF TD!About
  <2> QED
    BY <2>1, <2>2
<1>2. /\ \A k \in TD!LastAbout(r, i)' : k + 1 \in TD!LastAbout(r, i) /\ down'[k] = down[k + 1]
      /\ \A k \in TD!LastAbout(r, i) : k = 1 \/ (/\ k - 1 \in TD!LastAbout(r, i)'
                                                 /\ down'[k - 1] = down[k])
      /\ TD!LastAbout(r, i) \subseteq TD!About(r, i)
  BY <1>t, LastTail DEF TD!LastAbout
<1>3. TD!About(r, i)' = {} <=> TD!About(r, i) = {}
  BY <1>1
<1>4. TD!Copies(l2, i)' = TD!Copies(l2, i) /\ TD!Copies(l, i)' = TD!Copies(l, i)
  BY DEF TD!Copies
<1>5. TD!Row(items, i)' = TD!Row(items, i) /\ TD!ItemsOf(r)' = TD!ItemsOf(r)
  BY DEF TD!Row, TD!ItemsOf
<1>6. ASSUME TD!Shows(l, r, i) PROVE TD!Shows(l2, r, i)'
  <2>1. \A j, k \in TD!Copies(l2, i) : j = k
    BY <1>6 DEF TD!Shows, Like
  <2>2. /\ \A k \in TD!Additions(r, i)' : k \in Nat /\ k + 1 \in TD!Additions(r, i)
        /\ \A k \in TD!Additions(r, i) : k \in Nat /\ k - 1 \in TD!Additions(r, i)'
    <3>1. ASSUME NEW k \in TD!Additions(r, i)' PROVE k \in Nat /\ k + 1 \in TD!Additions(r, i)
      BY <1>1, <3>1 DEF TD!Additions
    <3>2. ASSUME NEW k \in TD!Additions(r, i) PROVE k \in Nat /\ k - 1 \in TD!Additions(r, i)'
      <4>1. k \in Nat /\ k - 1 \in TD!About(r, i)' /\ down[k].kind = "todo_added"
        BY <1>1, <3>2 DEF TD!Additions
      <4>2. (k - 1) + 1 = k
        BY <4>1
      <4>3. down'[k - 1] = down[k]
        BY <1>1, <4>1, <4>2
      <4> QED
        BY <4>1, <4>3 DEF TD!Additions
    <3> QED
      BY <3>1, <3>2
  <2>3. \A j, k \in TD!Additions(r, i)' : j = k
    <3> SUFFICES ASSUME NEW j \in TD!Additions(r, i)', NEW k \in TD!Additions(r, i)'
                 PROVE  j = k
      OBVIOUS
    <3>1. j \in Nat /\ k \in Nat /\ j + 1 = k + 1
      BY <1>6, <2>2 DEF TD!Shows
    <3> QED
      BY <3>1
  <2>4. TD!Copies(l2, i) = {} <=> TD!Additions(r, i)' # {}
    <3>1. TD!Additions(r, i)' = {} <=> TD!Additions(r, i) = {}
      BY <2>2
    <3> QED
      BY <1>6, <3>1 DEF TD!Shows, Like
  <2>s. /\ \A k \in TD!About(r, i) : down[k].kind # "todo_deleted"
        /\ \A k \in TD!LastAbout(r, i) : down[k].row = TD!Row(items, i)
    BY <1>6 DEF TD!Shows
  <2>5. \A k \in TD!About(r, i)' : down'[k].kind # "todo_deleted"
    BY <1>1, <2>s
  <2>6. \A k \in TD!LastAbout(r, i)' : down'[k].row = TD!Row(items, i)
    BY <1>2, <2>s
  <2>7. TD!About(r, i)' = {} => \A k \in TD!Copies(l2, i) : l2[k] = TD!Row(items, i)
    BY <1>3, <1>6 DEF TD!Shows, Like
  <2> QED
    BY <2>1, <2>3, <2>4, <2>5, <2>6, <2>7, <1>4, <1>5 DEF TD!Shows
<1>7. ASSUME TD!Hides(l, r, i) PROVE TD!Hides(l2, r, i)'
  <2>1. CASE TD!Copies(l, i) = {} /\ TD!About(r, i) = {}
    BY <2>1, <1>3, <1>4 DEF TD!Hides, Like
  <2>2. ASSUME NEW k \in TD!LastAbout(r, i), down[k].kind = "todo_deleted"
        PROVE  TD!Hides(l2, r, i)'
    <3>1. k - 1 \in TD!LastAbout(r, i)' /\ down'[k - 1].kind = "todo_deleted"
      BY <1>1, <1>2, <2>2
    <3> QED
      BY <3>1 DEF TD!Hides
  <2> QED
    BY <1>7, <2>1, <2>2 DEF TD!Hides
<1>8. ASSUME i \notin DOMAIN items PROVE TD!Copies(l2, i)' = {} /\ TD!About(r, i)' = {}
  BY <1>3, <1>4, <1>8 DEF TurnsAt, Like
<1> QED
  BY <1>5, <1>6, <1>7, <1>8 DEF TurnsAt

\* A broadcast about item i, which the list l2 is l after.
LEMMA TurnsWith ==
    ASSUME ListTypes, down # <<>>, down' = Tail(down), UNCHANGED items,
           NEW l \in Seq(Shown), NEW l2, NEW r, NEW i, TurnsAt(l, r, i),
           NEW e, e = down[1], e.room = r, e.row.id = i,
           e.kind = "todo_added" =>
                 /\ TD!Copies(l2, i) = TD!Copies(l, i) \cup {Len(l) + 1}
                 /\ l2[Len(l) + 1] = e.row,
           e.kind = "todo_updated" =>
                 /\ TD!Copies(l2, i) = TD!Copies(l, i)
                 /\ \A k \in TD!Copies(l2, i) : l2[k] = e.row,
           e.kind = "todo_deleted" => TD!Copies(l2, i) = {}
    PROVE  TurnsAt(l2, r, i)'
<1>t. down \in Seq(Told) /\ e = down[1] /\ e \in Told
  BY DEF ListTypes
<1>1. /\ \A k \in TD!About(r, i)' : /\ k + 1 \in TD!About(r, i) /\ k \in Nat
                                    /\ down'[k] = down[k + 1]
      /\ \A k \in TD!About(r, i) : k \in Nat /\ (k = 1 \/ k - 1 \in TD!About(r, i)')
      /\ 1 \in TD!About(r, i)
      /\ 0 \notin TD!About(r, i)'
  <2>1. /\ \A k \in TD!About(r, i)' : /\ k + 1 \in TD!About(r, i) /\ k \in Nat
                                      /\ down'[k] = down[k + 1]
        /\ \A k \in TD!About(r, i) : k \in Nat /\ (k = 1 \/ k - 1 \in TD!About(r, i)')
        /\ 0 \notin TD!About(r, i)'
    BY <1>t, AboutTail
  <2>2. 1 \in TD!About(r, i)
    BY <1>t DEF TD!About
  <2> QED
    BY <2>1, <2>2
<1>2. /\ \A k \in TD!LastAbout(r, i)' : k + 1 \in TD!LastAbout(r, i) /\ down'[k] = down[k + 1]
      /\ \A k \in TD!LastAbout(r, i) : k = 1 \/ (/\ k - 1 \in TD!LastAbout(r, i)'
                                                 /\ down'[k - 1] = down[k])
      /\ TD!About(r, i)' = {} => TD!LastAbout(r, i) = {1}
      /\ 1 \in TD!LastAbout(r, i) => TD!About(r, i)' = {}
  BY <1>t, <1>1, LastTail
<1>3. i \in DOMAIN items
  BY <1>1 DEF TurnsAt
<1>4. TD!Copies(l2, i)' = TD!Copies(l2, i)
  BY DEF TD!Copies
<1>5. TD!Row(items, i)' = TD!Row(items, i) /\ TD!ItemsOf(r)' = TD!ItemsOf(r)
  BY DEF TD!Row, TD!ItemsOf
<1>6. ASSUME TD!Shows(l, r, i) PROVE TD!Shows(l2, r, i)'
  <2>1. e.kind = "todo_added" \/ e.kind = "todo_updated"
    BY <1>1, <1>6, <1>t DEF TD!Shows, Told
  <2>2. /\ \A k \in TD!Additions(r, i)' : k \in Nat /\ k # 0 /\ k + 1 \in TD!Additions(r, i)
        /\ \A k \in TD!Additions(r, i) :
              k \in Nat /\ (k = 1 \/ k - 1 \in TD!Additions(r, i)')
        /\ 1 \in TD!Additions(r, i) <=> e.kind = "todo_added"
    <3>1. ASSUME NEW k \in TD!Additions(r, i)'
          PROVE  k \in Nat /\ k # 0 /\ k + 1 \in TD!Additions(r, i)
      BY <1>1, <3>1 DEF TD!Additions
    <3>2. ASSUME NEW k \in TD!Additions(r, i), k # 1 PROVE k - 1 \in TD!Additions(r, i)'
      <4>1. k \in Nat /\ k - 1 \in TD!About(r, i)' /\ down[k].kind = "todo_added"
        BY <1>1, <3>2 DEF TD!Additions
      <4>2. (k - 1) + 1 = k
        BY <4>1
      <4>3. down'[k - 1] = down[k]
        BY <1>1, <4>1, <4>2
      <4> QED
        BY <4>1, <4>3 DEF TD!Additions
    <3>3. 1 \in TD!Additions(r, i) <=> e.kind = "todo_added"
      BY <1>1, <1>t DEF TD!Additions
    <3>4. \A k \in TD!Additions(r, i) : k \in Nat
      BY <1>1 DEF TD!Additions
    <3> QED
      BY <3>1, <3>2, <3>3, <3>4
  <2>3. \A j, k \in TD!Additions(r, i)' : j = k
    <3> SUFFICES ASSUME NEW j \in TD!Additions(r, i)', NEW k \in TD!Additions(r, i)'
                 PROVE  j = k
      OBVIOUS
    <3>1. j \in Nat /\ k \in Nat /\ j + 1 = k + 1
      BY <1>6, <2>2 DEF TD!Shows
    <3> QED
      BY <3>1
  <2>s. /\ \A k \in TD!About(r, i) : down[k].kind # "todo_deleted"
        /\ \A k \in TD!LastAbout(r, i) : down[k].row = TD!Row(items, i)
    BY <1>6 DEF TD!Shows
  <2>4. \A k \in TD!About(r, i)' : down'[k].kind # "todo_deleted"
    BY <1>1, <2>s
  <2>5. \A k \in TD!LastAbout(r, i)' : down'[k].row = TD!Row(items, i)
    <3> SUFFICES ASSUME NEW k \in TD!LastAbout(r, i)'
                 PROVE  down'[k].row = TD!Row(items, i)
      OBVIOUS
    <3>1. k + 1 \in TD!LastAbout(r, i) /\ down'[k] = down[k + 1]
      BY <1>2
    <3> QED
      BY <2>s, <3>1
  <2>6. TD!About(r, i)' = {} => e.row = TD!Row(items, i)
    BY <1>2, <1>6, <1>t DEF TD!Shows
  <2>7. CASE e.kind = "todo_added"
    <3>1. TD!Additions(r, i) = {1} /\ TD!Copies(l, i) = {}
      BY <1>6, <2>2, <2>7 DEF TD!Shows
    <3>2. TD!Additions(r, i)' = {}
      <4> SUFFICES ASSUME NEW k \in TD!Additions(r, i)' PROVE FALSE
        OBVIOUS
      <4>1. k \in Nat /\ k # 0 /\ k + 1 = 1
        BY <2>2, <3>1
      <4> QED
        BY <4>1
    <3>3. TD!Copies(l2, i) = {Len(l) + 1} /\ l2[Len(l) + 1] = e.row
      BY <2>7, <3>1
    <3> QED
      BY <2>3, <2>4, <2>5, <2>6, <3>2, <3>3, <1>4, <1>5 DEF TD!Shows
  <2>8. CASE e.kind = "todo_updated"
    <3>1. TD!Additions(r, i)' = {} <=> TD!Additions(r, i) = {}
      BY <2>2, <2>8
    <3>2. TD!Copies(l2, i) = TD!Copies(l, i) /\ \A k \in TD!Copies(l2, i) : l2[k] = e.row
      BY <2>8
    <3>3. /\ \A j, k \in TD!Copies(l2, i) : j = k
          /\ TD!Copies(l2, i) = {} <=> TD!Additions(r, i)' # {}
      BY <1>6, <3>1, <3>2 DEF TD!Shows
    <3>4. TD!About(r, i)' = {} => \A k \in TD!Copies(l2, i) : l2[k] = TD!Row(items, i)
      BY <2>6, <3>2
    <3> QED
      BY <2>3, <2>4, <2>5, <3>3, <3>4, <1>4, <1>5 DEF TD!Shows
  <2> QED
    BY <2>1, <2>7, <2>8
<1>7. ASSUME TD!Hides(l, r, i) PROVE TD!Hides(l2, r, i)'
  <2>1. PICK k \in TD!LastAbout(r, i) : down[k].kind = "todo_deleted"
    BY <1>1, <1>7 DEF TD!Hides
  <2>2. CASE k = 1
    BY <2>1, <2>2, <1>2, <1>4, <1>t DEF TD!Hides
  <2>3. CASE k # 1
    <3>1. k - 1 \in TD!LastAbout(r, i)' /\ down'[k - 1].kind = "todo_deleted"
      BY <1>2, <2>1, <2>3
    <3> QED
      BY <3>1 DEF TD!Hides
  <2> QED
    BY <2>2, <2>3
<1> QED
  BY <1>3, <1>5, <1>6, <1>7 DEF TurnsAt

LEMMA TurnsStays ==
    ASSUME ListTypes, UNCHANGED <<items, down>>, NEW l, NEW r, Turns(l, r)
    PROVE  Turns(l, r)'
<1>1. /\ TD!ItemsOf(r)' = TD!ItemsOf(r) /\ \A i \in Nat : TD!About(r, i)' = TD!About(r, i)
      /\ \A i \in TD!ItemsOf(r) : TD!Row(items, i)' = TD!Row(items, i)
  BY DEF TD!ItemsOf, TD!About, TD!Row
<1> QED
  BY <1>1, TurnsElsewhere DEF ListTypes

\* A step that touches neither rows nor broadcasts, and lets no list follow that did not.
LEMMA ListsStay ==
    ASSUME ListInv, ListTypes', UNCHANGED <<items, down>>,
           \A l, r : Following(l, r)' => Following(l, r)
    PROVE  ListInv'
<1>1. ASSUME NEW l, NEW r, Following(l, r)' PROVE Turns(l, r)'
  <2>1. ListTypes /\ Turns(l, r)
    BY <1>1 DEF ListInv
  <2> QED
    BY <2>1, TurnsStays
<1> QED
  BY <1>1 DEF ListInv

\* The selections of a step that keeps calm those of p.
LEMMA CalmFacts ==
    ASSUME ListTypes, NEW p \in [DOMAIN selections -> BOOLEAN],
           selections' = [n \in DOMAIN selections |->
                             [selections[n] EXCEPT !.calm = @ /\ p[n]]]
    PROVE  /\ selections' \in Seq(Choice) /\ DOMAIN selections' = DOMAIN selections
           /\ \A n \in DOMAIN selections :
                 /\ selections'[n].room = selections[n].room
                 /\ selections'[n].rows = selections[n].rows
                 /\ selections'[n].calm => selections[n].calm /\ p[n]
<1> DEFINE s(n) == [selections[n] EXCEPT !.calm = @ /\ p[n]]
<1>1. ASSUME NEW x \in Choice, NEW b \in BOOLEAN
      PROVE  LET y == [x EXCEPT !.calm = @ /\ b]
             IN  /\ y \in Choice /\ y.room = x.room /\ y.rows = x.rows
                 /\ y.calm => x.calm /\ b
  BY DEF Choice
<1>2. /\ \A n \in DOMAIN selections : selections[n] \in Choice
      /\ DOMAIN selections = 1 .. Len(selections) /\ Len(selections) \in Nat
  BY DEF ListTypes
<1>3. \A n \in DOMAIN selections :
         /\ s(n) \in Choice /\ s(n).room = selections[n].room /\ s(n).rows = selections[n].rows
         /\ s(n).calm => selections[n].calm /\ p[n]
  BY <1>1, <1>2
<1>4. selections' = [n \in DOMAIN selections |-> s(n)]
  OBVIOUS
<1> HIDE DEF s
<1> QED
  BY <1>2, <1>3, <1>4

\* What is behind does not follow.
LEMMA BehindFacts ==
    ASSUME ListTypes, NEW q, TD!Behind(q), UNCHANGED <<list, currentRoom>>
    PROVE  /\ selections' \in Seq(Choice) /\ follows' \in BOOLEAN
           /\ \A l, r : Following(l, r)' => Following(l, r) /\ r # q
<1> DEFINE p == [n \in DOMAIN selections |-> selections[n].room # q]
<1>1. selections' = [n \in DOMAIN selections |-> [selections[n] EXCEPT !.calm = @ /\ p[n]]]
  BY DEF TD!Behind
<1>2. p \in [DOMAIN selections -> BOOLEAN]
  OBVIOUS
<1>3. \A n \in DOMAIN selections : p[n] <=> selections[n].room # q
  OBVIOUS
<1> HIDE DEF p
<1>4. /\ selections' \in Seq(Choice) /\ DOMAIN selections' = DOMAIN selections
      /\ \A n \in DOMAIN selections :
            /\ selections'[n].room = selections[n].room
            /\ selections'[n].rows = selections[n].rows
            /\ selections'[n].calm => selections[n].calm /\ p[n]
  BY <1>1, <1>2, CalmFacts
<1>5. (follows' <=> follows /\ currentRoom # q) /\ follows' \in BOOLEAN
  BY DEF TD!Behind
<1> QED
  BY <1>3, <1>4, <1>5 DEF Following

\* A change by either member and on either way.
LEMMA ListsChanged ==
    ASSUME ListInv, NEW u \in TD!Users, NEW m, m.room \in PageRooms, m.done \in BOOLEAN,
           NEW told \in BOOLEAN, TD!Change(u, m, told), up' \in Seq(Asked),
           UNCHANGED <<alive, currentRoom, list, drawn, editingItemId>>
    PROVE  ListInv'
<1>t. ListTypes
  BY DEF ListInv
<1>1. /\ items' \in Seq(Item) /\ down' \in Seq(Told) /\ changes' \in Nat
      /\ \A l, r : Turns(l, r) /\ (r = m.room => Heard(m, told)) => Turns(l, r)'
      /\ Heard(m, told) => UNCHANGED <<follows, selections>>
      /\ ~Heard(m, told) => TD!Behind(m.room)
  BY <1>t, ChangeFacts
<1>2. /\ selections' \in Seq(Choice) /\ follows' \in BOOLEAN
      /\ \A l, r : Following(l, r)' => Following(l, r) /\ (r = m.room => Heard(m, told))
  <2>1. CASE Heard(m, told)
    BY <1>t, <1>1, <2>1 DEF ListTypes, Following
  <2>2. CASE ~Heard(m, told)
    BY <1>t, <1>1, <2>2, BehindFacts
  <2> QED
    BY <2>1, <2>2
<1>3. ListTypes'
  BY <1>t, <1>1, <1>2 DEF ListTypes
<1>4. ASSUME NEW l, NEW r, Following(l, r)' PROVE Turns(l, r)'
  BY <1>1, <1>2, <1>4 DEF ListInv
<1> QED
  BY <1>3, <1>4 DEF ListInv

LEMMA ServeFrameStep == ASSUME ListInv, TD!ServeFrame PROVE ListInv'
<1>t. ListTypes
  BY DEF ListInv
<1>1. PICK m : m = Head(up)
  OBVIOUS
<1>2. /\ m \in Asked /\ up' \in Seq(Asked) /\ m.done \in BOOLEAN
      /\ UNCHANGED <<alive, currentRoom, list, drawn, editingItemId>>
  <2>1. /\ up \in Seq(Asked) /\ up # <<>> /\ up' = Tail(up)
        /\ UNCHANGED <<alive, currentRoom, list, drawn, editingItemId>>
    BY <1>t DEF TD!ServeFrame, TD!page, ListTypes
  <2>2. m \in Asked /\ up' \in Seq(Asked)
    BY <1>1, <2>1
  <2>3. m.done \in BOOLEAN
    BY <2>2 DEF Asked
  <2> QED
    BY <2>1, <2>2, <2>3
<1>3. \/ UNCHANGED <<items, down, follows, selections, changes>>
      \/ m.room \in alive /\ TD!Change(PageUser, m, TRUE)
  BY <1>1 DEF TD!ServeFrame
<1>4. CASE UNCHANGED <<items, down, follows, selections, changes>>
  <2>1. ListTypes'
    BY <1>t, <1>2, <1>4 DEF ListTypes
  <2>2. \A l, r : Following(l, r)' => Following(l, r)
    BY <1>2, <1>4 DEF Following
  <2> QED
    BY <1>4, <2>1, <2>2, ListsStay
<1>5. CASE m.room \in alive /\ TD!Change(PageUser, m, TRUE)
  <2>1. m.room \in PageRooms /\ PageUser \in TD!Users
    BY <1>t, <1>5 DEF ListTypes, TD!Users
  <2> QED
    BY <1>2, <1>5, <2>1, ListsChanged
<1> QED
  BY <1>3, <1>4, <1>5

LEMMA WriterStep ==
    ASSUME ListInv, TD!WriterActs \/ \E r \in PageRooms : TD!HandleRequest(r)
    PROVE  ListInv'
<1>t. ListTypes
  BY DEF ListInv
<1>1. PICK m \in TD!Messages, told \in BOOLEAN : TD!Change(OtherUser, m, told)
  BY DEF TD!WriterActs, TD!HandleRequest
<1>2. m.room \in PageRooms /\ m.done \in BOOLEAN /\ OtherUser \in TD!Users
  BY DEF TD!Messages, TD!Users
<1>3. /\ up' \in Seq(Asked)
      /\ UNCHANGED <<alive, currentRoom, list, drawn, editingItemId>>
  BY <1>t DEF TD!WriterActs, TD!HandleRequest, TD!page, ListTypes
<1> QED
  BY <1>1, <1>2, <1>3, ListsChanged

LEMMA DeleteListStep == ASSUME ListInv, NEW q \in PageRooms, TD!DeleteRoom(q) PROVE ListInv'
<1>t. ListTypes
  BY DEF ListInv
<1>1. /\ alive' = alive \ {q} /\ TD!Behind(q)
      /\ items' = [i \in DOMAIN items |-> [items[i] EXCEPT !.gone = @ \/ items[i].room = q]]
      /\ UNCHANGED <<up, down, currentRoom, list, drawn, editingItemId, changes>>
  BY DEF TD!DeleteRoom, TD!page
<1>2. /\ selections' \in Seq(Choice) /\ follows' \in BOOLEAN
      /\ \A l, r : Following(l, r)' => Following(l, r) /\ r # q
  BY <1>t, <1>1, BehindFacts
<1> DEFINE it(i) == [items[i] EXCEPT !.gone = @ \/ items[i].room = q]
<1>3. ASSUME NEW x \in Item
      PROVE  LET y == [x EXCEPT !.gone = @ \/ x.room = q]
             IN  y \in Item /\ y.room = x.room /\ (x.room # q => y = x)
  BY DEF Item
<1>4. /\ \A i \in DOMAIN items : items[i] \in Item
      /\ DOMAIN items = 1 .. Len(items) /\ Len(items) \in Nat
  BY <1>t DEF ListTypes
<1>5. \A i \in DOMAIN items :
         it(i) \in Item /\ it(i).room = items[i].room /\ (items[i].room # q => it(i) = items[i])
  BY <1>3, <1>4
<1>6. items' = [i \in DOMAIN items |-> it(i)]
  BY <1>1
<1> HIDE DEF it
<1>7. /\ items' \in Seq(Item) /\ DOMAIN items' = DOMAIN items
      /\ \A i \in DOMAIN items :
            items'[i] = items[i] \/ (items[i].room = q /\ items'[i].room = q)
  BY <1>4, <1>5, <1>6
<1>8. ListTypes'
  BY <1>t, <1>1, <1>2, <1>7 DEF ListTypes
<1>9. ASSUME NEW l, NEW r, Following(l, r)' PROVE Turns(l, r)'
  <2>1. Turns(l, r) /\ r # q
    BY <1>2, <1>9 DEF ListInv
  <2> QED
    BY <1>t, <1>1, <1>7, <2>1, TurnsBeside
<1> QED
  BY <1>8, <1>9 DEF ListInv

\* Steps of the page and of the wire that touch no list.
LEMMA AsideStep ==
    ASSUME ListInv,
           \/ TD!addItem \/ TD!Reconnect
           \/ \E r \in PageRooms : TD!Admit(r)
           \/ \E k \in DOMAIN drawn : TD!Click(k) \/ TD!Edit(k) \/ TD!save(k)
    PROVE  ListInv'
<1>t. ListTypes
  BY DEF ListInv
<1>1. UNCHANGED <<alive, items, down, currentRoom, list, selections, follows, changes>>
  BY DEF TD!addItem, TD!Reconnect, TD!Admit, TD!Click, TD!Edit, TD!save, TD!server, TD!page
<1>2. ASSUME NEW type \in {"join", "leave", "add", "edit", "toggle", "delete"}, NEW id \in Nat,
             NEW done \in BOOLEAN
      PROVE  TD!Frame(type, id, done) \in Asked
  BY <1>t, <1>2 DEF TD!Frame, Asked, ListTypes
<1>3. ASSUME NEW k \in DOMAIN drawn
      PROVE drawn[k].id \in Nat /\ drawn[k].done \in BOOLEAN
  <2>1. drawn[k] \in Shown
    BY <1>t DEF ListTypes
  <2> QED
    BY <2>1 DEF Shown
<1>4. up' \in Seq(Asked) /\ drawn' \in Seq(Shown) /\ editingItemId' \in Nat
  <2>t. up \in Seq(Asked) /\ drawn \in Seq(Shown) /\ editingItemId \in Nat /\ list \in Seq(Shown)
    BY <1>t DEF ListTypes
  <2>1. CASE TD!addItem
    <3>1. PICK f \in Asked : f = TD!Frame("add", 0, FALSE)
      BY <1>2
    <3>2. up' = Append(up, f) /\ UNCHANGED <<drawn, editingItemId>>
      BY <2>1, <3>1 DEF TD!addItem, TD!page, TD!NoId
    <3> QED
      BY <2>t, <3>2
  <2>2. CASE TD!Reconnect
    <3>1. PICK f \in Asked : f = TD!Frame("join", 0, FALSE)
      BY <1>2
    <3>2. (up' = <<>> \/ up' = <<f>>) /\ UNCHANGED <<drawn, editingItemId>>
      BY <2>2, <3>1 DEF TD!Reconnect, TD!page, TD!NoId
    <3>3. <<>> \in Seq(Asked) /\ <<f>> \in Seq(Asked)
      OBVIOUS
    <3> QED
      BY <2>t, <3>2, <3>3
  <2>3. CASE \E r \in PageRooms : TD!Admit(r)
    BY <2>t, <2>3 DEF TD!Admit, TD!page
  <2>4. ASSUME NEW k \in DOMAIN drawn, TD!Click(k)
        PROVE  up' \in Seq(Asked) /\ drawn' \in Seq(Shown) /\ editingItemId' \in Nat
    <3>1. PICK f \in Asked : up' = Append(up, f)
      <4>1. CASE up' = Append(up, TD!Frame("toggle", drawn[k].id, ~drawn[k].done))
        <5>1. TD!Frame("toggle", drawn[k].id, ~drawn[k].done) \in Asked
          BY <1>2, <1>3
        <5> QED
          BY <4>1, <5>1
      <4>2. CASE up' = Append(up, TD!Frame("delete", drawn[k].id, FALSE))
        <5>1. TD!Frame("delete", drawn[k].id, FALSE) \in Asked
          BY <1>2, <1>3
        <5> QED
          BY <4>2, <5>1
      <4> QED
        BY <2>4, <4>1, <4>2 DEF TD!Click
    <3>2. UNCHANGED <<drawn, editingItemId>>
      BY <2>4 DEF TD!Click, TD!page
    <3> QED
      BY <2>t, <3>1, <3>2
  <2>5. ASSUME NEW k \in DOMAIN drawn, TD!Edit(k)
        PROVE  up' \in Seq(Asked) /\ drawn' \in Seq(Shown) /\ editingItemId' \in Nat
    BY <2>t, <2>5, <1>3 DEF TD!Edit
  <2>6. ASSUME NEW k \in DOMAIN drawn, TD!save(k)
        PROVE  up' \in Seq(Asked) /\ drawn' \in Seq(Shown) /\ editingItemId' \in Nat
    <3>1. PICK f \in Asked : f = TD!Frame("edit", editingItemId, FALSE)
      BY <1>2, <2>t
    <3>2. (up' = up \/ up' = Append(up, f)) /\ editingItemId' = 0 /\ drawn' = list
      BY <2>6, <3>1 DEF TD!save, TD!Send, TD!NoId
    <3> QED
      BY <2>t, <3>2
  <2> QED
    BY <2>1, <2>2, <2>3, <2>4, <2>5, <2>6
<1>5. ListTypes'
  BY <1>t, <1>1, <1>4 DEF ListTypes
<1>6. \A l, r : Following(l, r)' => Following(l, r)
  BY <1>1 DEF Following
<1> QED
  BY <1>1, <1>5, <1>6, ListsStay

\* One selection of a step that brings it on.
LEMMA OneChoice ==
    ASSUME ListTypes, NEW n \in DOMAIN selections, NEW s \in Choice,
           selections' = [selections EXCEPT ![n] = s]
    PROVE  /\ selections' \in Seq(Choice) /\ DOMAIN selections' = DOMAIN selections
           /\ selections'[n] = s
           /\ \A k \in DOMAIN selections : k # n => selections'[k] = selections[k]
BY DEF ListTypes

LEMMA SelectListStep == ASSUME ListInv, NEW q \in PageRooms, TD!SelectRoom(q) PROVE ListInv'
<1>t. ListTypes
  BY DEF ListInv
<1>1. PICK s : s = [room |-> q, at |-> "keys", rows |-> <<>>, calm |-> FALSE]
  OBVIOUS
<1>2. /\ selections' = Append(selections, s) /\ follows' = FALSE /\ currentRoom' = q
      /\ list' = <<>> /\ editingItemId' = 0
      /\ UNCHANGED <<alive, items, down, drawn, changes>>
      /\ up' = up \/ up' = Append(up, TD!Frame("leave", 0, FALSE))
  BY <1>1 DEF TD!SelectRoom, TD!Send, TD!server, TD!NoId
<1>3. s \in Choice /\ ~s.calm
  BY <1>1 DEF Choice
<1>4. PICK f \in Asked : f = TD!Frame("leave", 0, FALSE)
  BY <1>t DEF TD!Frame, Asked, ListTypes
<1>5. up' \in Seq(Asked) /\ list' \in Seq(Shown)
  <2>1. up \in Seq(Asked) /\ (up' = up \/ up' = Append(up, f))
    BY <1>t, <1>2, <1>4 DEF ListTypes
  <2> QED
    BY <1>2, <2>1
<1>6. /\ selections' \in Seq(Choice)
      /\ \A n \in DOMAIN selections' :
            (n \in DOMAIN selections /\ selections'[n] = selections[n]) \/ selections'[n] = s
  BY <1>t, <1>2, <1>3 DEF ListTypes
<1>7. ListTypes'
  BY <1>t, <1>2, <1>5, <1>6 DEF ListTypes
<1>8. \A l, r : Following(l, r)' => Following(l, r)
  BY <1>2, <1>3, <1>6 DEF Following
<1> QED
  BY <1>2, <1>7, <1>8, ListsStay

\* A selection goes on without an answer, or its answer becomes the list.
LEMMA ChoiceStep ==
    ASSUME ListInv, NEW n \in DOMAIN selections,
           TD!KeysLoaded(n) \/ TD!loadItems(n) \/ TD!LoadFails(n)
    PROVE  ListInv'
<1>t. ListTypes
  BY DEF ListInv
<1>1. PICK x : x = selections[n]
  OBVIOUS
<1>2. x \in Choice
  BY <1>t, <1>1 DEF ListTypes
<1>3. PICK at \in {"asked", "done"} : selections' = [selections EXCEPT ![n].at = at]
  BY DEF TD!KeysLoaded, TD!loadItems, TD!LoadFails
<1>4. PICK s : s = [x EXCEPT !.at = at]
  OBVIOUS
<1>5. s \in Choice /\ s.room = x.room /\ s.rows = x.rows /\ s.calm = x.calm
  BY <1>2, <1>4 DEF Choice
<1>6. selections' = [selections EXCEPT ![n] = s]
  BY <1>1, <1>3, <1>4
<1>7. /\ selections' \in Seq(Choice) /\ DOMAIN selections' = DOMAIN selections
      /\ selections'[n] = s
      /\ \A k \in DOMAIN selections : k # n => selections'[k] = selections[k]
  BY <1>t, <1>5, <1>6, OneChoice
<1>8. /\ UNCHANGED <<alive, items, down, currentRoom, changes>>
      /\ \/ list' = <<>> /\ drawn' = <<>> /\ editingItemId' = 0 /\ follows' = FALSE
         \/ /\ list' = x.rows /\ drawn' = list' /\ UNCHANGED editingItemId
            /\ follows' = (x.room = currentRoom /\ x.calm)
         \/ UNCHANGED <<list, drawn, editingItemId, follows>>
  BY <1>1 DEF TD!KeysLoaded, TD!loadItems, TD!LoadFails, TD!server, TD!page, TD!NoId
<1>9. up' \in Seq(Asked)
  <2>1. [type |-> "join", room |-> x.room, id |-> 0, done |-> FALSE] \in Asked
    BY <1>2 DEF Choice, Asked
  <2>2. up' = up \/ up' = Append(up, [type |-> "join", room |-> x.room, id |-> 0, done |-> FALSE])
    BY <1>1 DEF TD!KeysLoaded, TD!loadItems, TD!LoadFails, TD!Send, TD!NoId
  <2>3. up \in Seq(Asked)
    BY <1>t DEF ListTypes
  <2>4. PICK f \in Asked : up' = up \/ up' = Append(up, f)
    BY <2>1, <2>2
  <2> QED
    BY <2>3, <2>4
<1>10. list' \in Seq(Shown) /\ drawn' \in Seq(Shown) /\ editingItemId' \in Nat
       /\ follows' \in BOOLEAN
  <2>1. /\ x.rows \in Seq(Shown) /\ x.calm \in BOOLEAN /\ <<>> \in Seq(Shown)
        /\ list \in Seq(Shown) /\ drawn \in Seq(Shown) /\ editingItemId \in Nat
        /\ follows \in BOOLEAN
    BY <1>t, <1>2 DEF Choice, ListTypes
  <2>2. follows' \in BOOLEAN
    <3>1. CASE follows' = (x.room = currentRoom /\ x.calm)
      BY <3>1
    <3> QED
      BY <1>8, <2>1, <3>1
  <2>3. list' \in Seq(Shown)
    BY <1>8, <2>1
  <2>4. drawn' \in Seq(Shown)
    BY <1>8, <2>1
  <2>5. editingItemId' \in Nat
    BY <1>8, <2>1
  <2> QED
    BY <2>2, <2>3, <2>4, <2>5
<1>11. ListTypes'
  BY <1>t, <1>7, <1>8, <1>9, <1>10 DEF ListTypes
<1>12. \A k \in DOMAIN selections : /\ selections'[k].room = selections[k].room
                                    /\ selections'[k].rows = selections[k].rows
                                    /\ selections'[k].calm = selections[k].calm
  BY <1>1, <1>5, <1>7
<1>13. \A l, r : Following(l, r)' => Following(l, r)
  <2> SUFFICES ASSUME NEW l, NEW r, Following(l, r)' PROVE Following(l, r)
    OBVIOUS
  <2>1. CASE \E k \in DOMAIN selections' :
                selections'[k].calm /\ l = selections'[k].rows /\ r = selections'[k].room
    BY <1>7, <1>12, <2>1 DEF Following
  <2>2. CASE follows' /\ l = list' /\ r = currentRoom'
    <3>1. CASE list' = x.rows /\ follows' = (x.room = currentRoom /\ x.calm)
      BY <1>1, <1>8, <2>2, <3>1 DEF Following
    <3>2. CASE UNCHANGED <<list, follows>>
      BY <1>8, <2>2, <3>2 DEF Following
    <3> QED
      BY <1>8, <2>2, <3>1, <3>2
  <2> QED
    BY <2>1, <2>2 DEF Following
<1> QED
  BY <1>8, <1>11, <1>13, ListsStay

\* An answer of the server follows if nothing about its room is under way.
LEMMA TurnsAnswered ==
    ASSUME ListTypes, NEW r, \A k \in DOMAIN down : down[k].room # r
    PROVE  Turns(TD!get_items(r), r)
<1>1. PICK l : l = TD!get_items(r)
  OBVIOUS
<1>2. \A i \in Nat : IF i \in TD!ItemsOf(r)
                     THEN \E k : TD!Copies(l, i) = {k} /\ l[k] = TD!Row(items, i)
                     ELSE TD!Copies(l, i) = {}
  BY <1>1, AnswerFacts
<1>3. \A i \in Nat : TD!About(r, i) = {} /\ TD!Additions(r, i) = {} /\ TD!LastAbout(r, i) = {}
  BY DEF TD!About, TD!Additions, TD!LastAbout
<1>4. TD!ItemsOf(r) \subseteq DOMAIN items
  BY DEF TD!ItemsOf
<1>5. ASSUME NEW i \in Nat PROVE TurnsAt(l, r, i)
  <2>1. CASE i \in TD!ItemsOf(r)
    <3>1. TD!Shows(l, r, i)
      BY <1>2, <1>3, <2>1 DEF TD!Shows
    <3> QED
      BY <1>4, <2>1, <3>1 DEF TurnsAt
  <2>2. CASE i \notin TD!ItemsOf(r)
    BY <1>2, <1>3, <2>2 DEF TurnsAt, TD!Hides
  <2> QED
    BY <2>1, <2>2
<1> QED
  BY <1>1, <1>5 DEF Turns

LEMMA ServeItemsStep ==
    ASSUME ListInv, NEW n \in DOMAIN selections, TD!ServeItems(n) PROVE ListInv'
<1>t. ListTypes
  BY DEF ListInv
<1>1. PICK x, a, c : /\ x = selections[n] /\ a = TD!get_items(x.room)
                     /\ c = (/\ x.room \in joined \cap alive
                             /\ \A k \in DOMAIN down : down[k].room # x.room)
  OBVIOUS
<1>2. /\ x \in Choice /\ x.room \in PageRooms /\ c \in BOOLEAN /\ a \in Seq(Shown)
  <2>1. x \in Choice /\ c \in BOOLEAN
    BY <1>t, <1>1 DEF ListTypes
  <2>2. a \in Seq(Shown)
    BY <1>t, <1>1, AnswerFacts
  <2> QED
    BY <2>1, <2>2 DEF Choice
<1>3. PICK s : s = [x EXCEPT !.at = "answered", !.rows = a, !.calm = c]
  OBVIOUS
<1>4. s \in Choice /\ s.room = x.room /\ s.rows = a /\ s.calm = c
  BY <1>2, <1>3 DEF Choice
<1>5. /\ selections' = [selections EXCEPT ![n].at = "answered", ![n].rows = a, ![n].calm = c]
      /\ UNCHANGED <<alive, items, up, down, currentRoom, list, drawn, editingItemId, follows,
                     changes>>
  BY <1>1 DEF TD!ServeItems, TD!server, TD!page
<1>6. selections' = [selections EXCEPT ![n] = s]
  BY <1>1, <1>3, <1>5
<1>7. /\ selections' \in Seq(Choice) /\ DOMAIN selections' = DOMAIN selections
      /\ selections'[n] = s
      /\ \A k \in DOMAIN selections : k # n => selections'[k] = selections[k]
  BY <1>t, <1>4, <1>6, OneChoice
<1>8. ListTypes'
  BY <1>t, <1>5, <1>7 DEF ListTypes
<1>9. ASSUME NEW l, NEW r, Following(l, r)' PROVE Turns(l, r)
  <2>1. CASE Following(l, r)
    BY <2>1 DEF ListInv
  <2>2. CASE c /\ l = a /\ r = x.room
    BY <1>t, <1>1, <2>2, TurnsAnswered
  <2> QED
    BY <1>4, <1>5, <1>7, <1>9, <2>1, <2>2 DEF Following
<1>10. ASSUME NEW l, NEW r, Following(l, r)' PROVE Turns(l, r)'
  BY <1>t, <1>5, <1>9, <1>10, TurnsStays
<1> QED
  BY <1>8, <1>10 DEF ListInv

LEMMA LikeItself == ASSUME NEW l, NEW i PROVE Like(l, l, i)
BY DEF Like

LEMMA HeardStep == ASSUME ListInv, TD!onRoomAction PROVE ListInv'
<1>t. ListTypes
  BY DEF ListInv
<1>1. PICK e : e = Head(down)
  OBVIOUS
<1>2. /\ down # <<>> /\ down' = Tail(down)
      /\ UNCHANGED <<items, alive, up, currentRoom, follows, changes>>
      /\ list' = TD!Applied(list, e)
      /\ drawn' = IF e.room = currentRoom THEN list' ELSE drawn
      /\ editingItemId' = 0 \/ editingItemId' = editingItemId
      /\ selections' = [n \in DOMAIN selections |->
             [selections[n] EXCEPT !.calm = @ /\ selections[n].room # e.room]]
  BY <1>1 DEF TD!onRoomAction, TD!server, TD!NoId
<1>3. e \in Told /\ e = down[1] /\ down' \in Seq(Told) /\ e.row.id \in Nat
  <2>1. e \in Told /\ e = down[1] /\ down' \in Seq(Told)
    BY <1>t, <1>1, <1>2 DEF ListTypes
  <2> QED
    BY <2>1 DEF Told, Shown
<1>4. PICK p \in [DOMAIN selections -> BOOLEAN] :
         \A n \in DOMAIN selections : p[n] <=> selections[n].room # e.room
  <2>1. [n \in DOMAIN selections |-> selections[n].room # e.room]
            \in [DOMAIN selections -> BOOLEAN]
    OBVIOUS
  <2> QED
    BY <2>1
<1>5. /\ selections' \in Seq(Choice) /\ DOMAIN selections' = DOMAIN selections
      /\ \A n \in DOMAIN selections :
            /\ selections'[n].room = selections[n].room
            /\ selections'[n].rows = selections[n].rows
            /\ selections'[n].calm => selections[n].calm /\ p[n]
  <2>1. selections' = [n \in DOMAIN selections |-> [selections[n] EXCEPT !.calm = @ /\ p[n]]]
    <3>1. \A n \in DOMAIN selections :
             [selections[n] EXCEPT !.calm = @ /\ selections[n].room # e.room]
                = [selections[n] EXCEPT !.calm = @ /\ p[n]]
      BY <1>4
    <3> QED
      BY <1>2, <3>1
  <2> QED
    BY <1>t, <2>1, CalmFacts
<1>6. PICK l0, l2 : l0 = list /\ l2 = list'
  OBVIOUS
<1>7. l0 \in Seq(Shown) /\ l2 = TD!Applied(l0, e)
  BY <1>t, <1>2, <1>6 DEF ListTypes
<1>8. CASE e.room = currentRoom
  <2>1. /\ l2 \in Seq(Shown)
        /\ \A i \in Nat : i # e.row.id => Like(l0, l2, i)
        /\ e.kind = "todo_added" =>
              /\ TD!Copies(l2, e.row.id) = TD!Copies(l0, e.row.id) \cup {Len(l0) + 1}
              /\ l2[Len(l0) + 1] = e.row
        /\ e.kind = "todo_updated" =>
              /\ TD!Copies(l2, e.row.id) = TD!Copies(l0, e.row.id)
              /\ \A k \in TD!Copies(l2, e.row.id) : l2[k] = e.row
        /\ e.kind = "todo_deleted" => TD!Copies(l2, e.row.id) = {}
    <3>1. e \in Told /\ l0 \in Seq(Shown) /\ l2 = TD!Applied(l0, e) /\ e.room = currentRoom
      BY <1>3, <1>7, <1>8
    <3> QED
      BY <3>1, AppliedFacts, Zenon
  <2>2. ListTypes'
    BY <1>t, <1>2, <1>3, <1>5, <1>6, <1>8, <2>1 DEF ListTypes
  <2>3. ASSUME NEW l, NEW r, Following(l, r)' PROVE Turns(l, r)'
    <3>1. CASE Following(l, r) /\ r # e.room
      <4>1. Turns(l, r)
        BY <3>1 DEF ListInv
      <4>2. ASSUME NEW i \in Nat PROVE TurnsAt(l, r, i)'
        <5>1. TurnsAt(l, r, i) /\ Like(l, l, i)
          BY <4>1, LikeItself DEF Turns
        <5> QED
          BY <1>t, <1>2, <1>3, <3>1, <5>1, TurnsPast
      <4> QED
        BY <4>2 DEF Turns
    <3>2. CASE follows /\ l = l2 /\ r = currentRoom
      <4>1. Turns(l0, r)
        BY <1>6, <3>2 DEF ListInv, Following
      <4>2. ASSUME NEW i \in Nat PROVE TurnsAt(l2, r, i)'
        <5>1. TurnsAt(l0, r, i)
          BY <4>1 DEF Turns
        <5>2. CASE i # e.row.id
          <6>1. Like(l0, l2, i) /\ ~(down[1].room = r /\ down[1].row.id = i)
            BY <1>3, <2>1, <5>2
          <6> QED
            BY <1>t, <1>2, <5>1, <6>1, TurnsPast
        <5>3. CASE i = e.row.id
          <6>1. e.room = r /\ e.row.id = i
            BY <1>8, <3>2, <5>3
          <6>2. /\ e.kind = "todo_added" =>
                      /\ TD!Copies(l2, i) = TD!Copies(l0, i) \cup {Len(l0) + 1}
                      /\ l2[Len(l0) + 1] = e.row
                /\ e.kind = "todo_updated" =>
                      /\ TD!Copies(l2, i) = TD!Copies(l0, i)
                      /\ \A k \in TD!Copies(l2, i) : l2[k] = e.row
                /\ e.kind = "todo_deleted" => TD!Copies(l2, i) = {}
            BY <2>1, <5>3
          <6> QED
            BY <1>t, <1>2, <1>3, <1>7, <5>1, <6>1, <6>2, TurnsWith
        <5> QED
          BY <5>2, <5>3
      <4> QED
        BY <3>2, <4>2 DEF Turns
    <3> QED
      BY <1>2, <1>4, <1>5, <1>6, <2>3, <3>1, <3>2 DEF Following
  <2> QED
    BY <2>2, <2>3 DEF ListInv
<1>9. CASE e.room # currentRoom
  <2>1. l2 = l0
    BY <1>7, <1>9 DEF TD!Applied
  <2>2. ListTypes'
    BY <1>t, <1>2, <1>3, <1>5, <1>6, <1>9, <2>1 DEF ListTypes
  <2>3. ASSUME NEW l, NEW r, Following(l, r)' PROVE Turns(l, r)'
    <3>1. Following(l, r) /\ r # e.room
      BY <1>2, <1>4, <1>5, <1>6, <1>9, <2>1, <2>3 DEF Following
    <3>2. Turns(l, r)
      BY <3>1 DEF ListInv
    <3>3. ASSUME NEW i \in Nat PROVE TurnsAt(l, r, i)'
      <4>1. TurnsAt(l, r, i) /\ Like(l, l, i)
        BY <3>2, LikeItself DEF Turns
      <4> QED
        BY <1>t, <1>2, <1>3, <3>1, <4>1, TurnsPast
    <3> QED
      BY <3>3 DEF Turns
  <2> QED
    BY <2>2, <2>3 DEF ListInv
<1> QED
  BY <1>8, <1>9

LEMMA LostStep == ASSUME ListInv, TD!Drop PROVE ListInv'
<1>t. ListTypes
  BY DEF ListInv
<1>1. /\ up' = <<>> /\ down' = <<>>
      /\ follows' = (follows /\ \A k \in DOMAIN down : down[k].room # currentRoom)
      /\ selections' = [n \in DOMAIN selections |->
             [selections[n] EXCEPT !.calm = @ /\ \A k \in DOMAIN down :
                                                   down[k].room # selections[n].room]]
      /\ UNCHANGED <<alive, items, currentRoom, list, drawn, editingItemId, changes>>
  BY DEF TD!Drop, TD!page
<1>2. PICK p \in [DOMAIN selections -> BOOLEAN] :
         \A n \in DOMAIN selections :
            p[n] <=> \A k \in DOMAIN down : down[k].room # selections[n].room
  <2>1. [n \in DOMAIN selections |-> \A k \in DOMAIN down : down[k].room # selections[n].room]
            \in [DOMAIN selections -> BOOLEAN]
    OBVIOUS
  <2> QED
    BY <2>1
<1>3. /\ selections' \in Seq(Choice) /\ DOMAIN selections' = DOMAIN selections
      /\ \A n \in DOMAIN selections :
            /\ selections'[n].room = selections[n].room
            /\ selections'[n].rows = selections[n].rows
            /\ selections'[n].calm => selections[n].calm /\ p[n]
  <2>1. selections' = [n \in DOMAIN selections |-> [selections[n] EXCEPT !.calm = @ /\ p[n]]]
    <3>1. \A n \in DOMAIN selections :
             [selections[n] EXCEPT !.calm = @ /\ \A k \in DOMAIN down :
                                                   down[k].room # selections[n].room]
                = [selections[n] EXCEPT !.calm = @ /\ p[n]]
      BY <1>2
    <3> QED
      BY <1>1, <3>1
  <2> QED
    BY <1>t, <2>1, CalmFacts
<1>4. (follows' <=> follows /\ \A k \in DOMAIN down : down[k].room # currentRoom)
      /\ follows' \in BOOLEAN
  BY <1>1
<1>5. ListTypes'
  <2>1. <<>> \in Seq(Asked) /\ <<>> \in Seq(Told)
    OBVIOUS
  <2> QED
    BY <1>t, <1>1, <1>3, <1>4, <2>1 DEF ListTypes
<1>6. ASSUME NEW l, NEW r, Following(l, r)' PROVE Turns(l, r)'
  <2>1. Following(l, r) /\ \A k \in DOMAIN down : down[k].room # r
    <3>1. CASE \E k \in DOMAIN selections' :
                  selections'[k].calm /\ l = selections'[k].rows /\ r = selections'[k].room
      <4>1. PICK k \in DOMAIN selections' :
                selections'[k].calm /\ l = selections'[k].rows /\ r = selections'[k].room
        BY <3>1
      <4>2. k \in DOMAIN selections /\ selections[k].calm /\ p[k]
            /\ l = selections[k].rows /\ r = selections[k].room
        BY <1>3, <4>1
      <4>3. \A j \in DOMAIN down : down[j].room # r
        BY <1>2, <4>2
      <4> QED
        BY <4>2, <4>3 DEF Following
    <3>2. CASE follows' /\ l = list' /\ r = currentRoom'
      BY <1>1, <1>4, <3>2 DEF Following
    <3> QED
      BY <1>6, <3>1, <3>2 DEF Following
  <2>2. Turns(l, r)
    BY <2>1 DEF ListInv
  <2>3. \A i \in Nat : TD!About(r, i) = {} /\ TD!About(r, i)' = {}
    <3>1. DOMAIN down' = {}
      BY <1>1
    <3> QED
      BY <2>1, <3>1 DEF TD!About
  <2>4. /\ items \in Seq(Item) /\ DOMAIN items \subseteq DOMAIN items'
        /\ TD!ItemsOf(r)' = TD!ItemsOf(r)
        /\ \A i \in TD!ItemsOf(r) : TD!Row(items, i)' = TD!Row(items, i)
    BY <1>t, <1>1 DEF ListTypes, TD!ItemsOf, TD!Row
  <2> QED
    BY <2>2, <2>3, <2>4, TurnsElsewhere
<1> QED
  BY <1>5, <1>6 DEF ListInv

LEMMA ListsBegin == ASSUME TD!Init PROVE ListInv
<1>1. ListTypes
  <2>1. /\ <<>> \in Seq(Item) /\ <<>> \in Seq(Asked) /\ <<>> \in Seq(Told)
        /\ <<>> \in Seq(Shown) /\ <<>> \in Seq(Choice)
    OBVIOUS
  <2> QED
    BY <2>1, TodoAssumption DEF TD!Init, TD!NoId, ListTypes
<1>2. ~follows /\ DOMAIN selections = {}
  BY DEF TD!Init
<1> QED
  BY <1>1, <1>2 DEF ListInv, Following

LEMMA ListsGoOn == ASSUME ListInv, [TD!Next]_TD!vars PROVE ListInv'
<1>1. CASE TD!ServeFrame
  BY <1>1, ServeFrameStep
<1>2. CASE TD!WriterActs \/ \E r \in PageRooms : TD!HandleRequest(r)
  BY <1>2, WriterStep
<1>3. CASE \E r \in PageRooms : TD!DeleteRoom(r)
  BY <1>3, DeleteListStep
<1>4. CASE \E r \in PageRooms : TD!SelectRoom(r)
  BY <1>4, SelectListStep
<1>5. CASE \E n \in DOMAIN selections : TD!KeysLoaded(n) \/ TD!loadItems(n) \/ TD!LoadFails(n)
  BY <1>5, ChoiceStep
<1>6. CASE \E n \in DOMAIN selections : TD!ServeItems(n)
  BY <1>6, ServeItemsStep
<1>7. CASE \/ TD!addItem \/ TD!Reconnect
           \/ \E r \in PageRooms : TD!Admit(r)
           \/ \E k \in DOMAIN drawn : TD!Click(k) \/ TD!Edit(k) \/ TD!save(k)
  BY <1>7, AsideStep
<1>8. CASE TD!onRoomAction
  BY <1>8, HeardStep
<1>9. CASE TD!Drop
  BY <1>9, LostStep
<1>10. CASE UNCHANGED TD!vars
  <2>1. /\ UNCHANGED <<alive, items, up, down, currentRoom, list, drawn, editingItemId,
                       selections, follows, changes>>
    BY <1>10 DEF TD!vars, TD!server, TD!page
  <2>2. ListTypes'
    BY <2>1 DEF ListInv, ListTypes
  <2>3. \A l, r : Following(l, r)' => Following(l, r)
    BY <2>1 DEF Following
  <2> QED
    BY <2>1, <2>2, <2>3, ListsStay
<1> QED
  BY <1>1, <1>2, <1>3, <1>4, <1>5, <1>6, <1>7, <1>8, <1>9, <1>10 DEF TD!Next

\* A fetched list that has missed nothing becomes the items of its room, whatever broadcasts,
\* answers, switches of rooms, edits, deletions and losses come between.
THEOREM ListsAreRight == TD!Spec => []ListFollows
<1>1. ListInv => ListFollows
  <2> SUFFICES ASSUME ListInv, follows, NEW i \in TD!Ids
               PROVE  IF i \in TD!ItemsOf(currentRoom)
                      THEN TD!Shows(list, currentRoom, i) ELSE TD!Hides(list, currentRoom, i)
    BY DEF ListFollows, TD!ListFollows
  <2>1. i \in Nat
    BY TodoAssumption DEF TD!Ids
  <2>2. Turns(list, currentRoom)
    BY DEF ListInv, Following
  <2> QED
    BY <2>1, <2>2 DEF Turns, TurnsAt
<1> QED
  BY ListsBegin, ListsGoOn, <1>1, PTL DEF TD!Spec

-----------------------------------------------------------------------------
(* Reactions.                                                              *)

\* The pills ps of m become the stored reactions by the broadcasts under way.
Becoming(ps, m) ==
    \A x \in RE!Reactions : x.msg = m => (RE!Becomes(ps, x) <=> x \in RE!Stored)

ReactionFrame == [kind : {"added", "removed"}, of : RE!Reactions]
PageFrame == [type : {"join", "leave"}, room : PageRooms]
        \cup [type : {"add", "remove"}, room : PageRooms \cup {NoRoom}, of : RE!Reactions]
Batch == [room : PageRooms \cup {NoRoom}, ids : SUBSET MessageIds, rows : SUBSET RE!Reactions,
          at : {"asked", "answered", "done"}, calm : SUBSET MessageIds]

ReactionTypes ==
    /\ rows \subseteq [msg : MessageIds, emoji : Emojis, user : RE!Users,
                       room : PageRooms \cup {NoRoom}]
    /\ up \in Seq(PageFrame) /\ down \in Seq(ReactionFrame)
    /\ currentRoom \in PageRooms \cup {NoRoom} /\ loading \subseteq PageRooms
    /\ settled \subseteq elements /\ pending \subseteq MessageIds
    /\ batches \in Seq(Batch)

\* An answer is of the messages of its batch, and so are those it is calm for, which it
\* leaves as they will be.
BatchesInv ==
    \A n \in DOMAIN batches :
       /\ \A x \in batches[n].rows : x.msg \in batches[n].ids
       /\ \A m \in batches[n].calm : m \in batches[n].ids /\ Becoming(batches[n].rows, m)

ReactionsInv ==
    ReactionTypes /\ BatchesInv /\ \A m \in settled : Becoming(pills, m)

\* A change that is told: it is the last word on its reaction.
LEMMA BecomesTold ==
    ASSUME NEW ps, NEW m, Becoming(ps, m), ReactionTypes,
           NEW e \in ReactionFrame, down' = Append(down, e),
           RE!Stored' = IF e.kind = "added" THEN RE!Stored \cup {e.of} ELSE RE!Stored \ {e.of}
    PROVE  Becoming(ps, m)'
<1> SUFFICES ASSUME NEW x \in RE!Reactions, x.msg = m
             PROVE  RE!Becomes(ps, x)' <=> x \in RE!Stored'
  BY DEF Becoming, RE!Reactions, RE!Users
<1>0. RE!Becomes(ps, x) <=> x \in RE!Stored
  BY DEF Becoming
<1>1. /\ DOMAIN down' = 1 .. Len(down) + 1 /\ DOMAIN down = 1 .. Len(down) /\ Len(down) \in Nat
      /\ down'[Len(down) + 1] = e /\ \A k \in DOMAIN down : down'[k] = down[k]
  BY DEF ReactionTypes
<1>2. CASE e.of = x
  <2>1. RE!Becomes(ps, x)' <=> e.kind = "added"
    <3>1. e = [kind |-> e.kind, of |-> x]
      BY <1>2 DEF ReactionFrame
    <3>2. CASE e.kind = "added"
      <4>1. down'[Len(down) + 1] = [kind |-> "added", of |-> x]
        BY <1>1, <3>1, <3>2
      <4>2. \A l \in DOMAIN down' : ~ (l > Len(down) + 1)
        BY <1>1
      <4> QED BY <1>1, <3>2, <4>1, <4>2 DEF RE!Becomes
    <3>3. CASE e.kind # "added"
      <4>1. ~ (\A k \in DOMAIN down' : down'[k].of # x)
        BY <1>1, <1>2
      <4>2. \A k \in DOMAIN down' : down'[k] = [kind |-> "added", of |-> x] =>
               Len(down) + 1 \in DOMAIN down' /\ Len(down) + 1 > k /\ down'[Len(down) + 1].of = x
        BY <1>1, <1>2, <3>3
      <4> QED BY <3>3, <4>1, <4>2 DEF RE!Becomes
    <3> QED BY <3>2, <3>3
  <2> QED BY <1>2, <2>1
<1>3. CASE e.of # x
  <2>1. x \in RE!Stored' <=> x \in RE!Stored
    BY <1>3
  <2>2. (\A k \in DOMAIN down' : down'[k].of # x) <=> (\A k \in DOMAIN down : down[k].of # x)
    BY <1>1, <1>3
  <2>3. \A k \in DOMAIN down : (\A l \in DOMAIN down' : l > k => down'[l].of # x)
                                <=> (\A l \in DOMAIN down : l > k => down[l].of # x)
    BY <1>1, <1>3
  <2>4. \A k \in DOMAIN down' : down'[k] = [kind |-> "added", of |-> x] => k \in DOMAIN down
    BY <1>1, <1>3
  <2>5. RE!Becomes(ps, x)' <=> RE!Becomes(ps, x)
    BY <1>1, <2>2, <2>3, <2>4 DEF RE!Becomes
  <2> QED BY <1>0, <2>1, <2>5
<1> QED BY <1>2, <1>3

\* Changes of other messages, and what is on its way for them.
LEMMA BecomesAside ==
    ASSUME NEW ps, NEW m, Becoming(ps, m), UNCHANGED down,
           \A x \in RE!Reactions : x.msg = m => (x \in RE!Stored' <=> x \in RE!Stored)
    PROVE  Becoming(ps, m)'
<1>1. \A x : RE!Becomes(ps, x)' <=> RE!Becomes(ps, x)
  BY DEF RE!Becomes
<1> QED BY <1>1 DEF Becoming, RE!Reactions, RE!Users

LEMMA BecomesQuiet ==
    ASSUME NEW ps, NEW m, Becoming(ps, m), down' = <<>>, UNCHANGED rows,
           \A k \in DOMAIN down : down[k].of.msg # m
    PROVE  Becoming(ps, m)'
<1>1. RE!Stored' = RE!Stored
  BY DEF RE!Stored, RE!Reaction
<1>2. ASSUME NEW x, x.msg = m PROVE RE!Becomes(ps, x)' <=> RE!Becomes(ps, x)
  BY <1>2 DEF RE!Becomes
<1> QED BY <1>1, <1>2 DEF Becoming, RE!Reactions, RE!Users

\* A broadcast that comes: what it says is in the pills, or it is about another message.
LEMMA BecomesShown ==
    ASSUME NEW ps, NEW qs, NEW m, Becoming(ps, m), ReactionTypes, down # <<>>,
           down' = Tail(down), UNCHANGED rows,
           \A x : x.msg = m =>
              (x \in qs <=> IF x = Head(down).of THEN Head(down).kind = "added" ELSE x \in ps)
    PROVE  Becoming(qs, m)'
<1>1. RE!Stored' = RE!Stored
  BY DEF RE!Stored, RE!Reaction
<1>2. /\ Len(down) \in Nat /\ Len(down) > 0 /\ DOMAIN down = 1 .. Len(down)
      /\ DOMAIN down' = 1 .. Len(down) - 1
      /\ \A k \in DOMAIN down' : down'[k] = down[k + 1]
      /\ Head(down) = down[1] /\ down[1] \in ReactionFrame
  BY DEF ReactionTypes
<1>3. ASSUME NEW x \in RE!Reactions, x.msg = m PROVE RE!Becomes(qs, x)' <=> RE!Becomes(ps, x)
  <2>1. \A k \in DOMAIN down : k > 1 => k - 1 \in DOMAIN down' /\ down'[k - 1] = down[k]
    BY <1>2
  <2>2. \A k \in DOMAIN down' : k + 1 \in DOMAIN down /\ down'[k] = down[k + 1]
    BY <1>2
  <2>3. \A k \in DOMAIN down' :
           (\A l \in DOMAIN down' : l > k => down'[l].of # x)
           <=> (\A l \in DOMAIN down : l > k + 1 => down[l].of # x)
    <3> SUFFICES ASSUME NEW k \in DOMAIN down'
                 PROVE  (\A l \in DOMAIN down' : l > k => down'[l].of # x)
                        <=> (\A l \in DOMAIN down : l > k + 1 => down[l].of # x)
      OBVIOUS
    <3>1. ASSUME \A l \in DOMAIN down' : l > k => down'[l].of # x,
                 NEW l \in DOMAIN down, l > k + 1
          PROVE  down[l].of # x
      <4>1. l - 1 \in DOMAIN down' /\ down'[l - 1] = down[l] /\ l - 1 > k
        BY <1>2, <3>1
      <4> QED BY <3>1, <4>1
    <3>2. ASSUME \A l \in DOMAIN down : l > k + 1 => down[l].of # x,
                 NEW l \in DOMAIN down', l > k
          PROVE  down'[l].of # x
      <4>1. l + 1 \in DOMAIN down /\ down'[l] = down[l + 1] /\ l + 1 > k + 1
        BY <1>2, <3>2
      <4> QED BY <3>2, <4>1
    <3> QED BY <3>1, <3>2
  <2>4. (\A k \in DOMAIN down' : down'[k].of # x)
        <=> (\A k \in DOMAIN down : k > 1 => down[k].of # x)
    <3>1. ASSUME \A k \in DOMAIN down' : down'[k].of # x, NEW k \in DOMAIN down, k > 1
          PROVE  down[k].of # x
      BY <2>1, <3>1
    <3>2. ASSUME \A k \in DOMAIN down : k > 1 => down[k].of # x, NEW k \in DOMAIN down'
          PROVE  down'[k].of # x
      <4>1. k + 1 \in DOMAIN down /\ down'[k] = down[k + 1] /\ k + 1 > 1
        BY <1>2
      <4> QED BY <3>2, <4>1
    <3> QED BY <3>1, <3>2
  <2> DEFINE Later == \E k \in DOMAIN down : k > 1 /\ down[k] = [kind |-> "added", of |-> x]
                            /\ \A l \in DOMAIN down : l > k => down[l].of # x
             Still == \A k \in DOMAIN down : k > 1 => down[k].of # x
  <2>5. (\E k \in DOMAIN down' : /\ down'[k] = [kind |-> "added", of |-> x]
                                 /\ \A l \in DOMAIN down' : l > k => down'[l].of # x) <=> Later
    <3>1. ASSUME NEW k \in DOMAIN down', down'[k] = [kind |-> "added", of |-> x],
                 \A l \in DOMAIN down' : l > k => down'[l].of # x
          PROVE  Later
      <4>1. k + 1 \in DOMAIN down /\ k + 1 > 1 /\ down[k + 1] = [kind |-> "added", of |-> x]
        BY <1>2, <3>1
      <4>2. \A l \in DOMAIN down : l > k + 1 => down[l].of # x
        BY <2>3, <3>1
      <4> QED BY <4>1, <4>2
    <3>2. ASSUME NEW k \in DOMAIN down, k > 1, down[k] = [kind |-> "added", of |-> x],
                 \A l \in DOMAIN down : l > k => down[l].of # x
          PROVE  \E j \in DOMAIN down' : /\ down'[j] = [kind |-> "added", of |-> x]
                                         /\ \A l \in DOMAIN down' : l > j => down'[l].of # x
      <4>1. k - 1 \in DOMAIN down' /\ (k - 1) + 1 = k
        BY <1>2, <3>2
      <4>2. down'[k - 1] = [kind |-> "added", of |-> x]
        BY <2>1, <3>2
      <4>3. \A l \in DOMAIN down' : l > k - 1 => down'[l].of # x
        BY <2>3, <3>2, <4>1
      <4> QED BY <4>1, <4>2, <4>3
    <3> QED BY <3>1, <3>2
  <2>6. RE!Becomes(qs, x)' <=> (x \in qs /\ Still) \/ Later
    BY <2>4, <2>5 DEF RE!Becomes
  <2>7. RE!Becomes(ps, x) <=> (IF x = down[1].of THEN down[1].kind = "added" /\ Still
                               ELSE x \in ps /\ Still) \/ Later
    <3>1. CASE x = down[1].of
      <4>1. down[1] = [kind |-> "added", of |-> x] <=> down[1].kind = "added"
        BY <1>2, <3>1 DEF ReactionFrame
      <4>2. 1 \in DOMAIN down /\ \A k \in DOMAIN down : k = 1 \/ k > 1
        BY <1>2
      <4> QED BY <3>1, <4>1, <4>2 DEF RE!Becomes
    <3>2. CASE x # down[1].of
      <4>1. down[1] # [kind |-> "added", of |-> x]
        BY <3>2
      <4>2. 1 \in DOMAIN down /\ \A k \in DOMAIN down : k = 1 \/ k > 1
        BY <1>2
      <4> QED BY <3>2, <4>1, <4>2 DEF RE!Becomes
    <3> QED BY <3>1, <3>2
  <2> HIDE DEF Later, Still
  <2> QED BY <1>2, <1>3, <2>6, <2>7
<1> QED BY <1>1, <1>3 DEF Becoming, RE!Reactions, RE!Users

\* What Becomes does not look at.
LEMMA BecomesKept ==
    ASSUME NEW ps, NEW m, Becoming(ps, m), UNCHANGED <<rows, down>>
    PROVE  Becoming(ps, m)'
BY BecomesAside DEF RE!Stored, RE!Reaction

\* The batches of a step that forgets the calm of some messages.
LEMMA UncalmFacts ==
    ASSUME ReactionTypes, NEW ms, batches' = RE!Uncalm(ms)
    PROVE  /\ batches' \in Seq(Batch) /\ DOMAIN batches' = DOMAIN batches
           /\ \A n \in DOMAIN batches :
                 /\ batches'[n].ids = batches[n].ids /\ batches'[n].rows = batches[n].rows
                 /\ batches'[n].calm = batches[n].calm \ ms
<1> DEFINE b(n) == [batches[n] EXCEPT !.calm = @ \ ms]
<1>1. ASSUME NEW x \in Batch
      PROVE  LET y == [x EXCEPT !.calm = @ \ ms]
             IN  y \in Batch /\ y.ids = x.ids /\ y.rows = x.rows /\ y.calm = x.calm \ ms
  BY DEF Batch
<1>2. \A n \in DOMAIN batches : batches[n] \in Batch
  BY DEF ReactionTypes
<1>3. batches' = [n \in DOMAIN batches |-> b(n)]
  BY DEF RE!Uncalm
<1>4. \A n \in DOMAIN batches :
         b(n) \in Batch /\ b(n).ids = batches[n].ids /\ b(n).rows = batches[n].rows
         /\ b(n).calm = batches[n].calm \ ms
  BY <1>1, <1>2
<1> HIDE DEF b
<1>5. DOMAIN batches = 1 .. Len(batches) /\ Len(batches) \in Nat
  BY DEF ReactionTypes
<1> QED BY <1>3, <1>4, <1>5

\* One batch of a step that answers it or ends it.
LEMMA OneBatch ==
    ASSUME ReactionTypes, NEW n \in DOMAIN batches, NEW b \in Batch,
           batches' = [batches EXCEPT ![n] = b]
    PROVE  /\ batches' \in Seq(Batch) /\ DOMAIN batches' = DOMAIN batches
           /\ batches'[n] = b
           /\ \A k \in DOMAIN batches : k # n => batches'[k] = batches[k]
BY DEF ReactionTypes

\* A change of the rows, by either member and on either way.
LEMMA HandleStep ==
    ASSUME ReactionsInv, NEW x \in RE!Reactions, NEW type \in {"add", "remove"},
           NEW room \in PageRooms \cup {NoRoom}, NEW told \in BOOLEAN,
           RE!handle_reaction(x, type, room, told),
           up' \in Seq(PageFrame), UNCHANGED <<currentRoom, loading, elements, pending, pills>>
    PROVE  ReactionsInv'
<1>0. ReactionTypes /\ BatchesInv
  BY DEF ReactionsInv
<1>1. CASE UNCHANGED <<rows, down, settled, batches>>
  <2>1. ReactionTypes'
    BY <1>0, <1>1 DEF ReactionTypes
  <2>2. BatchesInv'
    BY <1>0, <1>1, BecomesKept DEF BatchesInv
  <2>3. PICK ps : ps = pills
    OBVIOUS
  <2>4. \A m \in settled : Becoming(ps, m)'
    BY <1>1, <2>3, BecomesKept DEF ReactionsInv
  <2> QED BY <1>1, <2>1, <2>2, <2>3, <2>4 DEF ReactionsInv, Becoming
<1>2. ASSUME NEW kind \in {"added", "removed"}, RE!Announce(kind, x, room, told),
             rows' \subseteq [msg : MessageIds, emoji : Emojis, user : RE!Users,
                              room : PageRooms \cup {NoRoom}],
             RE!Stored' = IF kind = "added" THEN RE!Stored \cup {x} ELSE RE!Stored \ {x}
      PROVE  ReactionsInv'
  <2>1. PICK ps : ps = pills
    OBVIOUS
  <2>2. CASE told /\ room \in joined
    <3>1. PICK e \in ReactionFrame : e = [kind |-> kind, of |-> x]
      BY DEF ReactionFrame
    <3>2. down' = Append(down, e) /\ UNCHANGED <<settled, batches>>
      BY <1>2, <2>2, <3>1 DEF RE!Announce
    <3>3. ReactionTypes'
      BY <1>0, <1>2, <3>2 DEF ReactionTypes
    <3>4. e.kind = kind /\ e.of = x
      BY <3>1
    <3>5. ASSUME NEW qs, NEW m, Becoming(qs, m) PROVE Becoming(qs, m)'
      BY <1>0, <1>2, <3>2, <3>4, <3>5, BecomesTold
    <3>6. BatchesInv'
      BY <1>0, <3>2, <3>5 DEF BatchesInv
    <3>7. \A m \in settled' : Becoming(pills, m)'
      <4>1. \A m \in settled' : Becoming(ps, m)'
        BY <2>1, <3>2, <3>5 DEF ReactionsInv
      <4> QED BY <2>1, <4>1 DEF Becoming
    <3> QED BY <3>3, <3>6, <3>7 DEF ReactionsInv
  <2>3. CASE ~ (told /\ room \in joined)
    <3>1. settled' = settled \ {x.msg} /\ batches' = RE!Uncalm({x.msg}) /\ UNCHANGED down
      BY <1>2, <2>3 DEF RE!Announce
    <3>2. /\ batches' \in Seq(Batch) /\ DOMAIN batches' = DOMAIN batches
          /\ \A n \in DOMAIN batches :
                /\ batches'[n].ids = batches[n].ids /\ batches'[n].rows = batches[n].rows
                /\ batches'[n].calm = batches[n].calm \ {x.msg}
      BY <1>0, <3>1, UncalmFacts
    <3>3. ReactionTypes'
      BY <1>0, <1>2, <3>1, <3>2 DEF ReactionTypes
    <3>4. ASSUME NEW qs, NEW m, m # x.msg, Becoming(qs, m) PROVE Becoming(qs, m)'
      BY <1>2, <3>1, <3>4, BecomesAside
    <3>5. BatchesInv'
      BY <1>0, <3>2, <3>4 DEF BatchesInv
    <3>6. \A m \in settled' : Becoming(pills, m)'
      <4>1. \A m \in settled' : Becoming(ps, m)'
        BY <2>1, <3>1, <3>4 DEF ReactionsInv
      <4> QED BY <2>1, <4>1 DEF Becoming
    <3> QED BY <3>3, <3>5, <3>6 DEF ReactionsInv
  <2> QED BY <2>2, <2>3
<1>3. CASE type = "add" /\ RE!add_reaction(x, room, told)
  <2>1. CASE x \in RE!Stored
    BY <1>1, <1>3, <2>1 DEF RE!add_reaction
  <2>2. CASE x \notin RE!Stored
    <3> DEFINE row == [msg |-> x.msg, emoji |-> x.emoji, user |-> x.user, room |-> room]
    <3>1. rows' = rows \cup {row} /\ RE!Announce("added", x, room, told)
      BY <1>3, <2>2 DEF RE!add_reaction
    <3>2. RE!Reaction(row) = x
      BY DEF RE!Reaction, RE!Reactions
    <3>3. row \in [msg : MessageIds, emoji : Emojis, user : RE!Users,
                   room : PageRooms \cup {NoRoom}]
      BY DEF RE!Reactions
    <3> HIDE DEF row
    <3>4. RE!Stored' = RE!Stored \cup {x}
      BY <3>1, <3>2 DEF RE!Stored, RE!Reaction
    <3>5. rows' \subseteq [msg : MessageIds, emoji : Emojis, user : RE!Users,
                           room : PageRooms \cup {NoRoom}]
      BY <1>0, <3>1, <3>3 DEF ReactionTypes
    <3> QED BY <1>2, <3>1, <3>4, <3>5
  <2> QED BY <2>1, <2>2
<1>4. CASE type = "remove" /\ RE!remove_reaction(x, room, told)
  <2>1. rows' = {row \in rows : RE!Reaction(row) # x} /\ RE!Announce("removed", x, room, told)
    BY <1>4 DEF RE!remove_reaction
  <2>2. RE!Stored' = RE!Stored \ {x}
    BY <2>1 DEF RE!Stored, RE!Reaction
  <2>3. rows' \subseteq [msg : MessageIds, emoji : Emojis, user : RE!Users,
                         room : PageRooms \cup {NoRoom}]
    BY <1>0, <2>1 DEF ReactionTypes
  <2> QED BY <1>2, <2>1, <2>2, <2>3
<1> QED BY <1>3, <1>4 DEF RE!handle_reaction

\* A step of the page that changes neither pills nor batches, or clears the document.
LEMMA ReactionsKept ==
    ASSUME ReactionsInv, UNCHANGED <<rows, down, batches>>, ReactionTypes',
           settled' = {} \/ UNCHANGED <<settled, pills>>
    PROVE  ReactionsInv'
<1>1. BatchesInv'
  BY BecomesKept DEF ReactionsInv, BatchesInv
<1>2. PICK ps : ps = pills
  OBVIOUS
<1>3. \A m \in settled : Becoming(ps, m)'
  BY <1>2, BecomesKept DEF ReactionsInv
<1>4. \A m \in settled' : Becoming(pills, m)'
  BY <1>2, <1>3 DEF Becoming
<1> QED BY <1>1, <1>4 DEF ReactionsInv

\* What Send leaves.
LEMMA PageSends ==
    ASSUME up \in Seq(PageFrame), NEW f \in PageFrame, RE!Send(f)
    PROVE  up' \in Seq(PageFrame)
BY DEF RE!Send

\* An answer of the server: what is calm for it will be what is stored.
LEMMA BatchServed ==
    ASSUME ReactionsInv, NEW n \in DOMAIN batches, RE!ServeBatch(n)
    PROVE  ReactionsInv'
<1>0. ReactionTypes /\ BatchesInv /\ batches[n] \in Batch
  BY DEF ReactionsInv, ReactionTypes
<1> DEFINE b == batches[n]
           answer == {RE!Reaction(row) : row \in RE!InRange(b)}
           calm == {m \in b.ids : /\ RoomOf[m] = b.room /\ b.room \in joined
                                  /\ \A k \in DOMAIN down : down[k].of.msg # m
                                  /\ \A row \in rows : row.msg = m => row.room = b.room}
           new == [b EXCEPT !.at = "answered", !.rows = answer, !.calm = calm]
<1>1. answer \in SUBSET RE!Reactions /\ \A x \in answer : x.msg \in b.ids
  <2> SUFFICES ASSUME NEW row \in rows, row.msg \in b.ids
               PROVE  RE!Reaction(row) \in RE!Reactions /\ RE!Reaction(row).msg \in b.ids
    BY DEF RE!InRange
  <2> QED BY <1>0 DEF ReactionTypes, RE!Reaction, RE!Reactions
<1>2. calm \in SUBSET MessageIds
  BY <1>0 DEF Batch
<1>3. \A m \in calm : Becoming(answer, m)
  <2> SUFFICES ASSUME NEW m \in calm, NEW x \in RE!Reactions, x.msg = m
               PROVE  RE!Becomes(answer, x) <=> x \in RE!Stored
    BY DEF Becoming
  <2>1. \A k \in DOMAIN down : down[k].of # x
    OBVIOUS
  <2>2. RE!Becomes(answer, x) <=> x \in answer
    <3>1. \A k \in DOMAIN down : down[k] # [kind |-> "added", of |-> x]
      <4> SUFFICES ASSUME NEW k \in DOMAIN down, down[k] = [kind |-> "added", of |-> x]
                   PROVE  FALSE
        OBVIOUS
      <4>1. down[k].of = x
        OBVIOUS
      <4> QED BY <2>1, <4>1
    <3> QED BY <2>1, <3>1 DEF RE!Becomes
  <2>3. \A row \in rows : RE!Reaction(row) = x => row \in RE!InRange(b)
    <3> SUFFICES ASSUME NEW row \in rows, RE!Reaction(row) = x PROVE row \in RE!InRange(b)
      OBVIOUS
    <3>1. row.msg = m
      BY DEF RE!Reaction
    <3> QED BY <3>1 DEF RE!InRange
  <2>4. x \in answer <=> x \in RE!Stored
    BY <2>3 DEF RE!Stored, RE!InRange
  <2> QED BY <2>2, <2>4
<1>4. new \in Batch /\ new.ids = b.ids /\ new.rows = answer /\ new.calm = calm
  <2> HIDE DEF answer, calm
  <2> QED BY <1>0, <1>1, <1>2 DEF Batch
<1>5. batches' = [batches EXCEPT ![n] = new] /\ UNCHANGED <<rows, down, settled, pills>>
      /\ UNCHANGED <<up, currentRoom, loading, elements, pending>>
  <2>1. batches' = [batches EXCEPT ![n].at = "answered", ![n].rows = answer, ![n].calm = calm]
        /\ UNCHANGED <<rows, down, settled, pills>>
        /\ UNCHANGED <<up, currentRoom, loading, elements, pending>>
    BY DEF RE!ServeBatch, RE!page
  <2> HIDE DEF answer, calm
  <2> QED BY <1>0, <2>1
<1>6. ASSUME NEW A, A = answer PROVE \A m \in calm : Becoming(A, m)'
  BY <1>3, <1>5, <1>6, BecomesKept
<1> HIDE DEF answer, calm, new
<1>7. /\ batches' \in Seq(Batch) /\ DOMAIN batches' = DOMAIN batches /\ batches'[n] = new
      /\ \A k \in DOMAIN batches : k # n => batches'[k] = batches[k]
  BY <1>0, <1>4, <1>5, OneBatch
<1>8. ReactionTypes'
  BY <1>0, <1>5, <1>7 DEF ReactionTypes
<1>9. BatchesInv'
  <2>1. ASSUME NEW k \in DOMAIN batches
        PROVE  \E A, C, I : /\ batches'[k].rows = A /\ batches'[k].calm = C
                            /\ batches'[k].ids = I /\ \A x \in A : x.msg \in I
                            /\ \A m \in C : m \in I /\ Becoming(A, m)'
    <3>1. CASE k # n
      <4>1. PICK A, C, I : A = batches[k].rows /\ C = batches[k].calm /\ I = batches[k].ids
        OBVIOUS
      <4>2. \A m \in C : m \in I /\ Becoming(A, m)'
        BY <1>0, <1>5, <4>1, BecomesKept DEF BatchesInv
      <4>3. \A x \in A : x.msg \in I
        BY <1>0, <4>1 DEF BatchesInv
      <4> QED BY <1>7, <3>1, <4>1, <4>2, <4>3
    <3>2. CASE k = n
      <4>1. PICK A, C, I : A = answer /\ C = calm /\ I = b.ids
        OBVIOUS
      <4>2. \A m \in C : m \in I /\ Becoming(A, m)'
        BY <1>6, <4>1 DEF calm
      <4>3. \A x \in A : x.msg \in I
        BY <1>1, <4>1
      <4> QED BY <1>4, <1>7, <3>2, <4>1, <4>2, <4>3
    <3> QED BY <3>1, <3>2
  <2>2. ASSUME NEW k \in DOMAIN batches
        PROVE  /\ \A x \in batches'[k].rows : x.msg \in batches'[k].ids
               /\ \A m \in batches'[k].calm :
                     m \in batches'[k].ids
                     /\ \A x \in RE!Reactions : x.msg = m =>
                           (\/ x \in batches'[k].rows /\ \A l \in DOMAIN down' : down'[l].of # x
                            \/ \E j \in DOMAIN down' :
                                  /\ down'[j] = [kind |-> "added", of |-> x]
                                  /\ \A l \in DOMAIN down' : l > j => down'[l].of # x)
                           <=> x \in RE!Stored'
    <3>1. PICK A, C, I : /\ batches'[k].rows = A /\ batches'[k].calm = C
                         /\ batches'[k].ids = I /\ \A x \in A : x.msg \in I
                         /\ \A m \in C : m \in I /\ Becoming(A, m)'
      BY <2>1
    <3> QED BY <3>1 DEF Becoming, RE!Becomes, RE!Reactions, RE!Users
  <2> QED BY <1>7, <2>2 DEF BatchesInv, Becoming, RE!Becomes, RE!Reactions, RE!Users
<1>10. \A m \in settled' : Becoming(pills, m)'
  <2>1. PICK ps : ps = pills
    OBVIOUS
  <2>2. \A m \in settled : Becoming(ps, m)'
    BY <1>5, <2>1, BecomesKept DEF ReactionsInv
  <2> QED BY <1>5, <2>1, <2>2 DEF Becoming
<1> QED BY <1>8, <1>9, <1>10 DEF ReactionsInv

\* An answer comes to the page: what it is calm for, and what it is not about.
LEMMA BatchMerged ==
    ASSUME ReactionsInv, NEW n \in DOMAIN batches, RE!BatchArrives(n)
    PROVE  ReactionsInv'
<1>0. ReactionTypes /\ BatchesInv /\ batches[n] \in Batch
  BY DEF ReactionsInv, ReactionTypes
<1> DEFINE b == batches[n]
           new == [b EXCEPT !.at = "done"]
           exact == {m \in b.calm \cap elements : RE!OfMessage(m, pills) \subseteq b.rows}
<1>1. /\ batches' = [batches EXCEPT ![n] = new] /\ pills' = RE!Merged(b)
      /\ settled' = (settled \ b.ids) \cup exact \cup (settled \cap b.calm)
      /\ UNCHANGED <<rows, down, up, currentRoom, loading, elements, pending>>
  BY <1>0 DEF RE!BatchArrives
<1>2. new \in Batch /\ new.ids = b.ids /\ new.rows = b.rows /\ new.calm = b.calm
  BY <1>0 DEF Batch
<1> HIDE DEF new
<1>3. /\ batches' \in Seq(Batch) /\ DOMAIN batches' = DOMAIN batches /\ batches'[n] = new
      /\ \A k \in DOMAIN batches : k # n => batches'[k] = batches[k]
  BY <1>0, <1>1, <1>2, OneBatch
<1>4. ReactionTypes'
  BY <1>0, <1>1, <1>3 DEF ReactionTypes
<1>5. BatchesInv'
  <2>1. \A k \in DOMAIN batches :
           /\ batches'[k].rows = batches[k].rows /\ batches'[k].calm = batches[k].calm
           /\ batches'[k].ids = batches[k].ids
    BY <1>2, <1>3
  <2>2. ASSUME NEW k \in DOMAIN batches, NEW m \in batches[k].calm
        PROVE  Becoming(batches[k].rows, m)'
    <3>1. PICK ps : ps = batches[k].rows
      OBVIOUS
    <3>2. Becoming(ps, m)'
      BY <1>0, <1>1, <3>1, BecomesKept DEF BatchesInv
    <3>3. batches'[k].rows = ps
      BY <2>1, <3>1
    <3> QED BY <3>2, <3>3 DEF Becoming
  <2> QED BY <1>0, <1>3, <2>1, <2>2 DEF BatchesInv
<1>6. ASSUME NEW m \in settled' PROVE Becoming(pills, m)'
  <2>1. PICK ps, qs, as : ps = pills /\ qs = RE!Merged(b) /\ as = b.rows
    OBVIOUS
  <2>2. m \in elements
    BY <1>0, <1>1 DEF ReactionTypes
  <2>3. \A x : x.msg = m =>
           (x \in qs <=> (x \in ps /\ ~ \E y \in as : y.msg = m /\ y.emoji = x.emoji) \/ x \in as)
    BY <2>1, <2>2 DEF RE!Merged
  <2>4. CASE m \in settled \ b.ids
    <3>1. \A y \in as : y.msg # m
      BY <1>0, <2>1, <2>4 DEF BatchesInv
    <3>2. \A x : x.msg = m => (x \in qs <=> x \in ps)
      BY <2>3, <3>1
    <3>3. Becoming(ps, m)'
      BY <1>1, <2>1, <2>4, BecomesKept DEF ReactionsInv
    <3>4. Becoming(qs, m)'
      BY <3>2, <3>3 DEF Becoming, RE!Becomes, RE!Reactions, RE!Users
    <3> QED BY <1>1, <2>1, <3>4 DEF Becoming
  <2>5. CASE m \in exact \cup (settled \cap b.calm)
    <3>1. Becoming(as, m)
      BY <1>0, <2>1, <2>5 DEF BatchesInv
    <3>2. Becoming(qs, m)
      <4> SUFFICES ASSUME NEW x \in RE!Reactions, x.msg = m
                   PROVE  RE!Becomes(qs, x) <=> x \in RE!Stored
        BY DEF Becoming
      <4>1. RE!Becomes(as, x) <=> x \in RE!Stored
        BY <3>1 DEF Becoming
      <4>2. CASE \A k \in DOMAIN down : down[k].of # x
        <5>1. x \in as <=> x \in RE!Stored
          <6>1. \A k \in DOMAIN down : down[k] # [kind |-> "added", of |-> x]
            <7> SUFFICES ASSUME NEW k \in DOMAIN down, down[k] = [kind |-> "added", of |-> x]
                         PROVE  FALSE
              OBVIOUS
            <7>1. down[k].of = x
              OBVIOUS
            <7> QED BY <4>2, <7>1
          <6> QED BY <4>1, <4>2, <6>1 DEF RE!Becomes
        <5>2. x \in ps => x \in as
          <6>1. CASE m \in exact
            BY <2>1, <6>1 DEF RE!OfMessage
          <6>2. CASE m \in settled
            <7>1. RE!Becomes(ps, x) <=> x \in RE!Stored
              BY <2>1, <6>2 DEF ReactionsInv, Becoming
            <7> QED BY <4>2, <5>1, <7>1 DEF RE!Becomes
          <6> QED BY <2>5, <6>1, <6>2
        <5>3. x \in qs <=> x \in as
          BY <2>3, <5>2
        <5> QED BY <4>1, <4>2, <5>3 DEF RE!Becomes
      <4>3. CASE \E k \in DOMAIN down : down[k].of = x
        BY <4>1, <4>3 DEF RE!Becomes
      <4> QED BY <4>2, <4>3
    <3>3. Becoming(qs, m)'
      BY <1>1, <3>2, BecomesKept
    <3> QED BY <1>1, <2>1, <3>3 DEF Becoming
  <2> QED BY <1>1, <2>4, <2>5
<1> QED BY <1>4, <1>5, <1>6 DEF ReactionsInv

\* A broadcast comes to the page.
LEMMA ReactionShown ==
    ASSUME ReactionsInv, RE!handleReactionMessage
    PROVE  ReactionsInv'
<1>0. ReactionTypes /\ BatchesInv
  BY DEF ReactionsInv
<1>1. PICK e : e = Head(down)
  OBVIOUS
<1>2. /\ down # <<>> /\ down' = Tail(down) /\ e \in ReactionFrame
      /\ pills' = (IF e.of.msg \notin elements THEN pills
                   ELSE IF e.kind = "added" THEN pills \cup {e.of} ELSE pills \ {e.of})
      /\ batches' = RE!Uncalm({e.of.msg})
      /\ UNCHANGED <<rows, up, currentRoom, loading, elements, pending, settled>>
  BY <1>0, <1>1 DEF RE!handleReactionMessage, RE!Applied, ReactionTypes
<1>3. /\ batches' \in Seq(Batch) /\ DOMAIN batches' = DOMAIN batches
      /\ \A n \in DOMAIN batches :
            /\ batches'[n].ids = batches[n].ids /\ batches'[n].rows = batches[n].rows
            /\ batches'[n].calm = batches[n].calm \ {e.of.msg}
  BY <1>0, <1>2, UncalmFacts
<1>4. ReactionTypes'
  BY <1>0, <1>2, <1>3 DEF ReactionTypes
<1>5. ASSUME NEW ps, NEW m, Becoming(ps, m), m # e.of.msg PROVE Becoming(ps, m)'
  BY <1>0, <1>1, <1>2, <1>5, BecomesShown
<1>6. BatchesInv'
  BY <1>0, <1>3, <1>5 DEF BatchesInv
<1>7. ASSUME NEW m \in settled PROVE Becoming(pills, m)'
  <2>1. PICK ps, qs : ps = pills /\ qs = pills'
    OBVIOUS
  <2>2. Becoming(ps, m)
    BY <2>1 DEF ReactionsInv
  <2>3. m \in elements
    BY <1>0 DEF ReactionTypes
  <2>4. \A x : x.msg = m => (x \in qs <=> IF x = e.of THEN e.kind = "added" ELSE x \in ps)
    BY <1>2, <2>1, <2>3 DEF ReactionFrame
  <2>5. Becoming(qs, m)'
    BY <1>0, <1>1, <1>2, <2>2, <2>4, BecomesShown
  <2> QED BY <2>1, <2>5 DEF Becoming
<1> QED BY <1>2, <1>4, <1>6, <1>7 DEF ReactionsInv

\* The connection is lost with the broadcasts on it.
LEMMA ReactionsDropped ==
    ASSUME ReactionsInv, RE!Drop
    PROVE  ReactionsInv'
<1>0. ReactionTypes /\ BatchesInv
  BY DEF ReactionsInv
<1> DEFINE lost == {down[k].of.msg : k \in DOMAIN down}
<1>1. /\ down' = <<>> /\ up' = <<>> /\ settled' = settled \ lost /\ batches' = RE!Uncalm(lost)
      /\ UNCHANGED <<rows, currentRoom, loading, elements, pending, pills>>
  BY DEF RE!Drop, RE!page
<1>2. /\ batches' \in Seq(Batch) /\ DOMAIN batches' = DOMAIN batches
      /\ \A n \in DOMAIN batches :
            /\ batches'[n].ids = batches[n].ids /\ batches'[n].rows = batches[n].rows
            /\ batches'[n].calm = batches[n].calm \ lost
  BY <1>0, <1>1, UncalmFacts
<1>3. ReactionTypes'
  BY <1>0, <1>1, <1>2 DEF ReactionTypes
<1>4. ASSUME NEW ps, NEW m, m \notin lost, Becoming(ps, m) PROVE Becoming(ps, m)'
  BY <1>1, <1>4, BecomesQuiet
<1> HIDE DEF lost
<1>5. BatchesInv'
  BY <1>0, <1>2, <1>4 DEF BatchesInv
<1>6. \A m \in settled' : Becoming(pills, m)'
  <2>1. PICK ps : ps = pills
    OBVIOUS
  <2>2. \A m \in settled' : Becoming(ps, m)'
    BY <1>1, <1>4, <2>1 DEF ReactionsInv
  <2> QED BY <1>1, <2>1, <2>2 DEF Becoming
<1> QED BY <1>3, <1>5, <1>6 DEF ReactionsInv

\* A batch that is asked for, or that ends without an answer, is calm for nothing new.
LEMMA BatchAsked ==
    ASSUME ReactionsInv, RE!flushReactionQueue
    PROVE  ReactionsInv'
<1>0. ReactionTypes /\ BatchesInv
  BY DEF ReactionsInv
<1> DEFINE new == [room |-> currentRoom, ids |-> RE!Span(pending), rows |-> {},
                   at |-> "asked", calm |-> {}]
<1>1. /\ batches' = Append(batches, new) /\ pending' = {}
      /\ UNCHANGED <<rows, down, up, currentRoom, loading, elements, pills, settled>>
  BY DEF RE!flushReactionQueue
<1>2. new \in Batch /\ new.rows = {} /\ new.calm = {}
  BY <1>0 DEF ReactionTypes, Batch, RE!Span
<1> HIDE DEF new
<1>3. /\ batches' \in Seq(Batch)
      /\ \A n \in DOMAIN batches' :
            (n \in DOMAIN batches /\ batches'[n] = batches[n]) \/ batches'[n] = new
  BY <1>0, <1>1, <1>2 DEF ReactionTypes
<1>4. ReactionTypes'
  BY <1>0, <1>1, <1>3 DEF ReactionTypes
<1>5. BatchesInv'
  <2>1. ASSUME NEW n \in DOMAIN batches, NEW m \in batches[n].calm
        PROVE  Becoming(batches[n].rows, m)' /\ batches'[n] = batches[n]
    <3>1. PICK ps : ps = batches[n].rows
      OBVIOUS
    <3>2. Becoming(ps, m)'
      BY <1>0, <1>1, <2>1, <3>1, BecomesKept DEF BatchesInv
    <3>3. batches'[n] = batches[n]
      BY <1>0, <1>1 DEF ReactionTypes
    <3> QED BY <3>1, <3>2, <3>3 DEF Becoming
  <2> QED BY <1>0, <1>2, <1>3, <2>1 DEF BatchesInv
<1>6. \A m \in settled' : Becoming(pills, m)'
  <2>1. PICK ps : ps = pills
    OBVIOUS
  <2>2. \A m \in settled : Becoming(ps, m)'
    BY <1>1, <2>1, BecomesKept DEF ReactionsInv
  <2> QED BY <1>1, <2>1, <2>2 DEF Becoming
<1> QED BY <1>4, <1>5, <1>6 DEF ReactionsInv

LEMMA BatchFailed ==
    ASSUME ReactionsInv, NEW n \in DOMAIN batches, RE!BatchFails(n)
    PROVE  ReactionsInv'
<1>0. ReactionTypes /\ BatchesInv /\ batches[n] \in Batch
  BY DEF ReactionsInv, ReactionTypes
<1> DEFINE new == [batches[n] EXCEPT !.at = "done"]
<1>1. /\ batches' = [batches EXCEPT ![n] = new]
      /\ UNCHANGED <<rows, down, up, currentRoom, loading, elements, pending, pills, settled>>
  BY <1>0 DEF RE!BatchFails, RE!page
<1>2. new \in Batch /\ new.ids = batches[n].ids /\ new.rows = batches[n].rows
      /\ new.calm = batches[n].calm
  BY <1>0 DEF Batch
<1> HIDE DEF new
<1>3. /\ batches' \in Seq(Batch) /\ DOMAIN batches' = DOMAIN batches
      /\ \A k \in DOMAIN batches :
            /\ batches'[k].rows = batches[k].rows /\ batches'[k].calm = batches[k].calm
            /\ batches'[k].ids = batches[k].ids
  BY <1>0, <1>1, <1>2, OneBatch
<1>4. ReactionTypes'
  BY <1>0, <1>1, <1>3 DEF ReactionTypes
<1>5. BatchesInv'
  <2>1. ASSUME NEW k \in DOMAIN batches, NEW m \in batches[k].calm
        PROVE  Becoming(batches[k].rows, m)'
    <3>1. PICK ps : ps = batches[k].rows
      OBVIOUS
    <3>2. Becoming(ps, m)'
      BY <1>0, <1>1, <3>1, BecomesKept DEF BatchesInv
    <3>3. batches'[k].rows = ps
      BY <1>3, <3>1
    <3> QED BY <3>2, <3>3 DEF Becoming
  <2> QED BY <1>0, <1>3, <2>1 DEF BatchesInv
<1>6. \A m \in settled' : Becoming(pills, m)'
  <2>1. PICK ps : ps = pills
    OBVIOUS
  <2>2. \A m \in settled : Becoming(ps, m)'
    BY <1>1, <2>1, BecomesKept DEF ReactionsInv
  <2> QED BY <1>1, <2>1, <2>2 DEF Becoming
<1> QED BY <1>4, <1>5, <1>6 DEF ReactionsInv

LEMMA ReactionsStep == ReactionsInv /\ [RE!Next]_(RE!vars) => ReactionsInv'
<1> SUFFICES ASSUME ReactionsInv, [RE!Next]_(RE!vars) PROVE ReactionsInv'
  OBVIOUS
<1>0. ReactionTypes
  BY DEF ReactionsInv
<1>1. CASE RE!ServeFrame
  <2>1. PICK f \in PageFrame :
           /\ f = Head(up) /\ up' = Tail(up) /\ up' \in Seq(PageFrame)
           /\ UNCHANGED <<currentRoom, loading, elements, pending, pills>>
    <3>1. up # <<>> /\ up' = Tail(up) /\ UNCHANGED <<currentRoom, loading, elements, pending, pills>>
      BY <1>1 DEF RE!ServeFrame, RE!page
    <3>2. Head(up) \in PageFrame /\ Tail(up) \in Seq(PageFrame)
      BY <1>0, <3>1 DEF ReactionTypes
    <3> QED BY <3>1, <3>2
  <2>2. CASE UNCHANGED <<rows, down, settled, batches>>
    <3>1. ReactionTypes'
      BY <1>0, <2>1, <2>2 DEF ReactionTypes
    <3> QED BY <2>1, <2>2, <3>1, ReactionsKept
  <2>3. CASE RE!handle_reaction(f.of, f.type, f.room, TRUE)
    <3>1. f.type \in {"add", "remove"}
      BY <2>3 DEF RE!handle_reaction
    <3>2. f.of \in RE!Reactions /\ f.room \in PageRooms \cup {NoRoom}
      BY <3>1 DEF PageFrame
    <3> QED BY <2>1, <2>3, <3>1, <3>2, HandleStep
  <2> QED BY <1>1, <2>1, <2>2, <2>3 DEF RE!ServeFrame
<1>2. CASE RE!WriterActs
  <2>1. PICK x \in RE!Reactions, type \in {"add", "remove"}, room \in PageRooms :
           RE!handle_reaction(x, type, room, TRUE)
    BY <1>2 DEF RE!WriterActs
  <2>2. up' \in Seq(PageFrame) /\ UNCHANGED <<currentRoom, loading, elements, pending, pills>>
    BY <1>0, <1>2 DEF RE!WriterActs, RE!page, ReactionTypes
  <2> QED BY <2>1, <2>2, HandleStep
<1>3. CASE RE!HttpRequest
  <2>1. PICK x \in RE!Reactions, type \in {"add", "remove"} :
           RE!handle_reaction(x, type, RoomOf[x.msg], FALSE)
    BY <1>3 DEF RE!HttpRequest
  <2>2. up' \in Seq(PageFrame) /\ UNCHANGED <<currentRoom, loading, elements, pending, pills>>
    BY <1>0, <1>3 DEF RE!HttpRequest, RE!page, ReactionTypes
  <2>3. RoomOf[x.msg] \in PageRooms
    BY ReactionsAssumption DEF RE!Reactions
  <2> QED BY <2>1, <2>2, <2>3, HandleStep
<1>4. ASSUME NEW r \in PageRooms, RE!SelectRoom(r) PROVE ReactionsInv'
  <2>1. /\ UNCHANGED <<rows, down, batches, settled, pills, elements, pending>>
        /\ currentRoom' = r /\ loading' = loading \cup {r}
        /\ IF currentRoom = NoRoom THEN UNCHANGED up
           ELSE RE!Send(RE!Subscription("leave", currentRoom))
    BY <1>4 DEF RE!SelectRoom
  <2>2. up' \in Seq(PageFrame)
    <3>1. CASE currentRoom = NoRoom
      BY <1>0, <2>1, <3>1 DEF ReactionTypes
    <3>2. CASE currentRoom # NoRoom
      <4>1. RE!Subscription("leave", currentRoom) \in PageFrame
        BY <1>0, <3>2 DEF ReactionTypes, PageFrame, RE!Subscription
      <4> QED BY <1>0, <2>1, <3>2, <4>1, PageSends DEF ReactionTypes
    <3> QED BY <3>1, <3>2
  <2>3. ReactionTypes'
    BY <1>0, <2>1, <2>2 DEF ReactionTypes
  <2> QED BY <2>1, <2>3, ReactionsKept
<1>5. ASSUME NEW r \in PageRooms, RE!KeysLoaded(r) PROVE ReactionsInv'
  <2>1. /\ UNCHANGED <<rows, down, batches, currentRoom, pending>>
        /\ loading' = loading \ {r} /\ settled' = {} /\ elements' = {}
        /\ RE!Send(RE!Subscription("join", r))
    BY <1>5 DEF RE!KeysLoaded
  <2>2. up' \in Seq(PageFrame)
    <3>1. RE!Subscription("join", r) \in PageFrame
      BY DEF PageFrame, RE!Subscription
    <3> QED BY <1>0, <2>1, <3>1, PageSends DEF ReactionTypes
  <2>3. ReactionTypes'
    BY <1>0, <2>1, <2>2 DEF ReactionTypes
  <2> QED BY <2>1, <2>3, ReactionsKept
<1>6. ASSUME NEW m \in MessageIds, RE!attachReactionButton(m) PROVE ReactionsInv'
  <2>1. ReactionTypes'
    BY <1>0, <1>6 DEF RE!attachReactionButton, ReactionTypes
  <2> QED BY <1>6, <2>1, ReactionsKept DEF RE!attachReactionButton
<1>7. CASE RE!flushReactionQueue
  BY <1>7, BatchAsked
<1>8. ASSUME NEW n \in DOMAIN batches, RE!ServeBatch(n) \/ RE!BatchArrives(n) \/ RE!BatchFails(n)
      PROVE  ReactionsInv'
  BY <1>8, BatchServed, BatchMerged, BatchFailed
<1>9. CASE RE!handleReactionMessage
  BY <1>9, ReactionShown
<1>10. CASE RE!Drop
  BY <1>10, ReactionsDropped
<1>11. CASE RE!Reconnect
  <2>1. /\ UNCHANGED <<rows, down, batches, settled, pills, elements, pending, currentRoom, loading>>
        /\ up' = IF currentRoom = NoRoom THEN <<>> ELSE <<RE!Subscription("join", currentRoom)>>
    BY <1>11 DEF RE!Reconnect, RE!page
  <2>2. up' \in Seq(PageFrame)
    <3>1. currentRoom # NoRoom => RE!Subscription("join", currentRoom) \in PageFrame
      BY <1>0 DEF ReactionTypes, PageFrame, RE!Subscription
    <3> QED BY <2>1, <3>1
  <2>3. ReactionTypes'
    BY <1>0, <2>1, <2>2 DEF ReactionTypes
  <2> QED BY <2>1, <2>3, ReactionsKept
<1>12. ASSUME NEW x \in RE!Reactions, RE!Click(x) PROVE ReactionsInv'
  <2>1. PICK type \in {"add", "remove"} :
           up' = Append(up, [type |-> type, room |-> currentRoom, of |-> x])
    BY <1>12 DEF RE!Click
  <2>2. UNCHANGED <<rows, down, batches, settled, pills, elements, pending, currentRoom, loading>>
    BY <1>12 DEF RE!Click, RE!page
  <2>3. [type |-> type, room |-> currentRoom, of |-> x] \in PageFrame
    BY <1>0 DEF ReactionTypes, PageFrame
  <2>4. up' \in Seq(PageFrame)
    BY <1>0, <2>1, <2>3 DEF ReactionTypes
  <2>5. ReactionTypes'
    BY <1>0, <2>2, <2>4 DEF ReactionTypes
  <2> QED BY <2>2, <2>5, ReactionsKept
<1>13. CASE UNCHANGED RE!vars
  <2>1. ReactionTypes'
    BY <1>0, <1>13 DEF RE!vars, RE!page, ReactionTypes
  <2> QED BY <1>13, <2>1, ReactionsKept DEF RE!vars, RE!page
<1> QED BY <1>1, <1>2, <1>3, <1>4, <1>5, <1>6, <1>7, <1>8, <1>9, <1>10, <1>11, <1>12, <1>13
        DEF RE!Next

\* Fetched pills that have missed nothing since become the stored reactions by the broadcasts
\* under way: an answer is calm for a message while what comes about it is what the answer does
\* not hold, and leaves it as it will be (updateReactionDisplay, handleReactionMessage).
THEOREM PillsAreRight == RE!Spec => []PillsFollow
<1>1. RE!Init => ReactionsInv
  BY DEF RE!Init, ReactionsInv, ReactionTypes, BatchesInv
<1>2. ReactionsInv => PillsFollow
  BY DEF ReactionsInv, Becoming, PillsFollow, RE!PillsFollow
<1> QED BY <1>1, <1>2, ReactionsStep, PTL DEF RE!Spec

-----------------------------------------------------------------------------
(* Typing indicators.                                                      *)

Frames == [type : {"start", "stop"}, room : PageRooms]
Stop(r) == [type |-> "stop", room |-> r]
StopIn(s, r) == \E n \in DOMAIN s : s[n] = Stop(r)
StopAfter(s, k, r) == \E n \in DOMAIN s : n > k /\ s[n] = Stop(r)

\* The member types in room r, or no word of the end is owed.
Excused == unstopped \cup {r \in {typistRoom} : typingTimer}

\* Each word of a start is followed by that of the end, or will be.
UpStops ==
    \A k \in DOMAIN typistUp :
       typistUp[k].type = "start" =>
          typistUp[k].room \in Excused \/ StopAfter(typistUp, k, typistUp[k].room)
DownStops ==
    \A k \in DOMAIN down :
       down[k].type = "start" =>
          \/ down[k].room \in Excused
          \/ StopAfter(down, k, down[k].room)
          \/ StopIn(typistUp, down[k].room)
ShownStops ==
    typingUsers /\ attached /\ ~unheard =>
       currentRoom \in Excused \/ StopIn(down, currentRoom) \/ StopIn(typistUp, currentRoom)

TypingInv ==
    /\ typistUp \in Seq(Frames) /\ down \in Seq(Frames)
    /\ typistRoom \in PageRooms \cup {NoRoom} /\ (messageInput => typistRoom \in PageRooms)
    /\ (typingTimer => messageInput) /\ currentRoom \in PageRooms \cup {NoRoom}
    /\ UpStops /\ DownStops /\ ShownStops

LEMMA AppendStops ==
    ASSUME NEW s \in Seq(Frames), NEW f \in Frames, NEW t, t = Append(s, f)
    PROVE  /\ t \in Seq(Frames) /\ DOMAIN s = 1 .. Len(s) /\ DOMAIN t = 1 .. Len(s) + 1
           /\ Len(s) \in Nat /\ t[Len(s) + 1] = f
           /\ \A k \in DOMAIN s : k \in DOMAIN t /\ t[k] = s[k]
           /\ \A r : StopIn(s, r) => StopIn(t, r)
           /\ \A r, k : StopAfter(s, k, r) => StopAfter(t, k, r)
           /\ \A r : f = Stop(r) => StopIn(t, r) /\ \A k \in DOMAIN s : StopAfter(t, k, r)
<1>1. /\ t \in Seq(Frames) /\ DOMAIN s = 1 .. Len(s) /\ DOMAIN t = 1 .. Len(s) + 1
      /\ Len(s) \in Nat /\ t[Len(s) + 1] = f
      /\ \A k \in DOMAIN s : k \in DOMAIN t /\ t[k] = s[k]
  OBVIOUS
<1>2. \A r : StopIn(s, r) => StopIn(t, r)
  BY <1>1 DEF StopIn
<1>3. \A r, k : StopAfter(s, k, r) => StopAfter(t, k, r)
  BY <1>1 DEF StopAfter
<1>4. ASSUME NEW r, f = Stop(r)
      PROVE  StopIn(t, r) /\ \A k \in DOMAIN s : StopAfter(t, k, r)
  BY <1>1, <1>4 DEF StopIn, StopAfter
<1> HIDE DEF StopIn, StopAfter, Stop
<1> QED BY <1>1, <1>2, <1>3, <1>4

LEMMA TailStops ==
    ASSUME NEW s \in Seq(Frames), s # <<>>
    PROVE  /\ Tail(s) \in Seq(Frames) /\ Head(s) \in Frames /\ Head(s) = s[1] /\ 1 \in DOMAIN s
           /\ \A k \in DOMAIN Tail(s) : k + 1 \in DOMAIN s /\ Tail(s)[k] = s[k + 1]
           /\ \A r : \A k \in Nat : StopAfter(s, k + 1, r) => StopAfter(Tail(s), k, r)
           /\ \A r : StopAfter(s, 1, r) => StopIn(Tail(s), r)
           /\ \A r : StopIn(s, r) => Head(s) = Stop(r) \/ StopIn(Tail(s), r)
<1>1. /\ Tail(s) \in Seq(Frames) /\ Head(s) \in Frames /\ Head(s) = s[1] /\ 1 \in DOMAIN s
      /\ DOMAIN s = 1 .. Len(s) /\ DOMAIN Tail(s) = 1 .. Len(s) - 1 /\ Len(s) \in Nat
      /\ \A k \in DOMAIN Tail(s) : k + 1 \in DOMAIN s /\ Tail(s)[k] = s[k + 1]
  OBVIOUS
<1>2. ASSUME NEW k \in Nat, NEW r, StopAfter(s, k + 1, r) PROVE StopAfter(Tail(s), k, r)
  <2>1. PICK n \in DOMAIN s : n > k + 1 /\ s[n] = Stop(r)
    BY <1>2 DEF StopAfter
  <2>2. n - 1 \in DOMAIN Tail(s) /\ n - 1 > k /\ Tail(s)[n - 1] = s[n]
    BY <1>1, <2>1
  <2> QED BY <2>1, <2>2 DEF StopAfter
<1>3. ASSUME NEW r, StopIn(s, r) PROVE Head(s) = Stop(r) \/ StopIn(Tail(s), r)
  <2>1. PICK n \in DOMAIN s : s[n] = Stop(r)
    BY <1>3 DEF StopIn
  <2>2. CASE n = 1
    BY <1>1, <2>1, <2>2
  <2>3. CASE n # 1
    <3>1. n - 1 \in DOMAIN Tail(s) /\ Tail(s)[n - 1] = s[n]
      BY <1>1, <2>1, <2>3
    <3> QED BY <2>1, <3>1 DEF StopIn
  <2> QED BY <2>2, <2>3
<1>4. ASSUME NEW r, StopAfter(s, 1, r) PROVE StopIn(Tail(s), r)
  <2>1. StopAfter(Tail(s), 0, r)
    BY <1>2, <1>4
  <2> QED BY <2>1 DEF StopAfter, StopIn
<1> HIDE DEF StopIn, StopAfter, Stop
<1> QED BY <1>1, <1>2, <1>3, <1>4

LEMMA InitTyping == Y!Init => TypingInv
BY DEF Y!Init, TypingInv, UpStops, DownStops, ShownStops

LEMMA FramesNameRooms ==
    ASSUME TypingInv
    PROVE  /\ \A k \in DOMAIN typistUp : k \in Nat /\ typistUp[k].room \in PageRooms
           /\ \A k \in DOMAIN down : k \in Nat /\ down[k].room \in PageRooms
<1>1. typistUp \in Seq(Frames) /\ down \in Seq(Frames)
  BY DEF TypingInv
<1>2. /\ DOMAIN typistUp = 1 .. Len(typistUp) /\ DOMAIN down = 1 .. Len(down)
      /\ Len(typistUp) \in Nat /\ Len(down) \in Nat
      /\ \A k \in 1 .. Len(typistUp) : typistUp[k] \in Frames
      /\ \A k \in 1 .. Len(down) : down[k] \in Frames
  BY <1>1
<1> QED BY <1>2 DEF Frames

\* No word is sent or arrives, and no excuse is taken back.
LEMMA SameWires ==
    ASSUME TypingInv, UNCHANGED <<typistUp, down>>,
           Excused \subseteq Excused'
    PROVE  /\ UpStops' /\ DownStops'
           /\ UNCHANGED <<currentRoom, attached, typingUsers, unheard>> => ShownStops'
<1>1. UpStops'
  <2> SUFFICES ASSUME NEW k \in DOMAIN typistUp, typistUp[k].type = "start"
               PROVE  \/ typistUp[k].room \in Excused'
                      \/ StopAfter(typistUp, k, typistUp[k].room)
    BY DEF UpStops, StopAfter
  <2> QED BY DEF TypingInv, UpStops
<1>2. DownStops'
  BY FramesNameRooms DEF TypingInv, DownStops, StopAfter, StopIn
<1>3. ASSUME UNCHANGED <<currentRoom, attached, typingUsers, unheard>> PROVE ShownStops'
  BY <1>3 DEF TypingInv, ShownStops, StopIn
<1> QED BY <1>1, <1>2, <1>3

\* A word is sent: that of a start in the room of the timer, or that of an end.
LEMMA WordSent ==
    ASSUME TypingInv, NEW f \in Frames, typistUp' = Append(typistUp, f),
           UNCHANGED <<down, currentRoom, attached, typingUsers, unheard>>,
           \A r \in Excused : r \in Excused' \/ f = Stop(r),
           f.type = "start" => f.room \in Excused'
    PROVE  typistUp' \in Seq(Frames) /\ UpStops' /\ DownStops' /\ ShownStops'
<1> DEFINE s == typistUp
           t == typistUp'
<1>1. /\ t \in Seq(Frames) /\ DOMAIN s = 1 .. Len(s) /\ DOMAIN t = 1 .. Len(s) + 1
      /\ Len(s) \in Nat /\ t[Len(s) + 1] = f
      /\ \A k \in DOMAIN s : k \in DOMAIN t /\ t[k] = s[k]
      /\ \A r : StopIn(s, r) => StopIn(t, r)
      /\ \A r, k : StopAfter(s, k, r) => StopAfter(t, k, r)
      /\ \A r : f = Stop(r) => StopIn(t, r) /\ \A k \in DOMAIN s : StopAfter(t, k, r)
  <2>1. s \in Seq(Frames) /\ t = Append(s, f)
    BY DEF TypingInv
  <2> HIDE DEF s, t
  <2>2. /\ t \in Seq(Frames) /\ DOMAIN s = 1 .. Len(s) /\ DOMAIN t = 1 .. Len(s) + 1
        /\ Len(s) \in Nat /\ t[Len(s) + 1] = f
        /\ \A k \in DOMAIN s : k \in DOMAIN t /\ t[k] = s[k]
    BY <2>1, AppendStops
  <2>3. /\ \A r : StopIn(s, r) => StopIn(t, r)
        /\ \A r, k : StopAfter(s, k, r) => StopAfter(t, k, r)
    BY <2>1, AppendStops
  <2>4. \A r : f = Stop(r) => StopIn(t, r) /\ \A k \in DOMAIN s : StopAfter(t, k, r)
    BY <2>1, AppendStops
  <2> QED BY <2>2, <2>3, <2>4
<1>2. UpStops'
  <2> SUFFICES ASSUME NEW k \in DOMAIN t, t[k].type = "start"
               PROVE  t[k].room \in Excused' \/ StopAfter(t, k, t[k].room)
    BY DEF UpStops, StopAfter
  <2>1. CASE k = Len(s) + 1
    BY <1>1, <2>1
  <2>2. CASE k \in DOMAIN s
    <3>1. s[k].room \in Excused \/ StopAfter(s, k, s[k].room)
      BY <1>1, <2>2 DEF TypingInv, UpStops
    <3>2. s[k].room \in PageRooms
      BY <2>2, FramesNameRooms
    <3> QED BY <1>1, <2>2, <3>1, <3>2
  <2> QED BY <1>1, <2>1, <2>2
<1>3. DownStops'
  <2> SUFFICES ASSUME NEW k \in DOMAIN down, down[k].type = "start"
               PROVE  \/ down[k].room \in Excused'
                      \/ StopAfter(down, k, down[k].room)
                      \/ StopIn(t, down[k].room)
    BY DEF DownStops, StopAfter, StopIn
  <2>1. /\ down[k].room \in PageRooms
        /\ down[k].room \in Excused \/ StopAfter(down, k, down[k].room) \/ StopIn(s, down[k].room)
    BY FramesNameRooms DEF TypingInv, DownStops
  <2> QED BY <1>1, <2>1
<1>4. ShownStops'
  <2> SUFFICES ASSUME typingUsers, attached, ~unheard
               PROVE  currentRoom \in Excused' \/ StopIn(down, currentRoom) \/ StopIn(t, currentRoom)
    BY DEF ShownStops, StopIn
  <2>1. currentRoom \in Excused \/ StopIn(down, currentRoom) \/ StopIn(s, currentRoom)
    BY DEF TypingInv, ShownStops
  <2>2. currentRoom \in PageRooms \cup {NoRoom}
    BY DEF TypingInv
  <2> QED BY <1>1, <2>1, <2>2
<1> QED BY <1>1, <1>2, <1>3, <1>4

\* The server takes a word.  It sends it on, or the end of what was told is excused.
LEMMA WordRelayed == TypingInv /\ Y!handle_typing => TypingInv'
<1> SUFFICES ASSUME TypingInv, Y!handle_typing PROVE TypingInv'
  OBVIOUS
<1> DEFINE s == typistUp
           t == Tail(typistUp)
           f == Head(typistUp)
<1>1. /\ s \in Seq(Frames) /\ s # <<>> /\ down \in Seq(Frames)
      /\ typistUp' = t
      /\ UNCHANGED <<typistRoom, messageInput, typingTimer, currentRoom, attached, typingUsers,
                     unheard>>
  BY DEF TypingInv, Y!handle_typing, Y!watcher
<1>2. /\ t \in Seq(Frames) /\ f \in Frames /\ f = s[1] /\ 1 \in DOMAIN s
      /\ \A k \in DOMAIN t : k \in Nat /\ k + 1 \in DOMAIN s /\ t[k] = s[k + 1]
      /\ \A r : \A k \in Nat : StopAfter(s, k + 1, r) => StopAfter(t, k, r)
      /\ \A r : StopAfter(s, 1, r) => StopIn(t, r)
      /\ \A r : StopIn(s, r) => f = Stop(r) \/ StopIn(t, r)
  <2>1. \A k \in DOMAIN t : k \in Nat
    BY <1>1
  <2> QED BY <1>1, <2>1, TailStops
<1>3. Excused \subseteq Excused'
  BY <1>1 DEF Excused, Y!handle_typing
<1>4. UpStops'
  <2> SUFFICES ASSUME NEW k \in DOMAIN t, t[k].type = "start"
               PROVE  t[k].room \in Excused' \/ StopAfter(t, k, t[k].room)
    BY <1>1 DEF UpStops, StopAfter
  <2>1. s[k + 1].room \in Excused \/ StopAfter(s, k + 1, s[k + 1].room)
    BY <1>2 DEF TypingInv, UpStops
  <2>2. t[k] = s[k + 1] /\ k \in Nat
    BY <1>2
  <2>3. StopAfter(s, k + 1, s[k + 1].room) => StopAfter(t, k, s[k + 1].room)
    BY <1>2, <2>2, Zenon
  <2> HIDE DEF s, t, f
  <2> QED BY <1>3, <2>1, <2>2, <2>3
<1>5. f.room \in PageRooms /\ (f.type = "stop" => f = Stop(f.room)) /\ f.type \in {"start", "stop"}
      /\ \A r : f = Stop(r) => f.type = "stop" /\ r = f.room
  BY <1>2 DEF Frames, Stop
<1>6. CASE f.room \in joined
  <2>1. down' = Append(down, f) /\ UNCHANGED unstopped
    BY <1>6 DEF Y!handle_typing
  <2>2. /\ down' \in Seq(Frames) /\ DOMAIN down = 1 .. Len(down)
        /\ DOMAIN down' = 1 .. Len(down) + 1
        /\ Len(down) \in Nat /\ down'[Len(down) + 1] = f
        /\ \A k \in DOMAIN down : k \in DOMAIN down' /\ down'[k] = down[k]
        /\ \A r : StopIn(down, r) => StopIn(down', r)
        /\ \A r, k : StopAfter(down, k, r) => StopAfter(down', k, r)
        /\ \A r : f = Stop(r) => StopIn(down', r) /\ \A k \in DOMAIN down : StopAfter(down', k, r)
    <3> DEFINE u == down'
    <3>1. u = Append(down, f) /\ down \in Seq(Frames) /\ f \in Frames
      BY <1>1, <1>2, <2>1
    <3> HIDE DEF u, f
    <3>2. /\ u \in Seq(Frames) /\ DOMAIN down = 1 .. Len(down)
          /\ DOMAIN u = 1 .. Len(down) + 1
          /\ Len(down) \in Nat /\ u[Len(down) + 1] = f
          /\ \A k \in DOMAIN down : k \in DOMAIN u /\ u[k] = down[k]
      BY <3>1, AppendStops
    <3>3. /\ \A r : StopIn(down, r) => StopIn(u, r)
          /\ \A r, k : StopAfter(down, k, r) => StopAfter(u, k, r)
      BY <3>1, AppendStops
    <3>4. \A r : f = Stop(r) => StopIn(u, r) /\ \A k \in DOMAIN down : StopAfter(u, k, r)
      BY <3>1, AppendStops
    <3> QED BY <3>2, <3>3, <3>4 DEF u
  <2>3. DownStops'
    <3> SUFFICES ASSUME NEW k \in DOMAIN down', down'[k].type = "start"
                 PROVE  \/ down'[k].room \in Excused'
                        \/ StopAfter(down', k, down'[k].room)
                        \/ StopIn(t, down'[k].room)
      BY <1>1 DEF DownStops, StopAfter, StopIn
    <3>1. CASE k = Len(down) + 1
      <4>1. f.room \in Excused \/ StopAfter(s, 1, f.room)
        BY <1>2, <2>2, <3>1 DEF TypingInv, UpStops
      <4> HIDE DEF s, t, f
      <4> QED BY <1>2, <1>3, <2>2, <3>1, <4>1
    <3>2. CASE k \in DOMAIN down
      <4>1. \/ down[k].room \in Excused
            \/ StopAfter(down, k, down[k].room) \/ StopIn(s, down[k].room)
        BY <2>2, <3>2 DEF TypingInv, DownStops
      <4> HIDE DEF s, t, f
      <4> QED BY <1>2, <1>3, <2>2, <3>2, <4>1
    <3> QED BY <2>2, <3>1, <3>2
  <2>4. ShownStops'
    <3> SUFFICES ASSUME typingUsers, attached, ~unheard
                 PROVE  \/ currentRoom \in Excused'
                        \/ StopIn(down', currentRoom) \/ StopIn(t, currentRoom)
      BY <1>1 DEF ShownStops, StopIn
    <3>1. currentRoom \in Excused \/ StopIn(down, currentRoom) \/ StopIn(s, currentRoom)
      BY DEF TypingInv, ShownStops
    <3> HIDE DEF s, t, f
    <3> QED BY <1>2, <1>3, <2>2, <3>1
  <2> QED BY <1>1, <1>2, <1>4, <2>2, <2>3, <2>4 DEF TypingInv
<1>7. CASE f.room \notin joined
  <2>1. /\ down' = down
        /\ f.type = "stop" /\ Y!Told(f.room) => f.room \in unstopped'
    BY <1>7 DEF Y!handle_typing
  <2>2. DownStops'
    <3> SUFFICES ASSUME NEW k \in DOMAIN down, down[k].type = "start"
                 PROVE  \/ down[k].room \in Excused'
                        \/ StopAfter(down, k, down[k].room)
                        \/ StopIn(t, down[k].room)
      BY <1>1, <2>1 DEF DownStops, StopAfter, StopIn
    <3>1. \/ down[k].room \in Excused
          \/ StopAfter(down, k, down[k].room) \/ StopIn(s, down[k].room)
      BY DEF TypingInv, DownStops
    <3>2. ASSUME f = Stop(down[k].room) PROVE down[k].room \in Excused'
      <4>1. down[k] \in Frames
        BY <1>1
      <4>2. down[k] = [type |-> "start", room |-> down[k].room]
        BY <4>1 DEF Frames
      <4>3. f.room = down[k].room
        BY <1>5, <3>2
      <4>4. Y!Told(f.room)
        BY <4>2, <4>3 DEF Y!Told, Y!Frame
      <4> QED BY <1>5, <2>1, <3>2, <4>3, <4>4 DEF Excused
    <3> HIDE DEF s, t, f
    <3> QED BY <1>2, <1>3, <3>1, <3>2
  <2>3. ShownStops'
    <3> SUFFICES ASSUME typingUsers, attached, ~unheard
                 PROVE  \/ currentRoom \in Excused'
                        \/ StopIn(down, currentRoom) \/ StopIn(t, currentRoom)
      BY <1>1, <2>1 DEF ShownStops, StopIn
    <3>1. currentRoom \in Excused \/ StopIn(down, currentRoom) \/ StopIn(s, currentRoom)
      BY DEF TypingInv, ShownStops
    <3>2. ASSUME f = Stop(currentRoom) PROVE currentRoom \in Excused'
      <4>1. f.room = currentRoom /\ f.type = "stop"
        BY <1>5, <3>2
      <4> QED BY <1>1, <2>1, <4>1 DEF Y!Told, Excused
    <3> HIDE DEF s, t, f
    <3> QED BY <1>2, <1>3, <3>1, <3>2
  <2> QED BY <1>1, <1>2, <1>4, <2>1, <2>2, <2>3 DEF TypingInv
<1> QED BY <1>6, <1>7

\* The watching page takes a word.
LEMMA WordTaken == TypingInv /\ Y!handleTypingMessage => TypingInv'
<1> SUFFICES ASSUME TypingInv, Y!handleTypingMessage PROVE TypingInv'
  OBVIOUS
<1> DEFINE t == Tail(down)
           f == Head(down)
<1>1. /\ down \in Seq(Frames) /\ down # <<>> /\ down' = t
      /\ typingUsers' = IF f.room = currentRoom THEN f.type = "start" ELSE typingUsers
      /\ UNCHANGED <<typistUp, typistRoom, messageInput, typingTimer, currentRoom, attached,
                     unheard, unstopped>>
  BY DEF TypingInv, Y!handleTypingMessage, Y!typist, Y!watcher
<1>2. /\ t \in Seq(Frames) /\ f \in Frames /\ f = down[1] /\ 1 \in DOMAIN down
      /\ \A k \in DOMAIN t : k \in Nat /\ k + 1 \in DOMAIN down /\ t[k] = down[k + 1]
      /\ \A r : \A k \in Nat : StopAfter(down, k + 1, r) => StopAfter(t, k, r)
      /\ \A r : StopAfter(down, 1, r) => StopIn(t, r)
      /\ \A r : StopIn(down, r) => f = Stop(r) \/ StopIn(t, r)
  <2>1. \A k \in DOMAIN t : k \in Nat
    BY <1>1
  <2>2. down \in Seq(Frames) /\ down # <<>>
    BY <1>1
  <2>3. /\ t \in Seq(Frames) /\ f \in Frames /\ f = down[1] /\ 1 \in DOMAIN down
        /\ \A k \in DOMAIN t : k + 1 \in DOMAIN down /\ t[k] = down[k + 1]
    BY <2>2, TailStops
  <2>4. /\ \A r : \A k \in Nat : StopAfter(down, k + 1, r) => StopAfter(t, k, r)
        /\ \A r : StopAfter(down, 1, r) => StopIn(t, r)
        /\ \A r : StopIn(down, r) => f = Stop(r) \/ StopIn(t, r)
    BY <2>2, TailStops
  <2> QED BY <2>1, <2>3, <2>4
<1>3. Excused \subseteq Excused'
  BY <1>1 DEF Excused
<1>4. UpStops'
  BY <1>1, <1>3, FramesNameRooms DEF TypingInv, UpStops, StopAfter
<1>5. DownStops'
  <2> SUFFICES ASSUME NEW k \in DOMAIN t, t[k].type = "start"
               PROVE  \/ t[k].room \in Excused'
                      \/ StopAfter(t, k, t[k].room)
                      \/ StopIn(typistUp, t[k].room)
    BY <1>1 DEF DownStops, StopAfter, StopIn
  <2>1. /\ k + 1 \in DOMAIN down /\ t[k] = down[k + 1] /\ k \in Nat
    BY <1>2
  <2>2. \/ t[k].room \in Excused
        \/ StopAfter(down, k + 1, t[k].room) \/ StopIn(typistUp, t[k].room)
    BY <2>1 DEF TypingInv, DownStops
  <2>3. StopAfter(down, k + 1, t[k].room) => StopAfter(t, k, t[k].room)
    BY <1>2, <2>1, Zenon
  <2> HIDE DEF t, f
  <2> QED BY <1>3, <2>2, <2>3
<1>6. ShownStops'
  <2> SUFFICES ASSUME typingUsers', attached, ~unheard
               PROVE  \/ currentRoom \in Excused'
                      \/ StopIn(t, currentRoom) \/ StopIn(typistUp, currentRoom)
    BY <1>1 DEF ShownStops, StopIn
  <2>1. CASE f.room = currentRoom
    <3>1. f.type = "start"
      BY <1>1, <2>1
    <3>2. \/ currentRoom \in Excused
          \/ StopAfter(down, 1, currentRoom) \/ StopIn(typistUp, currentRoom)
      BY <1>2, <2>1, <3>1 DEF TypingInv, DownStops
    <3> HIDE DEF t, f
    <3> QED BY <1>2, <1>3, <3>2
  <2>2. CASE f.room # currentRoom
    <3>1. typingUsers
      BY <1>1, <2>2
    <3>2. currentRoom \in Excused \/ StopIn(down, currentRoom) \/ StopIn(typistUp, currentRoom)
      BY <3>1 DEF TypingInv, ShownStops
    <3>3. f # Stop(currentRoom)
      BY <2>2 DEF Stop
    <3> HIDE DEF t, f
    <3> QED BY <1>2, <1>3, <3>2, <3>3
  <2> QED BY <2>1, <2>2
<1> QED BY <1>1, <1>2, <1>4, <1>5, <1>6 DEF TypingInv

LEMMA StepTyping == TypingInv /\ [Y!Next]_Y!vars => TypingInv'
<1> SUFFICES ASSUME TypingInv, [Y!Next]_Y!vars PROVE TypingInv'
  OBVIOUS
<1> USE DEF Y!Frame
<1> DEFINE Hearing == <<currentRoom, attached, typingUsers, unheard>>
<1>0. /\ typistUp \in Seq(Frames) /\ down \in Seq(Frames)
      /\ typistRoom \in PageRooms \cup {NoRoom} /\ (messageInput => typistRoom \in PageRooms)
      /\ (typingTimer => messageInput)
      /\ currentRoom \in PageRooms \cup {NoRoom}
  BY DEF TypingInv
<1>a. ASSUME UNCHANGED <<typistUp, down, Hearing>>,
             Excused \subseteq Excused',
             typistRoom' \in PageRooms \cup {NoRoom},
             messageInput' => typistRoom' \in PageRooms,
             typingTimer' => messageInput'
      PROVE  TypingInv'
  <2>1. UpStops' /\ DownStops' /\ ShownStops'
    BY <1>a, SameWires
  <2> QED BY <1>0, <1>a, <2>1 DEF TypingInv
<1>b. ASSUME NEW f \in Frames, typistUp' = Append(typistUp, f), UNCHANGED <<down, Hearing>>,
             \A r \in Excused : r \in Excused' \/ f = Stop(r),
             f.type = "start" => f.room \in Excused',
             typistRoom' \in PageRooms \cup {NoRoom},
             messageInput' => typistRoom' \in PageRooms,
             typingTimer' => messageInput'
      PROVE  TypingInv'
  <2>1. typistUp' \in Seq(Frames) /\ UpStops' /\ DownStops' /\ ShownStops'
    BY <1>b, WordSent
  <2> QED BY <1>0, <1>b, <2>1 DEF TypingInv
<1>1. CASE UNCHANGED Y!vars
  BY <1>0, <1>1, <1>a DEF Y!vars, Y!typist, Y!watcher, Y!wires, Excused
<1>2. CASE Y!handleInputEvent
  <2>1. typistRoom \in PageRooms
    BY <1>0, <1>2 DEF Y!handleInputEvent
  <2>2. /\ UNCHANGED <<down, Hearing, typistRoom, messageInput, unstopped>>
        /\ messageInput /\ typingTimer'
        /\ typistUp' = IF recent THEN typistUp
                       ELSE Append(typistUp, [type |-> "start", room |-> typistRoom])
    BY <1>2 DEF Y!handleInputEvent, Y!watcher
  <2>3. typistRoom \in Excused' /\ Excused \subseteq Excused'
    BY <2>2 DEF Excused
  <2>4. CASE typistUp' = typistUp
    BY <1>0, <1>a, <2>2, <2>3, <2>4
  <2>5. CASE typistUp' = Append(typistUp, [type |-> "start", room |-> typistRoom])
    <3> DEFINE f == [type |-> "start", room |-> typistRoom]
    <3>1. f \in Frames /\ f.room = typistRoom
      BY <2>1 DEF Frames
    <3> HIDE DEF f
    <3> QED BY <1>0, <1>b, <2>2, <2>3, <2>5, <3>1 DEF f
  <2> QED BY <2>2, <2>4, <2>5
<1>3. CASE Y!HalfSecond
  BY <1>0, <1>3, <1>a DEF Y!HalfSecond, Y!watcher, Y!wires, Excused
<1>4. CASE Y!stopTyping
  <2> DEFINE f == [type |-> "stop", room |-> typistRoom]
  <2>1. typistRoom \in PageRooms
    BY <1>0, <1>4 DEF Y!stopTyping
  <2>2. /\ UNCHANGED <<down, Hearing, typistRoom, messageInput>>
        /\ ~typingTimer' /\ unstopped' = unstopped \ {typistRoom}
        /\ typistUp' = Append(typistUp, f)
    BY <1>4 DEF Y!stopTyping, Y!watcher
  <2>3. f \in Frames /\ f = Stop(typistRoom) /\ f.type = "stop"
    BY <2>1 DEF Frames, Stop
  <2>4. \A r \in Excused : r \in Excused' \/ f = Stop(r)
    BY <2>2, <2>3 DEF Excused
  <2> HIDE DEF f
  <2> QED BY <1>0, <1>b, <2>2, <2>3, <2>4
<1>5. ASSUME NEW r \in PageRooms, Y!TypistSelects(r) PROVE TypingInv'
  <2> DEFINE f == [type |-> "stop", room |-> typistRoom]
  <2>1. /\ UNCHANGED <<down, Hearing>> /\ typistRoom' = r /\ ~messageInput' /\ ~typingTimer'
    BY <1>5 DEF Y!TypistSelects, Y!watcher
  <2>2. CASE /\ messageInput
             /\ typistUp' = Append(typistUp, f) /\ unstopped' = unstopped \ {typistRoom}
    <3>1. f \in Frames /\ f = Stop(typistRoom) /\ f.type = "stop"
      BY <1>0, <2>2 DEF Frames, Stop
    <3>2. \A q \in Excused : q \in Excused' \/ f = Stop(q)
      BY <2>2, <3>1 DEF Excused
    <3> HIDE DEF f
    <3> QED BY <1>b, <2>1, <2>2, <3>1, <3>2
  <2>3. CASE /\ UNCHANGED typistUp
             /\ unstopped' = IF typingTimer THEN unstopped \cup {typistRoom} ELSE unstopped
    <3>1. Excused \subseteq Excused'
      BY <2>3 DEF Excused
    <3> QED BY <1>a, <2>1, <2>3, <3>1
  <2> QED BY <1>5, <2>2, <2>3 DEF Y!TypistSelects
<1>6. CASE Y!TypistEnters
  <2>1. /\ UNCHANGED <<typistUp, down, Hearing, typistRoom, typingTimer, unstopped>>
        /\ messageInput' /\ typistRoom # NoRoom
    BY <1>6 DEF Y!TypistEnters, Y!watcher, Y!wires
  <2>2. Excused \subseteq Excused'
    BY <2>1 DEF Excused
  <2> QED BY <1>0, <1>a, <2>1, <2>2
<1>7. CASE Y!TypistGone
  <2>1. /\ UNCHANGED <<down, Hearing>> /\ typistRoom' = NoRoom /\ ~messageInput'
        /\ ~typingTimer' /\ typistUp' = <<>>
        /\ unstopped' = unstopped \cup {typistRoom}
                           \cup {typistUp[n].room : n \in DOMAIN typistUp}
    BY <1>7 DEF Y!TypistGone, Y!watcher
  <2>2. \A q : q \in Excused \/ StopIn(typistUp, q) => q \in Excused'
    <3>1. ASSUME NEW q, StopIn(typistUp, q) PROVE q \in unstopped'
      <4>1. PICK n \in DOMAIN typistUp : typistUp[n] = Stop(q)
        BY <3>1 DEF StopIn
      <4>2. typistUp[n].room = q
        BY <4>1 DEF Stop
      <4> QED BY <2>1, <4>1, <4>2
    <3> QED BY <2>1, <3>1 DEF Excused
  <2>3. UpStops' /\ typistUp' \in Seq(Frames)
    BY <2>1 DEF UpStops
  <2>4. DownStops'
    BY <2>1, <2>2 DEF TypingInv, DownStops, StopAfter
  <2>5. ShownStops'
    BY <2>1, <2>2 DEF TypingInv, ShownStops, StopIn
  <2> QED BY <1>0, <2>1, <2>3, <2>4, <2>5 DEF TypingInv
<1>8. CASE Y!handle_typing
  BY <1>8, WordRelayed
<1>9. CASE Y!Subscribe
  BY <1>0, <1>9, <1>a DEF Y!Subscribe, Y!typist, Y!watcher, Excused
<1>10. ASSUME NEW r \in PageRooms, Y!WatcherSelects(r) PROVE TypingInv'
  <2>1. /\ UNCHANGED <<typistUp, down, typistRoom, messageInput, typingTimer, unstopped>>
        /\ currentRoom' = r /\ ~attached'
    BY <1>10 DEF Y!WatcherSelects, Y!typist
  <2>2. Excused \subseteq Excused'
    BY <2>1 DEF Excused
  <2>3. UpStops' /\ DownStops'
    BY <2>1, <2>2, SameWires
  <2> QED BY <1>0, <2>1, <2>3 DEF TypingInv, ShownStops
<1>11. CASE Y!WatcherEnters
  <2>1. /\ UNCHANGED <<typistUp, down, typistRoom, messageInput, typingTimer, unstopped,
                       currentRoom>>
        /\ ~typingUsers'
    BY <1>11 DEF Y!WatcherEnters, Y!typist
  <2>2. Excused \subseteq Excused'
    BY <2>1 DEF Excused
  <2>3. UpStops' /\ DownStops'
    BY <2>1, <2>2, SameWires
  <2> QED BY <1>0, <2>1, <2>3 DEF TypingInv, ShownStops
<1>12. CASE Y!handleTypingMessage
  BY <1>12, WordTaken
<1>13. CASE Y!WatcherReconnects
  <2>1. /\ UNCHANGED <<typistUp, typistRoom, messageInput, typingTimer, unstopped, currentRoom>>
        /\ down' = <<>> /\ unheard'
    BY <1>13 DEF Y!WatcherReconnects, Y!typist
  <2>2. Excused \subseteq Excused'
    BY <2>1 DEF Excused
  <2>3. UpStops'
    BY <2>1, <2>2 DEF TypingInv, UpStops, StopAfter
  <2> QED BY <1>0, <2>1, <2>3 DEF TypingInv, DownStops, ShownStops
<1> QED
  BY <1>1, <1>2, <1>3, <1>4, <1>5, <1>6, <1>7, <1>8, <1>9, <1>10, <1>11, <1>12, <1>13
  DEF Y!Next

\* Whoever is shown as typing types, or the word of the end is on its way or excused
\* (four43.chat-typing).
THEOREM IndicatorsAreTrue == Y!Spec => []ShownIsTyping
<1>1. TypingInv => ShownIsTyping
  BY DEF TypingInv, ShownStops, Excused, StopIn, Stop, ShownIsTyping, Y!ShownIsTyping, Y!Frame
<1> QED BY InitTyping, StepTyping, <1>1, PTL DEF Y!Spec

-----------------------------------------------------------------------------
(* Backups.                                                                *)

\* A tier for any time n, with its periods as a function p: the k newest archives that are
\* the last ones of their periods.
Last(p, T) == {t \in T : \A u \in T : p[u] = p[t] => u <= t}
Newer(p, T, t) == {u \in Last(p, T) : u > t}
Held(p, k, reach, n, T) ==
    {t \in Last(p, T) : n - t < reach /\ Cardinality(Newer(p, T, t)) < k}

LEMMA GreatestExists ==
    ASSUME NEW S, S # {}, S \subseteq Nat, NEW b \in Nat, \A x \in S : x <= b
    PROVE  \E x \in S : \A y \in S : y <= x
<1> DEFINE D == {b - x : x \in S}
<1>0. \A x \in S : x \in Nat /\ b - x \in Nat
  OBVIOUS
<1>1. D \subseteq Nat /\ D # {}
  BY <1>0
<1>2. \E d \in D : \A e \in D : ~ (<<e, d>> \in OpToRel(<, Nat))
  <2> HIDE DEF D
  <2> QED BY <1>1, WFMin, NatLessThanWellFounded
<1>3. PICK d \in D : \A e \in D : ~ (e < d)
  <2>1. \A d, e \in Nat : e < d => <<e, d>> \in OpToRel(<, Nat)
    BY DEF OpToRel
  <2> HIDE DEF D
  <2> QED BY <1>1, <1>2, <2>1
<1>4. PICK x \in S : d = b - x
  OBVIOUS
<1>5. ASSUME NEW y \in S PROVE y <= x
  <2>1. b - y \in D /\ y \in Nat /\ x \in Nat
    OBVIOUS
  <2>2. ~ (b - y < b - x)
    BY <1>3, <1>4, <2>1
  <2> QED BY <2>1, <2>2
<1> QED BY <1>5

LEMMA LastOfPeriod ==
    ASSUME NEW p, NEW b \in Nat, NEW T \in SUBSET (0 .. b), NEW t \in T
    PROVE  \E u \in Last(p, T) : p[u] = p[t] /\ u >= t
<1> DEFINE S == {u \in T : p[u] = p[t]}
<1>0. \A x \in T : x \in Nat /\ x <= b
  OBVIOUS
<1>1. S # {} /\ S \subseteq Nat /\ \A x \in S : x <= b
  BY <1>0
<1>2. PICK u \in S : \A y \in S : y <= u
  <2> HIDE DEF S
  <2> QED BY <1>1, GreatestExists
<1>3. u \in Last(p, T)
  BY <1>2 DEF Last
<1> QED BY <1>2, <1>3

\* With more archives there are as many newer ones of other periods, or more.
LEMMA NewerGrow ==
    ASSUME NEW p, NEW b \in Nat, NEW T \in SUBSET (0 .. b), NEW S \in SUBSET T, NEW t \in Nat
    PROVE  /\ IsFiniteSet(Newer(p, S, t)) /\ IsFiniteSet(Newer(p, T, t))
           /\ Cardinality(Newer(p, S, t)) \in Nat /\ Cardinality(Newer(p, T, t)) \in Nat
           /\ Cardinality(Newer(p, S, t)) <= Cardinality(Newer(p, T, t))
<1> DEFINE X == Newer(p, S, t)
           Y0 == Newer(p, T, t)
<1>1. IsFiniteSet(0 .. b) /\ X \subseteq 0 .. b /\ Y0 \subseteq 0 .. b
  <2>1. IsFiniteSet(0 .. b)
    BY FS_Interval
  <2>2. X \subseteq T /\ Y0 \subseteq T /\ T \subseteq 0 .. b
    BY DEF Newer, Last
  <2> HIDE DEF X, Y0
  <2> QED BY <2>1, <2>2
<1>2. IsFiniteSet(X) /\ IsFiniteSet(Y0)
  <2> HIDE DEF X, Y0
  <2> QED BY <1>1, FS_Subset
<1>3. \A u \in X : \E v \in Y0 : p[v] = p[u]
  <2> SUFFICES ASSUME NEW u \in X PROVE \E v \in Y0 : p[v] = p[u]
    OBVIOUS
  <2>1. u \in S /\ u \in T /\ u > t
    BY DEF Newer, Last
  <2>2. PICK v \in Last(p, T) : p[v] = p[u] /\ v >= u
    BY <2>1, LastOfPeriod
  <2>3. v \in Nat /\ u \in Nat
    BY <2>1, <2>2 DEF Last
  <2>4. v > t
    BY <2>1, <2>2, <2>3
  <2> QED BY <2>2, <2>4 DEF Newer
<1> DEFINE f == [u \in X |-> CHOOSE v \in Y0 : p[v] = p[u]]
<1>4. \A u \in X : f[u] \in Y0 /\ p[f[u]] = p[u]
  <2> HIDE DEF X, Y0
  <2> QED BY <1>3
<1>5. \A u, v \in X : p[u] = p[v] => u = v
  BY DEF Newer, Last
<1>6. f \in Injection(X, Y0)
  <2>1. f \in [X -> Y0]
    <3> HIDE DEF X, Y0
    <3> QED BY <1>4
  <2>2. \A u, v \in X : f[u] = f[v] => u = v
    <3> HIDE DEF X, Y0, f
    <3> QED BY <1>4, <1>5
  <2> HIDE DEF X, Y0, f
  <2> QED BY <2>1, <2>2 DEF Injection, IsInjective
<1> HIDE DEF X, Y0, f
<1>7. Cardinality(X) \in Nat /\ Cardinality(Y0) \in Nat
  BY <1>2, FS_CardinalityType
<1>8. Cardinality(X) <= Cardinality(Y0)
  BY <1>2, <1>6, FS_Injection
<1> QED BY <1>2, <1>7, <1>8 DEF X, Y0

\* What a tier holds later on, of the archives there are now, it holds now.
LEMMA HeldBefore ==
    ASSUME NEW p, NEW k \in Nat, NEW reach \in Int, NEW b \in Nat,
           NEW T \in SUBSET (0 .. b), NEW S \in SUBSET T,
           NEW n \in Nat, NEW m \in Nat, n <= m
    PROVE  Held(p, k, reach, m, T) \cap S \subseteq Held(p, k, reach, n, S)
<1> SUFFICES ASSUME NEW t \in S, t \in Held(p, k, reach, m, T)
             PROVE  t \in Held(p, k, reach, n, S)
  OBVIOUS
<1>1. t \in Nat /\ t \in Last(p, T) /\ m - t < reach /\ Cardinality(Newer(p, T, t)) < k
  BY DEF Held
<1>2. t \in Last(p, S)
  BY <1>1 DEF Last
<1>3. n - t < reach
  BY <1>1
<1>4. Cardinality(Newer(p, S, t)) < k
  <2>1. /\ Cardinality(Newer(p, S, t)) \in Nat /\ Cardinality(Newer(p, T, t)) \in Nat
        /\ Cardinality(Newer(p, S, t)) <= Cardinality(Newer(p, T, t))
    BY <1>1, NewerGrow
  <2> QED BY <1>1, <2>1
<1> QED BY <1>2, <1>3, <1>4 DEF Held

\* A tier that works on any archives among which are those it holds of all of them
\* holds the same.
LEMMA HeldOfTheRest ==
    ASSUME NEW p, NEW k \in Nat, NEW reach \in Int, NEW b \in Nat,
           NEW T \in SUBSET (0 .. b), NEW A \in SUBSET T, NEW n \in Nat,
           Held(p, k, reach, n, T) \subseteq A
    PROVE  /\ Held(p, k, reach, n, A) \subseteq Held(p, k, reach, n, T)
           /\ Held(p, k, reach, n, T) \subseteq Held(p, k, reach, n, A)
<1>1. Held(p, k, reach, n, T) \subseteq Held(p, k, reach, n, A)
  <2>1. Held(p, k, reach, n, T) \cap A \subseteq Held(p, k, reach, n, A)
    BY HeldBefore, n <= n
  <2> QED BY <2>1
<1>2. ASSUME NEW t \in Held(p, k, reach, n, A) PROVE t \in Held(p, k, reach, n, T)
  <2>1. /\ t \in A /\ t \in Nat /\ t \in Last(p, A) /\ n - t < reach
        /\ Cardinality(Newer(p, A, t)) < k
    BY DEF Held, Last
  <2>2. Newer(p, T, t) \subseteq A
    <3> DEFINE Lost == Newer(p, T, t) \ A
    <3> SUFFICES ASSUME Lost # {} PROVE FALSE
      OBVIOUS
    <3>0. \A x \in T : x \in Nat /\ x <= b
      OBVIOUS
    <3>1. Lost \subseteq Nat /\ \A x \in Lost : x <= b
      BY <3>0 DEF Newer, Last
    <3>2. PICK u \in Lost : \A y \in Lost : y <= u
      <4> HIDE DEF Lost
      <4> QED BY <3>1, GreatestExists
    <3>3. u \in Last(p, T) /\ u > t /\ u \in Nat /\ u \notin A /\ n - u < reach
      BY <2>1, <3>1, <3>2 DEF Newer
    <3>4. ~ (Cardinality(Newer(p, T, u)) < k)
      BY <3>3 DEF Held
    <3>5. Newer(p, T, u) \subseteq Newer(p, A, t)
      <4> SUFFICES ASSUME NEW v \in Newer(p, T, u) PROVE v \in Newer(p, A, t)
        OBVIOUS
      <4>1. v \in Last(p, T) /\ v > u /\ v \in Nat
        BY DEF Newer, Last
      <4>2. v > t
        BY <2>1, <3>3, <4>1
      <4>3. v \in A
        BY <3>2, <3>3, <4>1, <4>2 DEF Newer
      <4> QED BY <4>1, <4>2, <4>3 DEF Newer, Last
    <3>6. /\ IsFiniteSet(Newer(p, A, t))
          /\ Cardinality(Newer(p, A, t)) \in Nat
      BY <2>1, NewerGrow
    <3>7. Cardinality(Newer(p, T, u)) \in Nat
      BY <3>3, NewerGrow
    <3>8. Cardinality(Newer(p, T, u)) <= Cardinality(Newer(p, A, t))
      BY <3>5, <3>6, FS_Subset
    <3> QED BY <2>1, <3>4, <3>6, <3>7, <3>8
  <2>3. t \in Last(p, T)
    <3>1. PICK u \in Last(p, T) : p[u] = p[t] /\ u >= t
      BY <2>1, LastOfPeriod
    <3>2. u \in Nat
      BY <3>1 DEF Last
    <3>3. u = t
      <4> SUFFICES ASSUME u > t PROVE FALSE
        BY <2>1, <3>1, <3>2
      <4>1. u \in A
        BY <2>2, <3>1 DEF Newer
      <4> QED BY <2>1, <3>1, <3>2, <4>1 DEF Last
    <3> QED BY <3>1, <3>3
  <2>4. Cardinality(Newer(p, T, t)) < k
    <3>1. Newer(p, T, t) \subseteq Newer(p, A, t)
      BY <2>2 DEF Newer, Last
    <3>2. /\ IsFiniteSet(Newer(p, A, t)) /\ Cardinality(Newer(p, A, t)) \in Nat
          /\ Cardinality(Newer(p, T, t)) \in Nat
      BY <2>1, NewerGrow
    <3>3. Cardinality(Newer(p, T, t)) <= Cardinality(Newer(p, A, t))
      BY <3>1, <3>2, FS_Subset
    <3> QED BY <2>1, <3>2, <3>3
  <2> QED BY <2>1, <2>3, <2>4 DEF Held
<1> QED BY <1>1, <1>2

\* The three tiers, for any time n.
Number(keep) == IF keep = 0 THEN 1 ELSE keep
DayOf == [t \in Nat |-> B!Day(t)]
WeekOf == [t \in Nat |-> B!Week(t)]
MonthOf == [t \in Nat |-> B!Month(t)]
DayReach == (Daily + 1) * DayTicks
WeekReach == ((Weekly + 1) * WeekDays) * DayTicks
MonthReach == ((Monthly + 1) * MonthDays) * DayTicks
KeptAt(n, T) == Held(DayOf, Number(Daily), DayReach, n, T)
           \cup Held(WeekOf, Number(Weekly), WeekReach, n, T)
           \cup Held(MonthOf, Number(Monthly), MonthReach, n, T)

LEMMA TiersType ==
    /\ Number(Daily) \in Nat /\ Number(Weekly) \in Nat /\ Number(Monthly) \in Nat
    /\ Number(Daily) > 0
    /\ DayReach \in Int /\ WeekReach \in Int /\ MonthReach \in Int
    /\ Longest \in Nat /\ Longest < DayReach
<1>1. \A x, y \in Nat : x * y \in Nat
  OBVIOUS
<1>2. DayReach \in Nat /\ WeekReach \in Nat /\ MonthReach \in Nat
  BY <1>1, BackupsAssumption DEF DayReach, WeekReach, MonthReach
<1>3. Longest < DayReach /\ Longest \in Nat
  BY BackupsAssumption DEF DayReach
<1> QED BY <1>2, <1>3, BackupsAssumption DEF Number

LEMMA SameCardinality == ASSUME NEW S PROVE B!Cardinality(S) = Cardinality(S)
  BY Zenon DEF B!Cardinality, Cardinality

\* What retention keeps, which the model computes from the newest of the periods in reach.
Reached(p, reach, T) == {t \in Last(p, T) : now - t < reach}

HeldInReach(p, k, reach, T) ==
    {t \in Reached(p, reach, T) : Cardinality({u \in Reached(p, reach, T) : u > t}) < k}

LEMMA HeldOfReached ==
    ASSUME now \in Nat, NEW p, NEW k \in Nat, NEW reach \in Int, NEW T \in SUBSET Nat
    PROVE  HeldInReach(p, k, reach, T) = Held(p, k, reach, now, T)
<1> DEFINE R == Reached(p, reach, T)
<1>1. ASSUME NEW t \in R PROVE {u \in R : u > t} = Newer(p, T, t)
  <2>1. \A u \in Last(p, T) : u > t => now - u < reach
    <3>1. t \in Nat /\ now - t < reach
      BY DEF Reached, Last
    <3>2. \A u \in Last(p, T) : u \in Nat
      BY DEF Last
    <3> QED BY <3>1, <3>2
  <2> QED BY <2>1 DEF Reached, Newer
<1>2. Held(p, k, reach, now, T) = {t \in R : Cardinality(Newer(p, T, t)) < k}
  BY DEF Held, Reached
<1> HIDE DEF R
<1>3. Held(p, k, reach, now, T) = {t \in R : Cardinality({u \in R : u > t}) < k}
  BY <1>1, <1>2
<1> QED BY <1>3 DEF R, HeldInReach

LEMMA DayTier ==
    ASSUME now \in Nat, NEW T \in SUBSET Nat
    PROVE  B!Tier(B!Day, Daily, Daily + 1, T) = Held(DayOf, Number(Daily), DayReach, now, T)
<1>1. \A t \in T : DayOf[t] = B!Day(t)
  BY DEF DayOf
<1>2. B!NewestOf(B!Day, T) = Last(DayOf, T)
  BY <1>1 DEF B!NewestOf, Last
<1>3. {t \in B!NewestOf(B!Day, T) : now - t < (Daily + 1) * DayTicks} = Reached(DayOf, DayReach, T)
  BY <1>2 DEF Reached, DayReach
<1>4. B!Tier(B!Day, Daily, Daily + 1, T)
      = HeldInReach(DayOf, Number(Daily), DayReach, T)
  BY <1>3, SameCardinality, Zenon DEF B!Tier, Number, HeldInReach
<1>5. Number(Daily) \in Nat /\ DayReach \in Int
  BY TiersType
<1> QED BY <1>4, <1>5, HeldOfReached

LEMMA WeekTier ==
    ASSUME now \in Nat, NEW T \in SUBSET Nat
    PROVE  B!Tier(B!Week, Weekly, (Weekly + 1) * WeekDays, T) = Held(WeekOf, Number(Weekly), WeekReach, now, T)
<1>1. \A t \in T : WeekOf[t] = B!Week(t)
  BY DEF WeekOf
<1>2. B!NewestOf(B!Week, T) = Last(WeekOf, T)
  BY <1>1 DEF B!NewestOf, Last
<1>3. {t \in B!NewestOf(B!Week, T) : now - t < ((Weekly + 1) * WeekDays) * DayTicks} = Reached(WeekOf, WeekReach, T)
  BY <1>2 DEF Reached, WeekReach
<1>4. B!Tier(B!Week, Weekly, (Weekly + 1) * WeekDays, T)
      = HeldInReach(WeekOf, Number(Weekly), WeekReach, T)
  BY <1>3, SameCardinality, Zenon DEF B!Tier, Number, HeldInReach
<1>5. Number(Weekly) \in Nat /\ WeekReach \in Int
  BY TiersType
<1> QED BY <1>4, <1>5, HeldOfReached

LEMMA MonthTier ==
    ASSUME now \in Nat, NEW T \in SUBSET Nat
    PROVE  B!Tier(B!Month, Monthly, (Monthly + 1) * MonthDays, T) = Held(MonthOf, Number(Monthly), MonthReach, now, T)
<1>1. \A t \in T : MonthOf[t] = B!Month(t)
  BY DEF MonthOf
<1>2. B!NewestOf(B!Month, T) = Last(MonthOf, T)
  BY <1>1 DEF B!NewestOf, Last
<1>3. {t \in B!NewestOf(B!Month, T) : now - t < ((Monthly + 1) * MonthDays) * DayTicks} = Reached(MonthOf, MonthReach, T)
  BY <1>2 DEF Reached, MonthReach
<1>4. B!Tier(B!Month, Monthly, (Monthly + 1) * MonthDays, T)
      = HeldInReach(MonthOf, Number(Monthly), MonthReach, T)
  BY <1>3, SameCardinality, Zenon DEF B!Tier, Number, HeldInReach
<1>5. Number(Monthly) \in Nat /\ MonthReach \in Int
  BY TiersType
<1> QED BY <1>4, <1>5, HeldOfReached

LEMMA KeptIsKeptAt ==
    ASSUME now \in Nat, NEW T \in SUBSET Nat
    PROVE  B!Kept(T) = KeptAt(now, T)
<1>1. B!Kept(T) = B!Tier(B!Day, Daily, Daily + 1, T)
             \cup B!Tier(B!Week, Weekly, (Weekly + 1) * WeekDays, T)
             \cup B!Tier(B!Month, Monthly, (Monthly + 1) * MonthDays, T)
  BY Zenon DEF B!Kept
<1> QED BY <1>1, DayTier, WeekTier, MonthTier DEF KeptAt

LEMMA KeptBefore ==
    ASSUME NEW b \in Nat, NEW T \in SUBSET (0 .. b), NEW S \in SUBSET T,
           NEW n \in Nat, NEW m \in Nat, n <= m
    PROVE  KeptAt(m, T) \cap S \subseteq KeptAt(n, S)
<1>0. /\ Number(Daily) \in Nat /\ Number(Weekly) \in Nat /\ Number(Monthly) \in Nat
      /\ DayReach \in Int /\ WeekReach \in Int /\ MonthReach \in Int
  BY TiersType
<1>1. Held(DayOf, Number(Daily), DayReach, m, T) \cap S
      \subseteq Held(DayOf, Number(Daily), DayReach, n, S)
  BY <1>0, HeldBefore, Zenon
<1>2. Held(WeekOf, Number(Weekly), WeekReach, m, T) \cap S
      \subseteq Held(WeekOf, Number(Weekly), WeekReach, n, S)
  BY <1>0, HeldBefore, Zenon
<1>3. Held(MonthOf, Number(Monthly), MonthReach, m, T) \cap S
      \subseteq Held(MonthOf, Number(Monthly), MonthReach, n, S)
  BY <1>0, HeldBefore, Zenon
<1> QED BY <1>1, <1>2, <1>3 DEF KeptAt

LEMMA KeptOfTheRest ==
    ASSUME NEW b \in Nat, NEW T \in SUBSET (0 .. b), NEW A \in SUBSET T,
           NEW n \in Nat, KeptAt(n, T) \subseteq A
    PROVE  KeptAt(n, A) = KeptAt(n, T)
<1>0. /\ Number(Daily) \in Nat /\ Number(Weekly) \in Nat /\ Number(Monthly) \in Nat
      /\ DayReach \in Int /\ WeekReach \in Int /\ MonthReach \in Int
  BY TiersType
<1>a. /\ Held(DayOf, Number(Daily), DayReach, n, T) \subseteq A
      /\ Held(WeekOf, Number(Weekly), WeekReach, n, T) \subseteq A
      /\ Held(MonthOf, Number(Monthly), MonthReach, n, T) \subseteq A
  BY DEF KeptAt
<1>1. /\ Held(DayOf, Number(Daily), DayReach, n, A) \subseteq Held(DayOf, Number(Daily), DayReach, n, T)
      /\ Held(DayOf, Number(Daily), DayReach, n, T) \subseteq Held(DayOf, Number(Daily), DayReach, n, A)
  BY <1>0, <1>a, HeldOfTheRest, Zenon
<1>2. /\ Held(WeekOf, Number(Weekly), WeekReach, n, A) \subseteq Held(WeekOf, Number(Weekly), WeekReach, n, T)
      /\ Held(WeekOf, Number(Weekly), WeekReach, n, T) \subseteq Held(WeekOf, Number(Weekly), WeekReach, n, A)
  BY <1>0, <1>a, HeldOfTheRest, Zenon
<1>3. /\ Held(MonthOf, Number(Monthly), MonthReach, n, A) \subseteq Held(MonthOf, Number(Monthly), MonthReach, n, T)
      /\ Held(MonthOf, Number(Monthly), MonthReach, n, T) \subseteq Held(MonthOf, Number(Monthly), MonthReach, n, A)
  BY <1>0, <1>a, HeldOfTheRest, Zenon
<1> QED BY <1>1, <1>2, <1>3 DEF KeptAt

LEMMA KeptIsThere == ASSUME NEW n, NEW T PROVE KeptAt(n, T) \subseteq T
  BY DEF KeptAt, Held, Last

\* The newest archive is kept while the daily tier reaches it.
LEMMA NewestIsKept ==
    ASSUME NEW T \in SUBSET Nat, NEW t \in T, \A u \in T : u <= t,
           NEW n \in Nat, n <= t + Longest
    PROVE  t \in KeptAt(n, T)
<1>1. t \in Nat /\ n - t < DayReach
  BY TiersType
<1>2. t \in Last(DayOf, T)
  BY DEF Last
<1>3. Newer(DayOf, T, t) = {}
  <2> SUFFICES ASSUME NEW u \in Newer(DayOf, T, t) PROVE FALSE
    OBVIOUS
  <2>1. u \in T /\ u > t
    BY DEF Newer, Last
  <2> QED BY <2>1
<1>4. Cardinality(Newer(DayOf, T, t)) < Number(Daily)
  BY <1>3, TiersType, FS_EmptySet
<1> QED BY <1>1, <1>2, <1>4 DEF KeptAt, Held

-----------------------------------------------------------------------------
\* What will be left when the job that runs has ended.
Survivors == IF job.at = "pruning" THEN archives \ job.doomed ELSE archives

\* Whatever a later retention would keep of all that were ever begun is still there.
NothingLost ==
    deleted = {} => \A m \in Nat : m >= now => KeptAt(m, taken) \subseteq Survivors

JobInv ==
    /\ job \in [at : {"idle", "copying", "pruning"}, by : {"nobody", "scheduler", "admin"},
                begun : Int, doomed : SUBSET Nat, pruned : Int]
    /\ job.at # "idle" => /\ job.begun \in taken /\ \A t \in taken : t <= job.begun
                          /\ now <= job.begun + Longest
    /\ job.at = "pruning" => /\ latest = job.begun /\ job.begun \notin job.doomed
                             /\ job.doomed \subseteq taken /\ job.pruned <= now

\* While retention is at work on the day it began on, what it leaves is what it would
\* leave of all that were ever begun.
PrunesRight ==
    job.at = "pruning" /\ job.pruned = now /\ deleted = {} =>
        archives \ job.doomed = KeptAt(now, taken)

BakTimes ==
    /\ now \in Nat /\ \A t \in taken : t \in Nat /\ t <= now
    /\ archives \subseteq taken /\ latest \in taken \cup {-1}

BakInv == BakTimes /\ JobInv /\ B!LatestIsThere /\ NothingLost /\ PrunesRight

LEMMA BakInit == ASSUME B!Init PROVE BakInv
<1> USE DEF B!Init
<1>1. BakTimes
  BY DEF BakTimes, B!Never
<1>2. JobInv
  BY DEF JobInv, B!Idle, B!Never
<1>3. B!LatestIsThere
  BY DEF B!LatestIsThere
<1>4. NothingLost
  BY KeptIsThere DEF NothingLost
<1>5. PrunesRight
  BY DEF PrunesRight, B!Idle
<1> QED BY <1>1, <1>2, <1>3, <1>4, <1>5 DEF BakInv

LEMMA TickKeeps == ASSUME BakInv, B!Tick PROVE BakInv'
<1> USE DEF B!Tick, BakInv, B!past
<1>1. BakTimes'
  BY DEF BakTimes
<1>2. JobInv'
  BY BackupsAssumption DEF JobInv, BakTimes, B!Idle
<1>3. B!LatestIsThere'
  BY DEF B!LatestIsThere
<1>4. NothingLost'
  BY DEF NothingLost, Survivors, BakTimes
<1>5. PrunesRight'
  BY DEF PrunesRight, JobInv, BakTimes
<1> QED BY <1>1, <1>2, <1>3, <1>4, <1>5

LEMMA BeginKeeps ==
    ASSUME BakInv, NEW by \in {"scheduler", "admin"}, B!Begin(by),
           UNCHANGED <<now, latest, deleted>>
    PROVE  BakInv'
<1> USE DEF B!Begin, BakInv
<1>0. now \notin taken /\ job.at = "idle" /\ job'.at = "copying"
  BY DEF B!Idle
<1>1. BakTimes'
  BY DEF BakTimes
<1>2. JobInv'
  <2>1. job' = [at |-> "copying", by |-> by, begun |-> now, doomed |-> {}, pruned |-> -1]
    BY DEF B!Idle, B!Never
  <2>2. job'.at = "copying" /\ job'.begun = now /\ taken' = taken \cup {now} /\ now' = now
    BY <2>1
  <2>3. now \in Int /\ now <= now + Longest /\ \A t \in taken' : t <= now
    BY <2>2, BackupsAssumption DEF BakTimes
  <2> HIDE DEF B!Begin, BakInv
  <2>4. job' \in [at : {"idle", "copying", "pruning"}, by : {"nobody", "scheduler", "admin"},
                  begun : Int, doomed : SUBSET Nat, pruned : Int]
    BY <2>1, <2>3
  <2> QED BY <2>2, <2>3, <2>4 DEF JobInv
<1>3. B!LatestIsThere'
  BY <1>0 DEF B!LatestIsThere, BakTimes, B!Never
<1>4. NothingLost'
  <2> SUFFICES ASSUME deleted = {}, NEW m \in Nat, m >= now
               PROVE  KeptAt(m, taken') \subseteq archives'
    BY <1>0 DEF NothingLost, Survivors
  <2>1. KeptAt(m, taken') \cap taken \subseteq KeptAt(m, taken)
    <3>1. taken' \in SUBSET (0 .. now) /\ taken \in SUBSET taken' /\ now \in Nat /\ m <= m
      BY DEF BakTimes
    <3> QED BY <3>1, KeptBefore
  <2>2. KeptAt(m, taken) \subseteq archives
    BY <1>0 DEF NothingLost, Survivors
  <2>3. KeptAt(m, taken') \subseteq taken'
    BY KeptIsThere
  <2> QED BY <2>1, <2>2, <2>3
<1>5. PrunesRight'
  BY <1>0 DEF PrunesRight
<1> QED BY <1>1, <1>2, <1>3, <1>4, <1>5

\* A job that ends takes nothing away.
LEMMA EndKeeps ==
    ASSUME BakInv, job' = B!Idle,
           UNCHANGED <<now, archives, partial, taken, latest, deleted>>
    PROVE  BakInv'
<1> USE DEF BakInv
<1>0. job'.at = "idle"
  BY DEF B!Idle
<1>1. BakTimes'
  BY DEF BakTimes
<1>2. JobInv'
  BY DEF JobInv, B!Idle, B!Never
<1>3. B!LatestIsThere'
  BY DEF B!LatestIsThere
<1>4. NothingLost'
  BY <1>0 DEF NothingLost, Survivors
<1>5. PrunesRight'
  BY <1>0 DEF PrunesRight
<1> QED BY <1>1, <1>2, <1>3, <1>4, <1>5

LEMMA FinishKeeps == ASSUME BakInv, B!Finish PROVE BakInv'
<1> USE DEF B!Finish, BakInv
<1>a. CASE job.begun \notin archives
  BY <1>a, EndKeeps DEF B!End
<1>b. CASE job.begun \in archives
  <2> DEFINE doomed == archives \ KeptAt(now, archives)
  <2>0. archives \in SUBSET Nat /\ now \in Nat
    BY DEF BakTimes
  <2>1. /\ job' = [job EXCEPT !.at = "pruning", !.doomed = doomed, !.pruned = now]
        /\ partial' = partial \ {job.begun} /\ latest' = job.begun
        /\ UNCHANGED <<now, archives, taken, deleted>>
    BY <1>b, <2>0, KeptIsKeptAt
  <2>2. /\ job'.at = "pruning" /\ job'.doomed = doomed /\ job'.pruned = now
        /\ job'.begun = job.begun /\ job.at = "copying"
    BY <2>1 DEF JobInv
  <2>3. job.begun \in taken /\ now <= job.begun + Longest /\ \A t \in taken : t <= job.begun
    BY <2>2 DEF JobInv
  <2>4. job.begun \in KeptAt(now, archives)
    <3>1. \A t \in archives : t <= job.begun
      BY <2>3 DEF BakTimes
    <3> QED BY <1>b, <2>0, <2>3, <3>1, NewestIsKept
  <2>5. archives' \ doomed = KeptAt(now, archives)
    BY <2>1, KeptIsThere
  <2>6. doomed \in SUBSET Nat /\ doomed \subseteq taken
    BY <2>0 DEF BakTimes
  <2> HIDE DEF doomed, B!Finish
  <2>7. BakTimes'
    BY <2>1, <2>3 DEF BakTimes
  <2>8. JobInv'
    <3>1. job' \in [at : {"idle", "copying", "pruning"}, by : {"nobody", "scheduler", "admin"},
                    begun : Int, doomed : SUBSET Nat, pruned : Int]
      <4>1. job' = [at |-> "pruning", by |-> job.by, begun |-> job.begun, doomed |-> doomed,
                    pruned |-> now]
        BY <2>1 DEF JobInv
      <4>2. job.by \in {"nobody", "scheduler", "admin"} /\ job.begun \in Int /\ now \in Int
        BY <2>0 DEF JobInv
      <4> QED BY <2>6, <4>1, <4>2
    <3>2. job.begun \notin doomed
      BY <2>4, <1>b DEF doomed
    <3> QED BY <2>0, <2>1, <2>2, <2>3, <2>6, <3>1, <3>2 DEF JobInv
  <2>9. B!LatestIsThere'
    BY <1>b, <2>1 DEF B!LatestIsThere
  <2>10. ASSUME deleted = {} PROVE \A m \in Nat : m >= now => KeptAt(m, taken) \subseteq KeptAt(now, archives)
    <3> SUFFICES ASSUME NEW m \in Nat, m >= now
                 PROVE  KeptAt(m, taken) \subseteq KeptAt(now, archives)
      OBVIOUS
    <3>1. KeptAt(m, taken) \subseteq archives
      BY <2>2, <2>10 DEF NothingLost, Survivors
    <3>2. KeptAt(m, taken) \cap archives \subseteq KeptAt(now, archives)
      <4>1. taken \in SUBSET (0 .. now) /\ archives \in SUBSET taken /\ now <= m
        BY DEF BakTimes
      <4> QED BY <2>0, <4>1, KeptBefore
    <3> QED BY <3>1, <3>2
  <2>11. NothingLost'
    BY <2>1, <2>2, <2>5, <2>10 DEF NothingLost, Survivors
  <2>12. PrunesRight'
    <3> SUFFICES ASSUME deleted = {} PROVE KeptAt(now, archives) = KeptAt(now, taken)
      BY <2>1, <2>2, <2>5 DEF PrunesRight
    <3>1. KeptAt(now, taken) \subseteq archives
      BY <2>0, <2>2 DEF NothingLost, Survivors
    <3>2. taken \in SUBSET (0 .. now) /\ archives \in SUBSET taken
      BY <2>0 DEF BakTimes
    <3> QED BY <2>0, <3>1, <3>2, KeptOfTheRest
  <2> QED BY <2>7, <2>8, <2>9, <2>11, <2>12
<1> QED BY <1>a, <1>b

LEMMA PruneKeeps == ASSUME BakInv, B!Prune PROVE BakInv'
<1> USE DEF B!Prune, BakInv
<1>0. job.at = "pruning" /\ UNCHANGED <<now, taken, latest, deleted>>
  BY DEF B!past
<1> DEFINE t == B!Max(job.doomed)
<1>a. CASE job.doomed = {} \/ t \notin archives
  BY <1>0, <1>a, EndKeeps DEF B!End
<1>b. CASE job.doomed # {} /\ t \in archives
  <2>1. archives' = archives \ {t} /\ partial' = partial \ {t}
        /\ job' = [job EXCEPT !.doomed = @ \ {t}]
    BY <1>b
  <2>2. t \in job.doomed
    <3>1. job.doomed \subseteq Nat /\ now \in Nat /\ \A x \in job.doomed : x <= now
      BY <1>0 DEF JobInv, BakTimes
    <3>2. PICK x \in job.doomed : \A y \in job.doomed : y <= x
      BY <1>b, <3>1, GreatestExists
    <3>3. \A y \in job.doomed : x >= y
      BY <3>1, <3>2
    <3> QED BY <3>3 DEF B!Max
  <2> HIDE DEF t, B!Prune
  <2>3. /\ job'.at = "pruning" /\ job'.doomed = job.doomed \ {t}
        /\ job'.begun = job.begun /\ job'.pruned = job.pruned
    BY <1>0, <2>1 DEF JobInv
  <2>4. archives' \ job'.doomed = archives \ job.doomed
    BY <2>1, <2>2, <2>3
  <2>5. BakTimes'
    BY <1>0, <2>1 DEF BakTimes
  <2>6. JobInv'
    <3>1. job' \in [at : {"idle", "copying", "pruning"}, by : {"nobody", "scheduler", "admin"},
                    begun : Int, doomed : SUBSET Nat, pruned : Int]
      BY <2>1 DEF JobInv
    <3> QED BY <1>0, <2>3, <3>1 DEF JobInv
  <2>7. B!LatestIsThere'
    BY <1>0, <2>1, <2>2 DEF B!LatestIsThere, JobInv
  <2>8. NothingLost'
    BY <1>0, <2>3, <2>4 DEF NothingLost, Survivors
  <2>9. PrunesRight'
    BY <1>0, <2>3, <2>4 DEF PrunesRight
  <2> QED BY <2>5, <2>6, <2>7, <2>8, <2>9
<1> QED BY <1>a, <1>b

LEMMA DeleteKeeps ==
    ASSUME BakInv, NEW t \in B!Times, B!delete_backup(t) PROVE BakInv'
<1> USE DEF B!delete_backup, BakInv
<1>1. BakTimes'
  BY DEF BakTimes
<1>2. JobInv'
  BY DEF JobInv
<1>3. B!LatestIsThere'
  BY DEF B!LatestIsThere
<1>4. NothingLost'
  BY DEF NothingLost
<1>5. PrunesRight'
  BY DEF PrunesRight
<1> QED BY <1>1, <1>2, <1>3, <1>4, <1>5

\* The other steps change nothing that the invariant is about.
LEMMA OthersKeep ==
    ASSUME BakInv, UNCHANGED <<now, archives, partial, job, taken, latest, deleted>>
    PROVE  BakInv'
  BY DEF BakInv, BakTimes, JobInv, B!LatestIsThere, NothingLost, Survivors, PrunesRight

LEMMA BakStep == ASSUME BakInv, [B!Next]_(B!vars) PROVE BakInv'
<1> USE DEF B!past
<1>1. CASE B!Tick
  BY <1>1, TickKeeps
<1>2. CASE B!Wake
  BY <1>2, OthersKeep DEF B!Wake
<1>3. CASE B!RunScheduled
  BY <1>3, BeginKeeps DEF B!RunScheduled
<1>4. CASE B!RunManual
  BY <1>4, BeginKeeps DEF B!RunManual
<1>5. CASE B!Finish
  BY <1>5, FinishKeeps
<1>6. CASE B!Fail
  BY <1>6, EndKeeps DEF B!Fail, B!End
<1>7. CASE B!Prune
  BY <1>7, PruneKeeps
<1>8. CASE \E t \in B!Times : B!delete_backup(t)
  BY <1>8, DeleteKeeps
<1>9. CASE B!update_backup_config
  BY <1>9, OthersKeep DEF B!update_backup_config
<1>10. CASE B!Restart
  BY <1>10, EndKeeps DEF B!Restart
<1>11. CASE UNCHANGED B!vars
  BY <1>11, OthersKeep DEF B!vars
<1> QED BY <1>1, <1>2, <1>3, <1>4, <1>5, <1>6, <1>7, <1>8, <1>9, <1>10, <1>11 DEF B!Next

LEMMA BakInvHolds == B!Spec => []BakInv
  BY BakInit, BakStep, PTL DEF B!Spec

\* The last backup that succeeded stays there, however failures, restarts, settings and
\* deletions of other archives were interleaved with jobs (create_backup).
THEOREM BackupsStay == B!Spec => []LatestIsThere
<1>1. BakInv => LatestIsThere
  BY DEF BakInv, LatestIsThere
<1> QED BY <1>1, BakInvHolds, PTL

\* Retention leaves what it would leave of every archive ever begun, for any calendar and
\* any numbers of archives to keep (_apply_retention_policy).
THEOREM RetentionIsOfAll == B!Spec => []RetentionForgetsNothing
<1>1. BakInv => RetentionForgetsNothing
  <2> SUFFICES ASSUME BakInv PROVE RetentionForgetsNothing
    OBVIOUS
  <2>1. taken \in SUBSET Nat /\ now \in Nat
    BY DEF BakInv, BakTimes
  <2>2. B!Kept(taken) = KeptAt(now, taken)
    BY <2>1, KeptIsKeptAt
  <2> QED BY <2>2 DEF BakInv, PrunesRight, RetentionForgetsNothing, B!RetentionForgetsNothing
<1> QED BY <1>1, BakInvHolds, PTL

-----------------------------------------------------------------------------
(* The loop of backups.                                                    *)

\* The schedule: the times it names, and what the backups of admins can hold the loop up by.
Due(e) == e * DayTicks + hour
HeldUp(m) == m * Longest

LEMMA DueFacts ==
    ASSUME hour \in Int, DayTicks > 0
    PROVE  /\ \A e \in Int : Due(e) \in Int /\ Due(e + 1) = Due(e) + DayTicks
           /\ \A a, b \in Int : a < b => Due(a) + DayTicks <= Due(b)
           /\ \A a, b \in Int : Due(a) < Due(b) + DayTicks => a <= b
<1>0. DayTicks \in Nat
  BY BackupsAssumption
<1>1. ASSUME NEW e \in Int PROVE Due(e) \in Int /\ Due(e + 1) = Due(e) + DayTicks
  BY <1>0 DEF Due
<1>2. ASSUME NEW a \in Int, NEW b \in Int, a < b PROVE Due(a) + DayTicks <= Due(b)
  <2>1. PICK n \in Nat : b = a + 1 + n
    <3>1. b - a - 1 \in Nat /\ b = a + 1 + (b - a - 1)
      BY <1>2
    <3> QED BY <3>1
  <2>2. b * DayTicks = a * DayTicks + DayTicks + n * DayTicks
    BY <1>0, <2>1
  <2>3. n * DayTicks >= 0 /\ a * DayTicks \in Int /\ n * DayTicks \in Int
    BY <1>0
  <2> QED BY <1>0, <2>2, <2>3 DEF Due
<1>3. ASSUME NEW a \in Int, NEW b \in Int, Due(a) < Due(b) + DayTicks PROVE a <= b
  <2>1. ~ (b < a)
    <3> SUFFICES ASSUME b < a PROVE FALSE
      OBVIOUS
    <3>1. Due(b) + DayTicks <= Due(a)
      BY <1>2
    <3> QED BY <1>0, <1>1, <1>3, <3>1
  <2> QED BY <2>1
<1> QED BY <1>1, <1>2, <1>3

LEMMA HeldUpFacts ==
    ASSUME (MaxManual + 1) * Longest < DayTicks
    PROVE  /\ DayTicks > 0
           /\ \A m \in 0 .. MaxManual :
                 HeldUp(m) \in Nat /\ HeldUp(m) + Longest < DayTicks
                 /\ HeldUp(m + 1) = HeldUp(m) + Longest
<1>0. Longest \in Nat /\ MaxManual \in Nat /\ DayTicks \in Nat
  BY BackupsAssumption
<1>1. ASSUME NEW m \in 0 .. MaxManual
      PROVE  HeldUp(m) \in Nat /\ HeldUp(m) + Longest < DayTicks
             /\ HeldUp(m + 1) = HeldUp(m) + Longest
  <2>1. PICK n \in Nat : MaxManual = m + n
    <3>1. MaxManual - m \in Nat /\ MaxManual = m + (MaxManual - m)
      BY <1>0
    <3> QED BY <3>1
  <2>2. (MaxManual + 1) * Longest = m * Longest + Longest + n * Longest
    BY <1>0, <2>1
  <2>3. n * Longest \in Nat /\ m * Longest \in Nat
    BY <1>0
  <2>4. (m + 1) * Longest = m * Longest + Longest
    BY <1>0
  <2> QED BY <1>0, <2>2, <2>3, <2>4 DEF HeldUp
<1>2. (MaxManual + 1) * Longest \in Nat
  BY <1>0
<1> QED BY <1>0, <1>1, <1>2

\* The next time of the schedule is the first that is yet to come.
LEMMA TargetIsNext ==
    ASSUME now \in Nat, hour \in 0 .. DayTicks - 1
    PROVE  \E e \in Int : /\ B!NextTarget(hour) = Due(e + 1)
                          /\ Due(e) <= now /\ now < Due(e + 1)
<1>0. DayTicks \in Nat /\ DayTicks > 0 /\ hour \in Int /\ 0 <= hour /\ hour < DayTicks
  BY BackupsAssumption
<1> DEFINE q == now \div DayTicks
<1>1. q \in Int /\ q * DayTicks <= now /\ now < q * DayTicks + DayTicks
  BY <1>0
<1>2. B!NextTarget(hour) = IF q * DayTicks + hour <= now THEN q * DayTicks + hour + DayTicks
                           ELSE q * DayTicks + hour
  BY DEF B!NextTarget, B!Day
<1> HIDE DEF q
<1>3. Due(q) = q * DayTicks + hour /\ Due(q) \in Int /\ Due(q + 1) = Due(q) + DayTicks
      /\ Due(q) = Due(q - 1) + DayTicks
  <2>1. q - 1 \in Int /\ (q - 1) + 1 = q
    BY <1>1
  <2> QED BY <1>0, <1>1, <2>1, DueFacts DEF Due
<1>4. CASE q * DayTicks + hour <= now
  BY <1>0, <1>1, <1>2, <1>3, <1>4
<1>5. CASE ~ (q * DayTicks + hour <= now)
  <2>1. q - 1 \in Int /\ (q - 1) + 1 = q
    BY <1>1
  <2>2. Due(q - 1) \in Int
    BY <1>0, <2>1, DueFacts
  <2>3. Due(q - 1) <= now /\ now < Due(q) /\ B!NextTarget(hour) = Due(q)
    BY <1>0, <1>1, <1>2, <1>3, <1>5, <2>2
  <2> QED BY <2>1, <2>3
<1> QED BY <1>4, <1>5

\* The attempts from one time of the schedule to the next.
Attempted(k) == {t \in attempts : Due(k) <= t /\ t < Due(k + 1)}

\* The time it would be without the backups of admins: it does not pass what the loop
\* waits for.
Unheld == IF job.by = "admin" THEN job.begun - HeldUp(manual - 1) ELSE now - HeldUp(manual)

\* The loop has seen to the times up to the e-th, and is on its way to the next.
SeenTo(e) ==
    /\ Due(e) <= now /\ steady < Due(e + 1)
    /\ \A k \in Int : steady < Due(k) /\ k <= e => Cardinality(Attempted(k)) = 1
    /\ \A t \in attempts : t < Due(e + 1)
    /\ loop = "asleep" => until = Due(e + 1) /\ Unheld <= until
    /\ loop = "running" => until = Due(e) /\ job.begun <= until + HeldUp(manual)
    /\ loop = "resting" => until <= now /\ Unheld <= Due(e) + Longest

LoopTypes ==
    /\ hour \in Hours /\ until \in Int /\ manual \in 0 .. MaxManual
    /\ attempts \subseteq taken
    /\ loop \in {"off", "asleep", "running", "resting"}
    /\ loop = "running" <=> job.by = "scheduler"
    /\ job.by = "nobody" <=> job.at = "idle"
    /\ job.by = "admin" => manual > 0

LoopInv ==
    /\ LoopTypes
    /\ steady # -1 =>
          steady \in Nat /\ steady <= now /\ enabled /\ loop # "off" /\ \E e \in Int : SeenTo(e)

\* What the steps need of the clock and the job.
LEMMA LoopFacts ==
    ASSUME (MaxManual + 1) * Longest < DayTicks, BakInv, LoopTypes
    PROVE  /\ now \in Nat /\ \A t \in attempts : t \in Nat /\ t <= now
           /\ hour \in Int /\ hour \in 0 .. DayTicks - 1
           /\ job.begun \in Int /\ (job.at # "idle" => job.begun <= now /\ now <= job.begun + Longest)
           /\ job.by \in {"nobody", "scheduler", "admin"}
           /\ Longest \in Nat /\ MaxManual \in Nat /\ DayTicks \in Nat /\ DayTicks > 0
           /\ HeldUp(manual) \in Nat /\ HeldUp(manual) + Longest < DayTicks
           /\ manual > 0 => HeldUp(manual - 1) \in Nat
                            /\ HeldUp(manual) = HeldUp(manual - 1) + Longest
           /\ Unheld \in Int /\ now <= Unheld + HeldUp(manual)
           /\ \A e \in Int : Due(e) \in Int /\ Due(e + 1) = Due(e) + DayTicks
<1>1. now \in Nat /\ \A t \in attempts : t \in Nat /\ t <= now
  BY DEF BakInv, BakTimes, LoopTypes
<1>2. hour \in Int /\ hour \in 0 .. DayTicks - 1 /\ manual \in 0 .. MaxManual
      /\ Longest \in Nat /\ MaxManual \in Nat /\ DayTicks \in Nat
  BY BackupsAssumption DEF LoopTypes
<1>3. job.begun \in Int /\ (job.at # "idle" => job.begun <= now /\ now <= job.begun + Longest)
      /\ job.by \in {"nobody", "scheduler", "admin"}
  BY DEF BakInv, JobInv, BakTimes
<1>4. DayTicks > 0 /\ HeldUp(manual) \in Nat /\ HeldUp(manual) + Longest < DayTicks
  BY <1>2, HeldUpFacts
<1>5. manual > 0 => HeldUp(manual - 1) \in Nat /\ HeldUp(manual) = HeldUp(manual - 1) + Longest
  <2> SUFFICES ASSUME manual > 0
               PROVE  HeldUp(manual - 1) \in Nat /\ HeldUp(manual) = HeldUp(manual - 1) + Longest
    OBVIOUS
  <2>1. manual - 1 \in 0 .. MaxManual /\ (manual - 1) + 1 = manual
    BY <1>2
  <2> QED BY <2>1, HeldUpFacts
<1>6. \A e \in Int : Due(e) \in Int /\ Due(e + 1) = Due(e) + DayTicks
  BY <1>2, <1>4, DueFacts
<1>7. Unheld \in Int /\ now <= Unheld + HeldUp(manual)
  <2>1. CASE job.by = "admin"
    <3>1. Unheld = job.begun - HeldUp(manual - 1) /\ manual > 0 /\ now <= job.begun + Longest
      BY <1>3, <2>1 DEF LoopTypes, Unheld
    <3> QED BY <1>1, <1>2, <1>3, <1>4, <1>5, <3>1
  <2>2. CASE job.by # "admin"
    <3>1. Unheld = now - HeldUp(manual)
      BY <2>2 DEF Unheld
    <3> QED BY <1>1, <1>4, <3>1
  <2> QED BY <2>1, <2>2
<1> QED BY <1>1, <1>2, <1>3, <1>4, <1>5, <1>6, <1>7

\* The loop plans the next backup: after a job, a rest, or the start of the server.
LEMMA PlansNext ==
    ASSUME (MaxManual + 1) * Longest < DayTicks, BakInv, LoopTypes, NEW e \in Int,
           Due(e) <= now, now < Due(e + 1)
    PROVE  B!NextTarget(hour) = Due(e + 1)
<1>1. PICK d \in Int : B!NextTarget(hour) = Due(d + 1) /\ Due(d) <= now /\ now < Due(d + 1)
  BY LoopFacts, TargetIsNext
<1>2. d <= e /\ e <= d
  <2>1. Due(d) < Due(e) + DayTicks /\ Due(e) < Due(d) + DayTicks
    BY <1>1, LoopFacts
  <2> QED BY <2>1, LoopFacts, DueFacts
<1> QED BY <1>1, <1>2

\* The time between two steps of the loop is less than a day.
LEMMA SeenBefore ==
    ASSUME (MaxManual + 1) * Longest < DayTicks, BakInv, LoopTypes, NEW e \in Int, SeenTo(e)
    PROVE  /\ loop = "asleep" => now < Due(e + 1) + DayTicks
           /\ loop \in {"running", "resting"} => now < Due(e + 1)
<1>1. CASE loop = "asleep"
  <2>1. now <= Due(e + 1) + HeldUp(manual)
    BY <1>1, LoopFacts DEF SeenTo
  <2> QED BY <1>1, <2>1, LoopFacts
<1>2. CASE loop = "running"
  <2>1. now <= Due(e) + HeldUp(manual) + Longest
    BY <1>2, LoopFacts DEF SeenTo, LoopTypes
  <2> QED BY <1>2, <2>1, LoopFacts
<1>3. CASE loop = "resting"
  <2>1. now <= Due(e) + Longest + HeldUp(manual)
    BY <1>3, LoopFacts DEF SeenTo
  <2> QED BY <1>3, <2>1, LoopFacts
<1> QED BY <1>1, <1>2, <1>3

\* What the loop has seen to stays, if its next wait is right.
LEMMA SeenStays ==
    ASSUME NEW e \in Int, SeenTo(e), UNCHANGED <<hour, attempts, steady>>, Due(e) <= now',
           loop' = "asleep" => until' = Due(e + 1) /\ Unheld' <= until',
           loop' = "running" => until' = Due(e) /\ job'.begun <= until' + HeldUp(manual'),
           loop' = "resting" => until' <= now' /\ Unheld' <= Due(e) + Longest
    PROVE  SeenTo(e)'
<1>1. \A k : Due(k)' = Due(k) /\ Attempted(k)' = Attempted(k)
  BY DEF Due, Attempted
<1>2. HeldUp(manual)' = HeldUp(manual')
  BY DEF HeldUp
<1> QED BY <1>1, <1>2 DEF SeenTo

\* The end of a job, be it the loop's or an admin's.
LEMMA EndLoops ==
    ASSUME (MaxManual + 1) * Longest < DayTicks, BakInv, LoopInv, job.at # "idle",
           NEW failed \in BOOLEAN, B!End(failed),
           UNCHANGED <<now, hour, enabled, taken, attempts, steady, manual>>
    PROVE  LoopInv'
<1>0. LoopTypes /\ job'.by = "nobody" /\ job'.at = "idle"
  BY DEF LoopInv, B!End, B!Idle
<1>1. B!NextTarget(hour) \in Int
  <2>1. PICK e \in Int : B!NextTarget(hour) = Due(e + 1)
    BY <1>0, LoopFacts, TargetIsNext
  <2> QED BY <1>0, <2>1, LoopFacts
<1>2. LoopTypes'
  <2>1. until' \in Int /\ loop' \in {"off", "asleep", "running", "resting"}
        /\ (loop' = "running" => loop = "running" /\ job.by # "scheduler")
    BY <1>0, <1>1, LoopFacts DEF LoopTypes, B!End, B!PlanFrom, B!scheduler
  <2> QED BY <1>0, <2>1 DEF LoopTypes
<1>3. ASSUME steady # -1 PROVE enabled /\ loop' # "off" /\ \E e \in Int : SeenTo(e)'
  <2>1. PICK e \in Int : SeenTo(e)
    BY <1>3 DEF LoopInv
  <2>2. enabled /\ loop # "off" /\ Due(e) \in Int /\ Due(e) <= now
    BY <1>0, <1>3, <2>1, LoopFacts DEF LoopInv, SeenTo
  <2>3. Unheld' = now - HeldUp(manual) /\ Unheld' \in Int /\ Unheld' <= now
    <3>1. Unheld' = now - HeldUp(manual)
      BY <1>0 DEF Unheld, HeldUp
    <3> QED BY <1>0, <3>1, LoopFacts
  <2>4. CASE job.by = "scheduler"
    <3>1. loop = "running" /\ now < Due(e + 1) /\ now <= Due(e) + Longest + HeldUp(manual)
      <4>1. loop = "running"
        BY <1>0, <2>4 DEF LoopTypes
      <4>2. job.begun <= Due(e) + HeldUp(manual)
        BY <2>1, <4>1 DEF SeenTo
      <4>3. now < Due(e + 1)
        BY <1>0, <2>1, <4>1, SeenBefore
      <4>4. now <= Due(e) + Longest + HeldUp(manual)
        BY <1>0, <2>2, <4>2, LoopFacts
      <4> QED BY <4>1, <4>3, <4>4
    <3>2. CASE failed
      <4>1. loop' = "resting" /\ until' = now
        BY <2>4, <3>2 DEF B!End
      <4>2. Unheld' <= Due(e) + Longest /\ now <= now
        BY <1>0, <2>2, <2>3, <3>1, LoopFacts
      <4> QED BY <2>1, <2>2, <4>1, <4>2, SeenStays
    <3>3. CASE ~failed
      <4>1. loop' = "asleep" /\ until' = B!NextTarget(hour)
        BY <2>2, <2>4, <3>3 DEF B!End, B!PlanFrom
      <4>2. until' = Due(e + 1)
        BY <1>0, <2>2, <3>1, <4>1, PlansNext
      <4>3. Unheld' <= until'
        BY <1>0, <2>2, <2>3, <3>1, <4>2, LoopFacts
      <4> QED BY <2>1, <2>2, <4>1, <4>2, <4>3, SeenStays
    <3> QED BY <3>2, <3>3
  <2>5. CASE job.by # "scheduler"
    <3>1. UNCHANGED <<loop, until>> /\ loop # "running"
      BY <1>0, <2>5 DEF B!End, B!scheduler, LoopTypes
    <3>2. Unheld' <= Unheld
      BY <1>0, <2>3, LoopFacts
    <3>3. Due(e) + Longest \in Int /\ until \in Int /\ Unheld \in Int
      BY <1>0, <2>2, LoopFacts DEF LoopTypes
    <3>4. /\ loop = "asleep" => Unheld' <= until
          /\ loop = "resting" => Unheld' <= Due(e) + Longest
      BY <2>1, <2>3, <3>2, <3>3 DEF SeenTo
    <3>5. /\ loop = "asleep" => until = Due(e + 1)
          /\ loop = "resting" => until <= now
      BY <2>1 DEF SeenTo
    <3> QED BY <2>1, <2>2, <3>1, <3>4, <3>5, SeenStays
  <2> QED BY <2>2, <2>4, <2>5
<1> QED BY <1>2, <1>3 DEF LoopInv

\* A job that goes on, and all that the loop does not look at.
LEMMA LoopUndisturbed ==
    ASSUME LoopInv, UNCHANGED <<now, hour, enabled, loop, until, attempts, steady, manual>>,
           taken \subseteq taken', job'.by = job.by, job'.begun = job.begun,
           job'.at = "idle" <=> job.at = "idle"
    PROVE  LoopInv'
<1>1. LoopTypes'
  BY DEF LoopInv, LoopTypes
<1>2. ASSUME NEW e \in Int, SeenTo(e) PROVE SeenTo(e)'
  <2>1. Unheld' = Unheld
    BY DEF Unheld, HeldUp
  <2> QED BY <1>2, <2>1, SeenStays DEF SeenTo
<1> QED BY <1>1, <1>2 DEF LoopInv

\* The loop starts a backup: the one of the next time of the schedule.
LEMMA ScheduledLoops ==
    ASSUME (MaxManual + 1) * Longest < DayTicks, BakInv, LoopInv, B!RunScheduled
    PROVE  LoopInv'
<1>0. /\ LoopTypes /\ loop = "asleep" /\ until <= now /\ job.by = "nobody"
      /\ job'.by = "scheduler" /\ job'.at = "copying" /\ job'.begun = now
      /\ loop' = "running" /\ attempts' = attempts \cup {now} /\ taken' = taken \cup {now}
      /\ UNCHANGED <<now, hour, enabled, until, steady, manual>>
  BY DEF LoopInv, B!RunScheduled, B!Begin, B!Idle, B!settings, B!counts
<1>1. LoopTypes'
  BY <1>0 DEF LoopTypes
<1>2. ASSUME NEW e \in Int, SeenTo(e), steady \in Nat PROVE SeenTo(e + 1)'
  <2> PICK f \in Int : f = e + 1
    BY <1>2
  <2>1. /\ Due(e) \in Int /\ Due(f) = Due(e) + DayTicks /\ Due(f + 1) = Due(f) + DayTicks
        /\ Due(f) \in Int
    BY <1>0, LoopFacts
  <2>2. until = Due(f) /\ now <= until + HeldUp(manual) /\ now < Due(f + 1)
    <3>1. until = Due(f) /\ Unheld <= until
      BY <1>0, <1>2 DEF SeenTo
    <3> QED BY <1>0, <2>1, <3>1, LoopFacts
  <2>3. \A k : Due(k)' = Due(k) /\ HeldUp(manual)' = HeldUp(manual)
    BY <1>0 DEF Due, HeldUp
  <2>4. ASSUME NEW k \in Int, steady < Due(k), k <= f PROVE Cardinality(Attempted(k)') = 1
    <3>1. CASE k = f
      <4>1. Attempted(k)' = {now}
        <5>1. \A t \in attempts : ~ (Due(f) <= t)
          BY <1>0, <1>2, <2>1, LoopFacts DEF SeenTo
        <5> QED BY <1>0, <2>2, <2>3, <3>1, <5>1 DEF Attempted
      <4> QED BY <4>1, FS_Singleton
    <3>2. CASE k # f
      <4>1. k <= e /\ k < f
        BY <2>4, <3>2
      <4>2. Due(k + 1) = Due(k) + DayTicks /\ Due(k) + DayTicks <= Due(f) /\ Due(k) \in Int
        BY <1>0, <4>1, LoopFacts, DueFacts
      <4>3. ~ (now < Due(k + 1))
        BY <1>0, <2>1, <2>2, <4>2, LoopFacts
      <4>4. Attempted(k)' = Attempted(k)
        BY <1>0, <2>3, <4>3 DEF Attempted
      <4> QED BY <1>2, <2>4, <4>1, <4>4 DEF SeenTo
    <3> QED BY <3>1, <3>2
  <2>5. \A t \in attempts' : t < Due(f + 1)
    BY <1>0, <1>2, <2>1, <2>2, LoopFacts DEF SeenTo
  <2>6. steady < Due(f + 1) /\ Due(f) <= now
    <3>1. steady < Due(f)
      BY <1>2 DEF SeenTo
    <3>2. steady < Due(f + 1)
      BY <1>0, <1>2, <2>1, <3>1, LoopFacts
    <3> QED BY <1>0, <2>2, <3>2
  <2> QED BY <1>0, <2>2, <2>3, <2>4, <2>5, <2>6 DEF SeenTo
<1>3. ASSUME NEW e \in Int, SeenTo(e), steady \in Nat PROVE \E f \in Int : SeenTo(f)'
  BY <1>2, <1>3
<1> QED BY <1>0, <1>1, <1>3 DEF LoopInv

LEMMA LoopStep ==
    ASSUME (MaxManual + 1) * Longest < DayTicks, BakInv, LoopInv, [B!Next]_(B!vars)
    PROVE  LoopInv'
<1>0. LoopTypes /\ (job = B!Idle => job.at = "idle")
  BY DEF LoopInv, B!Idle
<1>1. CASE B!Tick
  <2>1. /\ now' = now + 1 /\ now' \in Nat
        /\ UNCHANGED <<job, hour, enabled, loop, until, taken, attempts, steady, manual>>
        /\ job.by # "admin" /\ loop \in {"asleep", "resting"} => now < until
    BY <1>0, <1>1, LoopFacts DEF B!Tick, B!settings, B!scheduler, B!past, B!counts
  <2>2. LoopTypes'
    BY <1>0, <2>1 DEF LoopTypes
  <2>3. ASSUME NEW e \in Int, SeenTo(e) PROVE SeenTo(e)'
    <3>1. Due(e) \in Int /\ until \in Int /\ Due(e) <= now'
      BY <1>0, <2>1, <2>3, LoopFacts DEF LoopTypes, SeenTo
    <3>2. CASE job.by = "admin"
      <4>1. Unheld' = Unheld
        BY <2>1, <3>2 DEF Unheld, HeldUp
      <4>2. HeldUp(manual') = HeldUp(manual)
        BY <2>1
      <4>3. until <= now => until <= now'
        BY <1>0, <2>1, <3>1, LoopFacts
      <4> QED BY <2>1, <2>3, <3>1, <4>1, <4>2, <4>3, SeenStays DEF SeenTo
    <3>3. CASE job.by # "admin"
      <4>1. Unheld' = (now + 1) - HeldUp(manual)
        <5>1. Unheld' = now' - HeldUp(manual)
          BY <2>1, <3>3 DEF Unheld, HeldUp
        <5> QED BY <2>1, <5>1
      <4>2. loop # "resting" /\ (loop = "asleep" => now < until)
        BY <1>0, <2>1, <2>3, <3>1, <3>3, LoopFacts DEF SeenTo
      <4>3. loop = "asleep" => Unheld' <= until
        BY <1>0, <3>1, <4>1, <4>2, LoopFacts
      <4> QED BY <2>1, <2>3, <3>1, <4>2, <4>3, SeenStays DEF SeenTo
    <3> QED BY <3>2, <3>3
  <2>4. steady \in Nat /\ steady <= now => steady <= now'
    BY <1>0, <2>1, LoopFacts
  <2> QED BY <2>1, <2>2, <2>3, <2>4 DEF LoopInv
<1>2. CASE B!Wake
  <2>1. /\ UNCHANGED <<now, job, hour, enabled, taken, attempts, steady, manual>>
        /\ loop = "resting" /\ until <= now /\ B!PlanFrom(enabled, hour)
    BY <1>2 DEF B!Wake, B!settings, B!past, B!counts
  <2>2. LoopTypes'
    <3>1. PICK e \in Int : B!NextTarget(hour) = Due(e + 1)
      BY <1>0, LoopFacts, TargetIsNext
    <3>2. until' \in Int /\ loop' \in {"asleep", "resting"}
      BY <1>0, <2>1, <3>1, LoopFacts DEF B!PlanFrom
    <3> QED BY <1>0, <2>1, <3>2 DEF LoopTypes
  <2>3. ASSUME NEW e \in Int, SeenTo(e), enabled PROVE loop' = "asleep" /\ SeenTo(e)'
    <3>1. now < Due(e + 1) /\ Due(e) <= now /\ Unheld <= Due(e) + Longest
      BY <1>0, <2>1, <2>3, SeenBefore DEF SeenTo
    <3>2. loop' = "asleep" /\ until' = Due(e + 1)
      BY <1>0, <2>1, <2>3, <3>1, PlansNext DEF B!PlanFrom
    <3>3. Unheld' = Unheld
      BY <2>1 DEF Unheld, HeldUp
    <3>4. Unheld' <= until'
      BY <1>0, <3>1, <3>2, <3>3, LoopFacts
    <3> QED BY <2>1, <2>3, <3>1, <3>2, <3>4, SeenStays
  <2> QED BY <2>1, <2>2, <2>3 DEF LoopInv
<1>3. CASE B!RunScheduled
  BY <1>3, ScheduledLoops
<1>4. CASE B!RunManual
  <2>1. /\ UNCHANGED <<now, hour, enabled, loop, until, attempts, steady>>
        /\ manual' = manual + 1 /\ manual < MaxManual /\ taken \subseteq taken'
        /\ job.by = "nobody" /\ job'.by = "admin" /\ job'.at = "copying" /\ job'.begun = now
    BY <1>4 DEF B!RunManual, B!Begin, B!Idle, B!settings, B!scheduler
  <2>2. LoopTypes'
    <3>1. manual' \in 0 .. MaxManual /\ manual' > 0
      BY <1>0, <2>1, LoopFacts DEF LoopTypes
    <3> QED BY <1>0, <2>1, <3>1 DEF LoopTypes
  <2>3. ASSUME NEW e \in Int, SeenTo(e) PROVE SeenTo(e)'
    <3>1. manual \in Nat /\ manual' - 1 = manual
      BY <1>0, <2>1 DEF LoopTypes
    <3>2. Unheld' = Unheld
      BY <2>1, <3>1 DEF Unheld, HeldUp
    <3> QED BY <1>0, <2>1, <2>3, <3>2, SeenStays DEF SeenTo, LoopTypes
  <2> QED BY <2>1, <2>2, <2>3 DEF LoopInv
<1>5. CASE B!Finish
  <2>1. UNCHANGED <<now, hour, enabled, taken, attempts, steady, manual>> /\ job.at = "copying"
    BY <1>5 DEF B!Finish, B!settings, B!counts
  <2>2. CASE job.begun \in archives
    <3>1. UNCHANGED <<loop, until>>
          /\ job' = [job EXCEPT !.at = "pruning", !.doomed = archives \ B!Kept(archives),
                                !.pruned = now]
      BY <1>5, <2>2 DEF B!Finish, B!scheduler
    <3>2. job'.by = job.by /\ job'.begun = job.begun /\ job'.at = "pruning"
      BY <3>1 DEF BakInv, JobInv
    <3> QED BY <2>1, <3>1, <3>2, LoopUndisturbed
  <2>3. CASE job.begun \notin archives
    BY <1>5, <2>1, <2>3, EndLoops DEF B!Finish
  <2> QED BY <2>2, <2>3
<1>6. CASE B!Fail
  BY <1>6, EndLoops DEF B!Fail, B!settings, B!past
<1>7. CASE B!Prune
  <2>1. UNCHANGED <<now, hour, enabled, taken, attempts, steady, manual>> /\ job.at = "pruning"
    BY <1>7 DEF B!Prune, B!settings, B!past, B!counts
  <2>2. CASE B!End(TRUE) \/ B!End(FALSE)
    BY <2>1, <2>2, EndLoops
  <2>3. CASE ~ (B!End(TRUE) \/ B!End(FALSE))
    <3>1. PICK D : UNCHANGED <<loop, until>> /\ job' = [job EXCEPT !.doomed = D]
      BY <1>7, <2>3 DEF B!Prune, B!scheduler
    <3>2. job'.by = job.by /\ job'.begun = job.begun /\ job'.at = job.at
      BY <3>1 DEF BakInv, JobInv
    <3> QED BY <2>1, <3>1, <3>2, LoopUndisturbed
  <2> QED BY <2>2, <2>3
<1>8. CASE \E t \in B!Times : B!delete_backup(t)
  BY <1>8, LoopUndisturbed DEF B!delete_backup, B!settings, B!scheduler
<1>9. CASE B!update_backup_config
  BY <1>0, <1>9 DEF B!update_backup_config, B!scheduler, B!past, B!Never, LoopInv, LoopTypes
<1>10. CASE B!Restart
  <2>1. /\ UNCHANGED <<now, hour, enabled, taken, attempts, manual>>
        /\ job'.by = "nobody" /\ job'.at = "idle"
        /\ IF enabled THEN B!PlanFrom(TRUE, hour) /\ steady' = now
           ELSE loop' = "off" /\ until' = 0 /\ steady' = -1
    BY <1>10 DEF B!Restart, B!Idle, B!settings, B!past, B!Never
  <2>2. CASE enabled
    <3>1. PICK e \in Int : /\ B!NextTarget(hour) = Due(e + 1)
                           /\ Due(e) <= now /\ now < Due(e + 1)
      BY <1>0, LoopFacts, TargetIsNext
    <3>2. /\ loop' = "asleep" /\ until' = Due(e + 1) /\ steady' = now /\ until' \in Int
          /\ now \in Nat
      BY <1>0, <2>1, <2>2, <3>1, LoopFacts DEF B!PlanFrom
    <3>3. LoopTypes'
      BY <1>0, <2>1, <3>2 DEF LoopTypes
    <3>4. Unheld' = now - HeldUp(manual) /\ Unheld' <= until'
      <4>1. Unheld' = now - HeldUp(manual)
        BY <2>1 DEF Unheld, HeldUp
      <4> QED BY <1>0, <3>1, <3>2, <4>1, LoopFacts
    <3>5. \A k : Due(k)' = Due(k)
      BY <2>1 DEF Due
    <3>6. ASSUME NEW k \in Int, now < Due(k), k <= e PROVE FALSE
      <4>1. k # e
        BY <1>0, <3>1, <3>6, LoopFacts
      <4>2. Due(k) + DayTicks <= Due(e)
        BY <1>0, <3>6, <4>1, LoopFacts, DueFacts
      <4> QED BY <1>0, <3>1, <3>6, <4>2, LoopFacts
    <3>7. \A t \in attempts : t < Due(e + 1)
      BY <1>0, <3>1, LoopFacts
    <3>8. SeenTo(e)'
      BY <2>1, <3>1, <3>2, <3>4, <3>5, <3>6, <3>7 DEF SeenTo
    <3> QED BY <1>0, <2>1, <2>2, <3>2, <3>3, <3>8, LoopFacts DEF LoopInv
  <2>3. CASE ~enabled
    BY <1>0, <2>1, <2>3 DEF LoopInv, LoopTypes
  <2> QED BY <2>2, <2>3
<1>11. CASE UNCHANGED B!vars
  BY <1>11, LoopUndisturbed DEF B!vars, B!settings, B!scheduler, B!past, B!counts
<1> QED BY <1>1, <1>2, <1>3, <1>4, <1>5, <1>6, <1>7, <1>8, <1>9, <1>10, <1>11 DEF B!Next

LEMMA LoopInit == ASSUME (MaxManual + 1) * Longest < DayTicks, B!Init PROVE LoopInv
<1>0. /\ now = 0 /\ job.by = "nobody" /\ job.at = "idle" /\ hour \in Hours
      /\ loop = (IF enabled THEN "asleep" ELSE "off")
      /\ until = (IF enabled THEN hour + (IF hour = 0 THEN DayTicks ELSE 0) ELSE 0)
      /\ attempts = {} /\ taken = {} /\ manual = 0 /\ steady = (IF enabled THEN 0 ELSE -1)
  BY DEF B!Init, B!Idle, B!Never
<1>1. LoopTypes
  BY <1>0, BackupsAssumption DEF LoopTypes
<1>2. /\ hour \in Int /\ 0 <= hour /\ hour < DayTicks /\ DayTicks \in Nat /\ DayTicks > 0
      /\ Due(0) = hour /\ Due(1) = hour + DayTicks /\ Due(-1) = hour - DayTicks
  BY <1>0, BackupsAssumption DEF Due
<1>3. HeldUp(0) = 0
  BY BackupsAssumption DEF HeldUp
<1>4. ASSUME enabled PROVE \E e \in Int : SeenTo(e)
  <2>1. PICK e \in {-1, 0} : until = Due(e + 1) /\ Due(e) <= 0 /\ 0 < Due(e + 1)
    <3>1. CASE hour = 0
      <4>1. until = Due(0 + 1) /\ Due(0) <= 0 /\ 0 < Due(0 + 1)
        BY <1>0, <1>2, <1>4, <3>1
      <4> QED BY <4>1
    <3>2. CASE hour # 0
      <4>1. until = Due(-1 + 1) /\ Due(-1) <= 0 /\ 0 < Due(-1 + 1)
        BY <1>0, <1>2, <1>4, <3>2
      <4> QED BY <4>1
    <3> QED BY <3>1, <3>2
  <2>2. ASSUME NEW k \in Int, 0 < Due(k), k <= e PROVE FALSE
    <3>1. Due(k) \in Int /\ Due(e) \in Int
      <4>1. e \in Int
        OBVIOUS
      <4> QED BY <1>2, <4>1, DueFacts
    <3>2. k = e \/ Due(k) + DayTicks <= Due(e)
      BY <1>2, <2>2, DueFacts
    <3> QED BY <1>2, <2>1, <2>2, <3>1, <3>2
  <2>3. Unheld = 0
    BY <1>0, <1>3 DEF Unheld
  <2>4. e \in Int /\ Due(e + 1) \in Int
    BY <1>2, DueFacts
  <2> QED BY <1>0, <1>4, <2>1, <2>2, <2>3, <2>4 DEF SeenTo
<1> QED BY <1>0, <1>1, <1>4 DEF LoopInv

\* While nobody changes the settings of a running server, the loop starts one backup from each
\* time of the schedule to the next, whatever fails, is deleted or is asked for by admins, if
\* their backups and one more take less than a day together (_scheduler_loop).
THEOREM OneBackupADay ==
    ASSUME (MaxManual + 1) * Longest < DayTicks
    PROVE  B!Spec => []OneADay
<1>1. BakInv /\ LoopInv => OneADay
  <2> SUFFICES ASSUME BakInv, LoopInv, steady # -1, NEW d \in 0 .. B!Day(now),
                      steady < Due(d), Due(d) + DayTicks <= now
               PROVE  B!Cardinality({t \in attempts : Due(d) <= t /\ t < Due(d) + DayTicks}) = 1
    BY Zenon DEF OneADay, B!OneADay, B!Never, Due
  <2>0. LoopTypes /\ d \in Int
    BY DEF LoopInv
  <2>1. PICK e \in Int : SeenTo(e)
    BY DEF LoopInv
  <2>2. d <= e
    <3>1. Due(d) \in Int /\ Due(e) \in Int /\ Due(e + 1) = Due(e) + DayTicks
      BY <2>0, LoopFacts
    <3>2. now < Due(e + 1) + DayTicks
      BY <2>0, <2>1, <3>1, SeenBefore, LoopFacts DEF LoopInv, LoopTypes
    <3> QED BY <2>0, <3>1, <3>2, LoopFacts, DueFacts
  <2>3. Cardinality(Attempted(d)) = 1
    BY <2>0, <2>1, <2>2 DEF SeenTo
  <2>4. Attempted(d) = {t \in attempts : Due(d) <= t /\ t < Due(d) + DayTicks}
    BY <2>0, LoopFacts DEF Attempted
  <2>5. \A S : B!Cardinality(S) = Cardinality(S)
    BY Zenon DEF B!Cardinality, Cardinality
  <2> QED BY <2>3, <2>4, <2>5
<1> QED BY <1>1, BakInvHolds, LoopInit, LoopStep, PTL DEF B!Spec

-----------------------------------------------------------------------------
(* Notices.                                                                *)

SentMessage ==
    [room : PageRooms, at : {"broadcast", "push", "notify", "done"}, to : BOOLEAN]
Place == {"keys", "asked", "marking", "done"}
Selection == [room : PageRooms, at : Place, id : Nat]
NoticeFrame == [kind : {"message", "notice"}, id : Nat]
Answer == [unread : [PageRooms -> SUBSET Nat], late : BOOLEAN, clears : SUBSET PageRooms]

NoticeTypes ==
    /\ nSent \in Seq(SentMessage)
    /\ nPosition \in [PageRooms -> Nat]
    /\ nPage \subseteq N!Stages
    /\ nCurrentRoom \in PageRooms \cup {NoRoom}
    /\ nSelections \in Seq(Selection)
    /\ nLastMessageId \in Nat
    /\ nDown \in Seq(NoticeFrame)
    /\ nAsked \in Nat
    /\ nAnswers \in Seq(Answer)
    /\ nReads \subseteq [room : PageRooms, id : Nat]
    /\ nExcused \subseteq PageRooms

\* Whatever names a message names one that was sent.
NoticeBounds ==
    /\ \A r \in PageRooms : nPosition[r] <= Len(nSent)
    /\ \A n \in DOMAIN nSelections : nSelections[n].id <= Len(nSent)
    /\ nLastMessageId <= Len(nSent)
    /\ \A x \in nReads : x.id <= Len(nSent)
    /\ \A k \in DOMAIN nDown : nDown[k].id \in DOMAIN nSent

\* Before the plugins are there, one call of loadRooms lists the rooms, none is chosen
\* before, and no selection gets as far as the history.
Unplugged ==
    /\ nCurrentRoom \in PageRooms => "listed" \in nPage
    /\ "plugins" \notin nPage =>
          /\ \A n \in DOMAIN nSelections : nSelections[n].at \in {"keys", "done"}
          /\ nAsked = 0 \/ nAnswers = <<>>
          /\ nAsked <= 1 /\ Len(nAnswers) <= 1
          /\ nPage = {} \/ "listed" \in nPage => nAsked = 0 /\ nAnswers = <<>>

NoticeBase == NoticeTypes /\ NoticeBounds /\ Unplugged

\* The history of the room is on its way; so is the number of every room.
Loads(r) ==
    \E n \in DOMAIN nSelections :
       nSelections[n].room = r /\ nSelections[n].at \in {"keys", "asked"}
Selecting ==
    "plugins" \in nPage /\ \E n \in DOMAIN nSelections : nSelections[n].at # "done"

\* A broadcast of m is on its way to the page.
InFlight(m) ==
    \/ nSent[m].at = "broadcast" /\ nSent[m].to
    \/ \E k \in DOMAIN nDown : nDown[k].kind = "message" /\ nDown[k].id = m

\* A message on the wire is later than those of its room before it, and later ones than it
\* are still to be sent.
Messages == {k \in DOMAIN nDown : nDown[k].kind = "message"}
WireInOrder ==
    \A k \in Messages :
       /\ \A m \in N!OfRoom(nSent[nDown[k].id].room) :
             m <= nDown[k].id => nSent[m].at # "broadcast"
       /\ \A l \in Messages :
             k < l /\ nSent[nDown[l].id].room = nSent[nDown[k].id].room
                => nDown[k].id < nDown[l].id

\* The sidebar will be loaded after m was stored, or an answer that counts m is there.
Owed(m) ==
    \/ nSent[m].at # "done"
    \/ \E k \in DOMAIN nDown : nDown[k].kind = "notice" /\ nDown[k].id = m
    \/ nAsked > 0
    \/ \E i \in DOMAIN nAnswers : m \in nAnswers[i].unread[nSent[m].room]
    \/ Selecting

\* What holds of a message that was neither shown nor counted nor pushed nor missed.
MessageInv(m) ==
    LET r == nSent[m].room IN
    /\ r = nCurrentRoom => Loads(r) \/ InFlight(m)
    /\ r # nCurrentRoom \/ "plugins" \notin nPage => Owed(m)
    /\ m \in N!Marked(r) => "plugins" \in nPage /\ Loads(r)

MessagesInv == \A m \in DOMAIN nSent : m \notin nTold \cup nMissed => MessageInv(m)

\* The number of r will be counted again.
Unread(r) == N!get_unread(r, nPosition[r])
Coming(r) ==
    \/ nAsked > 0 \/ Selecting
    \/ \E m \in N!OfRoom(r) : nSent[m].at # "done"
    \/ \E k \in DOMAIN nDown : nDown[k].kind = "notice" /\ nSent[nDown[k].id].room = r

Newest == nAnswers[Len(nAnswers)]
Fresh == nAnswers # <<>> /\ ~Newest.late

LateFirst ==
    \A i, j \in DOMAIN nAnswers : i < j /\ nAnswers[j].late => nAnswers[i].late

\* The newest answer is that of now, unless nobody told the page of a change since.
AnswerInv(r) ==
    Fresh /\ (r \in nExcused => \E i \in DOMAIN nAnswers : r \in nAnswers[i].clears) =>
       Newest.unread[r] = Unread(r) \/ Coming(r)
NumberInv(r) ==
    nPage # {} /\ r \notin nExcused /\ (r # nCurrentRoom \/ "plugins" \notin nPage) =>
       nBadge[r] = N!Cardinality(Unread(r)) \/ Coming(r) \/ Fresh

NumbersInv == LateFirst /\ \A r \in PageRooms : AnswerInv(r) /\ NumberInv(r)

NoticeAct == N!Next \/ UNCHANGED N!vars

-----------------------------------------------------------------------------
(* What the steps do to each variable.                                     *)

LEMMA GreatestOf ==
    ASSUME NEW S, S # {}, NEW b \in Nat, S \subseteq 0 .. b
    PROVE  N!Max(S) \in S /\ \A x \in S : x <= N!Max(S)
<1>1. \E x \in S : \A y \in S : x >= y
  <2>0. \A x \in S : x \in 0 .. b
    OBVIOUS
  <2>1. S \subseteq Nat /\ \A x \in S : x \in Nat /\ x <= b
    BY <2>0
  <2>2. PICK x \in S : \A y \in S : y <= x
    BY <2>1, GreatestExists
  <2>3. \A y \in S : x >= y
    BY <2>1, <2>2
  <2> QED BY <2>3
<1>2. N!Max(S) \in S /\ \A y \in S : N!Max(S) >= y
  BY <1>1, Zenon DEF N!Max
<1>3. \A y \in S : y \in 0 .. b
  OBVIOUS
<1> QED BY <1>2, <1>3

LEMMA GreaterOf ==
    ASSUME NEW a \in Nat, NEW b \in Nat
    PROVE  /\ N!Max({a, b}) \in {a, b}
           /\ a <= N!Max({a, b}) /\ b <= N!Max({a, b})
<1>1. PICK c \in Nat : a <= c /\ b <= c
  <2>1. CASE a <= b
    BY <2>1
  <2>2. CASE b <= a
    BY <2>2
  <2> QED BY <2>1, <2>2
<1>2. {a, b} # {} /\ {a, b} \subseteq 0 .. c
  BY <1>1
<1> QED BY <1>2, GreatestOf, Zenon

\* No message is added or goes to another room.
SentKept ==
    /\ Len(nSent') = Len(nSent) /\ DOMAIN nSent' = DOMAIN nSent
    /\ \A m \in DOMAIN nSent : nSent'[m].room = nSent[m].room

LEMMA KeptRooms ==
    ASSUME SentKept
    PROVE  /\ \A r : N!OfRoom(r)' = N!OfRoom(r)
           /\ \A r : \A p : N!get_unread(r, p)' = N!get_unread(r, p)
  BY DEF SentKept, N!OfRoom, N!Ids, N!get_unread

LEMMA Proceeds ==
    ASSUME NoticeTypes, NEW m \in DOMAIN nSent, NEW from,
           NEW after \in {"push", "notify", "done"}, N!Proceed(m, from, after)
    PROVE  /\ nSent' \in Seq(SentMessage) /\ SentKept /\ nSent[m].at = from
           /\ nSent'[m].at = after /\ ~nSent'[m].to
           /\ \A k \in DOMAIN nSent \ {m} : nSent'[k] = nSent[k]
<1>1. nSent \in Seq(SentMessage)
  BY DEF NoticeTypes
<1> PICK x \in SentMessage : x = nSent[m]
  BY <1>1
<1> DEFINE y == [x EXCEPT !.at = after, !.to = FALSE]
<1>2. y \in SentMessage /\ y.room = nSent[m].room /\ y.at = after /\ ~y.to
  BY DEF SentMessage
<1>3. nSent' = [nSent EXCEPT ![m] = y]
  BY <1>1 DEF N!Proceed
<1> HIDE DEF y
<1>4. /\ nSent' \in Seq(SentMessage) /\ Len(nSent') = Len(nSent) /\ DOMAIN nSent' = DOMAIN nSent
      /\ nSent'[m] = y /\ \A k \in DOMAIN nSent \ {m} : nSent'[k] = nSent[k]
  BY <1>1, <1>2, <1>3
<1> QED BY <1>2, <1>4 DEF SentKept, N!Proceed

LEMMA Cuts ==
    ASSUME NoticeTypes, N!Cut
    PROVE  /\ nSent' \in Seq(SentMessage) /\ SentKept
           /\ \A m \in DOMAIN nSent : nSent'[m].at = nSent[m].at /\ ~nSent'[m].to
<1>1. nSent \in Seq(SentMessage) /\ DOMAIN nSent = 1 .. Len(nSent) /\ Len(nSent) \in Nat
  BY DEF NoticeTypes
<1>2. nSent' = [m \in 1 .. Len(nSent) |-> [nSent[m] EXCEPT !.to = FALSE]]
  BY <1>1 DEF N!Cut, N!Ids
<1>3. \A m \in 1 .. Len(nSent) :
         LET z == [nSent[m] EXCEPT !.to = FALSE]
         IN  z \in SentMessage /\ z.room = nSent[m].room /\ z.at = nSent[m].at /\ ~z.to
  <2> TAKE m \in 1 .. Len(nSent)
  <2> PICK x \in SentMessage : x = nSent[m]
    BY <1>1
  <2> QED BY DEF SentMessage
<1>4. nSent' \in [1 .. Len(nSent) -> SentMessage]
  BY <1>2, <1>3, Zenon
<1>5. \A m \in 1 .. Len(nSent) : /\ nSent'[m].room = nSent[m].room /\ ~nSent'[m].to
                                 /\ nSent'[m].at = nSent[m].at
  BY <1>2, <1>3, Zenon
<1>6. nSent' \in Seq(SentMessage) /\ Len(nSent') = Len(nSent)
  BY <1>1, <1>4
<1> QED BY <1>1, <1>4, <1>5, <1>6 DEF SentKept
\* One selection goes on.
Moves(n, a, i) ==
    /\ nSelections' \in Seq(Selection)
    /\ Len(nSelections') = Len(nSelections) /\ DOMAIN nSelections' = DOMAIN nSelections
    /\ nSelections'[n].room = nSelections[n].room
    /\ nSelections'[n].at = a /\ nSelections'[n].id = i
    /\ \A k \in DOMAIN nSelections \ {n} : nSelections'[k] = nSelections[k]

LEMMA SelectionSet ==
    ASSUME NoticeTypes, NEW n \in DOMAIN nSelections, NEW y \in Selection,
           y.room = nSelections[n].room, nSelections' = [nSelections EXCEPT ![n] = y]
    PROVE  Moves(n, y.at, y.id)
<1>1. nSelections \in Seq(Selection)
  BY DEF NoticeTypes
<1> QED BY <1>1 DEF Moves

LEMMA SelectionMoves ==
    ASSUME NoticeTypes, NEW n \in DOMAIN nSelections, NEW a \in Place,
           nSelections' = [nSelections EXCEPT ![n].at = a]
    PROVE  Moves(n, a, nSelections[n].id)
<1>1. nSelections \in Seq(Selection)
  BY DEF NoticeTypes
<1> PICK x \in Selection : x = nSelections[n]
  BY <1>1
<1> DEFINE y == [x EXCEPT !.at = a]
<1>2. /\ y \in Selection /\ y.room = nSelections[n].room /\ y.at = a
      /\ y.id = nSelections[n].id
  BY DEF Selection
<1>3. nSelections' = [nSelections EXCEPT ![n] = y]
  BY <1>1
<1> HIDE DEF y
<1> QED BY <1>2, <1>3, SelectionSet, Zenon

LEMMA SelectionLoads ==
    ASSUME NoticeTypes, NEW n \in DOMAIN nSelections, NEW a \in Place, NEW i \in Nat,
           nSelections' = [nSelections EXCEPT ![n].id = i, ![n].at = a]
    PROVE  Moves(n, a, i)
<1>1. nSelections \in Seq(Selection)
  BY DEF NoticeTypes
<1> PICK x \in Selection : x = nSelections[n]
  BY <1>1
<1> DEFINE y == [x EXCEPT !.id = i, !.at = a]
<1>2. y \in Selection /\ y.room = nSelections[n].room /\ y.at = a /\ y.id = i
  BY DEF Selection
<1>3. nSelections' = [nSelections EXCEPT ![n] = y]
  BY <1>1
<1> HIDE DEF y
<1> QED BY <1>2, <1>3, SelectionSet, Zenon

\* The answers stay as they are, but for what they clear; the rooms in R are excused.
Leaves(R) ==
    /\ nExcused' = nExcused \cup R
    /\ nAnswers' \in Seq(Answer)
    /\ Len(nAnswers') = Len(nAnswers) /\ DOMAIN nAnswers' = DOMAIN nAnswers
    /\ \A i \in DOMAIN nAnswers :
          /\ nAnswers'[i].unread = nAnswers[i].unread
          /\ nAnswers'[i].late = nAnswers[i].late
          /\ nAnswers'[i].clears = nAnswers[i].clears \ R

LEMMA AnswerUpdates ==
    ASSUME NEW x \in Answer, NEW R
    PROVE  LET y == [x EXCEPT !.clears = x.clears \ R]
               z == [x EXCEPT !.late = TRUE]
           IN  /\ y \in Answer /\ y.unread = x.unread /\ y.late = x.late
               /\ y.clears = x.clears \ R
               /\ z \in Answer /\ z.unread = x.unread /\ z.late /\ z.clears = x.clears
  BY DEF Answer

LEMMA LeavesBehind ==
    ASSUME NoticeTypes, NEW R, N!LeftBehind(R)
    PROVE  Leaves(R)
<1>1. nAnswers \in Seq(Answer) /\ DOMAIN nAnswers = 1 .. Len(nAnswers) /\ Len(nAnswers) \in Nat
  BY DEF NoticeTypes
<1>2. nAnswers' = [i \in 1 .. Len(nAnswers) |->
                     [nAnswers[i] EXCEPT !.clears = nAnswers[i].clears \ R]]
  BY <1>1 DEF N!LeftBehind
<1>3. \A i \in 1 .. Len(nAnswers) :
         LET y == [nAnswers[i] EXCEPT !.clears = nAnswers[i].clears \ R]
         IN  /\ y \in Answer /\ y.unread = nAnswers[i].unread /\ y.late = nAnswers[i].late
             /\ y.clears = nAnswers[i].clears \ R
  <2> TAKE i \in 1 .. Len(nAnswers)
  <2>1. nAnswers[i] \in Answer
    BY <1>1
  <2> QED BY <2>1, AnswerUpdates
<1>4. nAnswers' \in [1 .. Len(nAnswers) -> Answer]
  BY <1>2, <1>3, Zenon
<1>5. \A i \in 1 .. Len(nAnswers) :
         /\ nAnswers'[i].unread = nAnswers[i].unread
         /\ nAnswers'[i].late = nAnswers[i].late
         /\ nAnswers'[i].clears = nAnswers[i].clears \ R
  BY <1>2, <1>3, Zenon
<1>6. nAnswers' \in Seq(Answer) /\ Len(nAnswers') = Len(nAnswers)
  BY <1>1, <1>4
<1> QED BY <1>1, <1>4, <1>5, <1>6 DEF Leaves, N!LeftBehind

LEMMA LeavesNone ==
    ASSUME NoticeTypes, UNCHANGED <<nAnswers, nExcused>>
    PROVE  Leaves({})
<1>1. nAnswers \in Seq(Answer)
  BY DEF NoticeTypes
<1>2. \A i \in DOMAIN nAnswers : nAnswers[i].clears = nAnswers[i].clears \ {}
  OBVIOUS
<1> QED BY <1>1, <1>2 DEF Leaves

\* Answer i is drawn: the others move up, and the older ones are late.
Draws(i) ==
    /\ nAnswers' \in Seq(Answer) /\ Len(nAnswers') = Len(nAnswers) - 1
    /\ \A j \in DOMAIN nAnswers' :
          LET k == IF j < i THEN j ELSE j + 1
          IN  /\ k \in DOMAIN nAnswers /\ k # i
              /\ nAnswers'[j].unread = nAnswers[k].unread
              /\ nAnswers'[j].clears = nAnswers[k].clears
              /\ nAnswers'[j].late = (nAnswers[k].late \/ k < i)

LEMMA Removes ==
    ASSUME NEW S, NEW s \in Seq(S), NEW i \in DOMAIN s
    PROVE  /\ N!RemoveAt(s, i) \in Seq(S) /\ Len(N!RemoveAt(s, i)) = Len(s) - 1
           /\ \A j \in 1 .. Len(s) - 1 :
                 N!RemoveAt(s, i)[j] = s[IF j < i THEN j ELSE j + 1]
<1> DEFINE a == SubSeq(s, 1, i - 1)
           b == SubSeq(s, i + 1, Len(s))
<1>0. Len(s) \in Nat /\ i \in 1 .. Len(s)
  OBVIOUS
<1>1. /\ a \in Seq(S) /\ Len(a) = i - 1
      /\ \A j \in 1 .. i - 1 : a[j] = s[j]
  BY <1>0, SubSeqProperties
<1>2. /\ b \in Seq(S) /\ Len(b) = Len(s) - i
      /\ \A j \in 1 .. Len(s) - i : b[j] = s[i + j]
  BY <1>0, SubSeqProperties
<1>3. N!RemoveAt(s, i) = a \o b
  BY DEF N!RemoveAt
<1> HIDE DEF a, b
<1>4. /\ a \o b \in Seq(S) /\ Len(a \o b) = Len(a) + Len(b)
      /\ \A j \in 1 .. Len(a) + Len(b) : (a \o b)[j] = IF j <= Len(a) THEN a[j] ELSE b[j - Len(a)]
  BY <1>1, <1>2, ConcatProperties
<1>5. ASSUME NEW j \in 1 .. Len(s) - 1
      PROVE  (a \o b)[j] = s[IF j < i THEN j ELSE j + 1]
  <2>1. CASE j < i
    BY <1>0, <1>1, <1>2, <1>4, <2>1
  <2>2. CASE ~ (j < i)
    <3>1. j - (i - 1) \in 1 .. Len(s) - i /\ i + (j - (i - 1)) = j + 1
      BY <1>0, <2>2
    <3>2. (a \o b)[j] = b[j - (i - 1)]
      <4>1. j \in 1 .. Len(a) + Len(b) /\ ~ (j <= Len(a)) /\ Len(a) = i - 1
        BY <1>0, <1>1, <1>2, <2>2
      <4> QED BY <1>4, <4>1
    <3>3. b[j - (i - 1)] = s[j + 1]
      BY <1>2, <3>1
    <3> QED BY <2>2, <3>2, <3>3
  <2> QED BY <2>1, <2>2
<1> QED BY <1>0, <1>1, <1>2, <1>3, <1>4, <1>5

LEMMA AnswerDrawn ==
    ASSUME NoticeTypes, NEW i \in DOMAIN nAnswers, N!createRoomItem(i)
    PROVE  Draws(i)
<1> DEFINE marked == [k \in 1 .. Len(nAnswers) |->
                        [nAnswers[k] EXCEPT !.late = nAnswers[k].late \/ k < i]]
<1>1. nAnswers \in Seq(Answer) /\ DOMAIN nAnswers = 1 .. Len(nAnswers) /\ Len(nAnswers) \in Nat
  BY DEF NoticeTypes
<1>2. nAnswers' = N!RemoveAt(marked, i)
  BY <1>1 DEF N!createRoomItem
<1>3. \A k \in 1 .. Len(nAnswers) :
         /\ marked[k] \in Answer /\ marked[k].unread = nAnswers[k].unread
         /\ marked[k].clears = nAnswers[k].clears
         /\ marked[k].late = (nAnswers[k].late \/ k < i)
  <2> TAKE k \in 1 .. Len(nAnswers)
  <2>1. nAnswers[k] \in Answer
    BY <1>1
  <2>2. PICK l \in BOOLEAN : l = (nAnswers[k].late \/ k < i)
    OBVIOUS
  <2>3. marked[k] = [nAnswers[k] EXCEPT !.late = l]
    BY <2>2, Zenon
  <2>4. ASSUME NEW x \in Answer
        PROVE  LET y == [x EXCEPT !.late = l]
               IN  y \in Answer /\ y.unread = x.unread /\ y.clears = x.clears /\ y.late = l
    BY DEF Answer
  <2> HIDE DEF marked
  <2> QED BY <2>1, <2>2, <2>3, <2>4
<1>4. marked \in Seq(Answer) /\ Len(marked) = Len(nAnswers) /\ DOMAIN marked = 1 .. Len(nAnswers)
  <2>1. marked \in [1 .. Len(nAnswers) -> Answer]
    BY <1>3
  <2> HIDE DEF marked
  <2> QED BY <1>1, <2>1
<1> HIDE DEF marked
<1>5. /\ nAnswers' \in Seq(Answer) /\ Len(nAnswers') = Len(nAnswers) - 1
      /\ \A j \in 1 .. Len(nAnswers) - 1 : nAnswers'[j] = marked[IF j < i THEN j ELSE j + 1]
  BY <1>1, <1>2, <1>4, Removes
<1>6. ASSUME NEW j \in DOMAIN nAnswers'
      PROVE  LET k == IF j < i THEN j ELSE j + 1
             IN  k \in 1 .. Len(nAnswers) /\ k # i /\ nAnswers'[j] = marked[k]
  BY <1>1, <1>5
<1> QED BY <1>1, <1>3, <1>5, <1>6 DEF Draws

-----------------------------------------------------------------------------
(* Types, bounds, and the page before its plugins.                         *)

LEMMA BaseFacts ==
    ASSUME NoticeBase
    PROVE  /\ Len(nSent) \in Nat /\ DOMAIN nSent = 1 .. Len(nSent)
           /\ \A m \in DOMAIN nSent : m \in Nat /\ nSent[m] \in SentMessage /\ nSent[m].room \in PageRooms
           /\ \A n \in DOMAIN nSelections :
                 /\ nSelections[n] \in Selection /\ nSelections[n].room \in PageRooms
                 /\ nSelections[n].at \in Place /\ nSelections[n].id \in Nat
           /\ \A k \in DOMAIN nDown :
                 /\ nDown[k].kind \in {"message", "notice"} /\ nDown[k].id \in DOMAIN nSent
                 /\ nSent[nDown[k].id].room \in PageRooms
           /\ \A r : N!OfRoom(r) \subseteq 0 .. Len(nSent)
<1>1. Len(nSent) \in Nat /\ DOMAIN nSent = 1 .. Len(nSent)
  BY DEF NoticeBase, NoticeTypes
<1>2. /\ \A m \in DOMAIN nSent : m \in Nat /\ nSent[m] \in SentMessage
      /\ \A n \in DOMAIN nSelections : nSelections[n] \in Selection
      /\ \A k \in DOMAIN nDown : nDown[k] \in NoticeFrame /\ nDown[k].id \in DOMAIN nSent
  BY DEF NoticeBase, NoticeTypes, NoticeBounds
<1>3. /\ \A x \in SentMessage : x.room \in PageRooms
      /\ \A x \in Selection : x.room \in PageRooms /\ x.at \in Place /\ x.id \in Nat
      /\ \A x \in NoticeFrame : x.kind \in {"message", "notice"}
  BY DEF SentMessage, Selection, NoticeFrame
<1>4. \A r : N!OfRoom(r) \subseteq 0 .. Len(nSent)
  BY <1>1 DEF N!OfRoom, N!Ids
<1> QED BY <1>1, <1>2, <1>3, <1>4

LEMMA MarkedRead ==
    ASSUME NoticeBase, NEW r \in PageRooms, NEW id \in Nat, id <= Len(nSent),
           N!mark_room_read(r, id)
    PROVE  /\ nPosition' \in [PageRooms -> Nat]
           /\ \A q \in PageRooms : nPosition'[q] <= Len(nSent)
           /\ \A q \in PageRooms \ {r} : nPosition'[q] = nPosition[q]
           /\ nPosition'[r] \in {nPosition[r], id}
           /\ nPosition[r] <= nPosition'[r] /\ id <= nPosition'[r]
<1>1. nPosition \in [PageRooms -> Nat] /\ \A q \in PageRooms : nPosition[q] <= Len(nSent)
  BY DEF NoticeBase, NoticeTypes, NoticeBounds
<1>2. nPosition' = [nPosition EXCEPT ![r] = N!Max({nPosition[r], id})]
  BY DEF N!mark_room_read
<1>3. /\ N!Max({nPosition[r], id}) \in {nPosition[r], id}
      /\ nPosition[r] <= N!Max({nPosition[r], id}) /\ id <= N!Max({nPosition[r], id})
  BY <1>1, GreaterOf
<1> QED BY <1>1, <1>2, <1>3

LEMMA BaseStep == ASSUME NoticeBase, NoticeAct PROVE NoticeBase'
<1> USE NoticesAssumption DEF NoticeBase
<1>0. Len(nSent) \in Nat /\ DOMAIN nSent = 1 .. Len(nSent)
  BY BaseFacts
<1>1. ASSUME NEW r \in PageRooms, N!add_message(r) PROVE NoticeBase'
  <2>1. /\ nSent' \in Seq(SentMessage) /\ Len(nSent') = Len(nSent) + 1
        /\ DOMAIN nSent' = 1 .. Len(nSent) + 1
    BY <1>1 DEF N!add_message, SentMessage, NoticeTypes
  <2>2. NoticeTypes'
    BY <1>1, <2>1 DEF N!add_message, N!link, N!screen, N!sidebar, NoticeTypes
  <2>3. NoticeBounds'
    <3>1. UNCHANGED <<nPosition, nSelections, nLastMessageId, nReads, nDown>>
      BY <1>1 DEF N!add_message, N!link, N!screen
    <3>2. \A i \in Nat : i <= Len(nSent) => i <= Len(nSent')
      BY <1>0, <2>1
    <3>3. /\ \A q \in PageRooms : nPosition[q] \in Nat
          /\ nLastMessageId \in Nat /\ \A x \in nReads : x.id \in Nat
      BY DEF NoticeTypes
    <3> QED BY <1>0, <2>1, <3>1, <3>2, <3>3, BaseFacts DEF NoticeBounds
  <2>4. Unplugged'
    BY <1>1 DEF N!add_message, N!screen, N!sidebar, Unplugged
  <2> QED BY <2>2, <2>3, <2>4
<1>2. ASSUME NEW r \in PageRooms, N!ReadElsewhere(r) PROVE NoticeBase'
  <2>1. Leaves({r})
    BY <1>2, LeavesBehind DEF N!ReadElsewhere
  <2>2. N!Max(N!OfRoom(r)) \in Nat /\ N!Max(N!OfRoom(r)) <= Len(nSent)
    <3>1. N!OfRoom(r) # {}
      BY <1>2 DEF N!ReadElsewhere, N!get_unread
    <3>2. N!OfRoom(r) \subseteq 0 .. Len(nSent)
      BY BaseFacts
    <3>3. N!Max(N!OfRoom(r)) \in 0 .. Len(nSent)
      BY <1>0, <3>1, <3>2, GreatestOf
    <3> QED BY <1>0, <3>3
  <2>3. /\ nPosition' \in [PageRooms -> Nat]
        /\ \A q \in PageRooms : nPosition'[q] <= Len(nSent)
    BY <1>2, <2>2, MarkedRead DEF N!ReadElsewhere
  <2>4. NoticeTypes' /\ NoticeBounds'
    BY <1>2, <2>1, <2>3 DEF N!ReadElsewhere, N!link, N!screen, Leaves, NoticeTypes, NoticeBounds
  <2>5. Unplugged'
    BY <1>2, <2>1 DEF N!ReadElsewhere, N!screen, Unplugged, Leaves, NoticeTypes
  <2> QED BY <2>4, <2>5
<1>3. ASSUME NEW m \in DOMAIN nSent,
             \/ N!broadcast_to_room(m) \/ N!_handle_room_message(m)
             \/ N!PushFails(m) \/ N!notify_user(m)
      PROVE  NoticeBase'
  <2>1. nSent' \in Seq(SentMessage) /\ SentKept
    BY <1>3, Proceeds DEF N!broadcast_to_room, N!_handle_room_message, N!PushFails, N!notify_user
  <2>2. CASE UNCHANGED <<nDown, nAnswers, nExcused>>
    <3>1. UNCHANGED <<nPosition, nPage, nCurrentRoom, nSelections, nLastMessageId, nAsked, nReads>>
      BY <1>3 DEF N!broadcast_to_room, N!_handle_room_message, N!PushFails, N!notify_user,
                  N!link, N!screen, N!sidebar
    <3> QED BY <2>1, <2>2, <3>1 DEF SentKept, NoticeTypes, NoticeBounds, Unplugged
  <2>3. CASE N!broadcast_to_room(m) \/ N!notify_user(m)
    <3>1. UNCHANGED <<nPosition, nPage, nCurrentRoom, nSelections, nLastMessageId, nAsked, nReads>>
      BY <2>3 DEF N!broadcast_to_room, N!notify_user, N!screen, N!sidebar
    <3>2. \E R \in SUBSET PageRooms : Leaves(R)
      BY <2>3, LeavesBehind, LeavesNone, BaseFacts
      DEF N!broadcast_to_room, N!notify_user, N!Tell, N!sidebar
    <3>3. /\ nDown' \in Seq(NoticeFrame)
          /\ \A k \in DOMAIN nDown' : nDown'[k].id \in DOMAIN nSent
      <4>1. /\ [kind |-> "message", id |-> m] \in NoticeFrame
            /\ [kind |-> "notice", id |-> m] \in NoticeFrame
        BY <1>0 DEF NoticeFrame
      <4>2. \/ nDown' = nDown \/ nDown' = Append(nDown, [kind |-> "message", id |-> m])
            \/ nDown' = Append(nDown, [kind |-> "notice", id |-> m])
        BY <2>3 DEF N!broadcast_to_room, N!notify_user, N!Tell
      <4>3. PICK f \in NoticeFrame : f.id = m /\ (nDown' = nDown \/ nDown' = Append(nDown, f))
        BY <4>1, <4>2
      <4>4. nDown \in Seq(NoticeFrame) /\ \A k \in DOMAIN nDown : nDown[k].id \in DOMAIN nSent
        BY DEF NoticeTypes, NoticeBounds
      <4>5. CASE nDown' = Append(nDown, f)
        <5>1. /\ nDown' \in Seq(NoticeFrame) /\ DOMAIN nDown' = 1 .. Len(nDown) + 1
              /\ nDown'[Len(nDown) + 1] = f /\ DOMAIN nDown = 1 .. Len(nDown)
              /\ \A k \in 1 .. Len(nDown) : nDown'[k] = nDown[k]
          BY <4>4, <4>5
        <5> QED BY <4>3, <4>4, <5>1
      <4> QED BY <4>3, <4>4, <4>5
    <3>4. NoticeTypes' /\ NoticeBounds'
      BY <2>1, <3>1, <3>2, <3>3 DEF SentKept, Leaves, NoticeTypes, NoticeBounds
    <3>5. Unplugged'
      BY <3>1, <3>2 DEF Leaves, Unplugged, NoticeTypes
    <3> QED BY <3>4, <3>5
  <2> QED BY <1>3, <2>2, <2>3 DEF N!_handle_room_message, N!PushFails, N!link, N!sidebar
<1>4. ASSUME N!handle_room \/ N!disconnect \/ N!Connect \/ N!Rejoin \/ UNCHANGED N!vars
      PROVE  NoticeBase'
  <2>1. UNCHANGED <<nSent, nPosition, nPage, nCurrentRoom, nSelections, nLastMessageId, nDown, nAsked,
                    nAnswers, nReads, nExcused>>
    BY <1>4 DEF N!handle_room, N!disconnect, N!Connect, N!Rejoin, N!vars, N!link, N!screen, N!sidebar
  <2> QED BY <2>1 DEF NoticeTypes, NoticeBounds, Unplugged
<1>5. ASSUME NEW x \in nReads, N!mark_read_endpoint(x) PROVE NoticeBase'
  <2>1. x.room \in PageRooms /\ x.id \in Nat /\ x.id <= Len(nSent)
    BY DEF NoticeTypes, NoticeBounds
  <2>2. \E R \in SUBSET PageRooms : Leaves(R)
    BY <1>5, <2>1, LeavesBehind, LeavesNone DEF N!mark_read_endpoint
  <2>3. /\ nPosition' \in [PageRooms -> Nat]
        /\ \A q \in PageRooms : nPosition'[q] <= Len(nSent)
    BY <1>5, <2>1, MarkedRead DEF N!mark_read_endpoint
  <2>4. NoticeTypes' /\ NoticeBounds'
    BY <1>5, <2>2, <2>3 DEF N!mark_read_endpoint, N!link, N!screen, Leaves, NoticeTypes, NoticeBounds
  <2>5. Unplugged'
    BY <1>5, <2>2 DEF N!mark_read_endpoint, N!screen, Leaves, Unplugged, NoticeTypes
  <2> QED BY <2>4, <2>5
<1>6. ASSUME N!list_rooms PROVE NoticeBase'
  <2>1. [unread |-> [r \in PageRooms |-> N!get_unread(r, nPosition[r])], late |-> FALSE,
         clears |-> nExcused] \in Answer
    <3>1. \A r \in PageRooms : N!get_unread(r, nPosition[r]) \subseteq Nat
      BY BaseFacts DEF N!get_unread
    <3> QED BY <3>1 DEF NoticeTypes, Answer
  <2>2. nAnswers' \in Seq(Answer) /\ Len(nAnswers') = Len(nAnswers) + 1 /\ nAsked' = nAsked - 1
        /\ nAsked > 0 /\ nAsked' \in Nat /\ (nAsked = 1 => nAsked' = 0)
    BY <1>6, <2>1 DEF N!list_rooms, NoticeTypes
  <2>3. NoticeTypes' /\ NoticeBounds'
    BY <1>6, <2>2 DEF N!list_rooms, N!link, N!screen, NoticeTypes, NoticeBounds
  <2>4. Unplugged'
    BY <1>6, <2>2 DEF N!list_rooms, N!screen, Unplugged, NoticeTypes
  <2> QED BY <2>3, <2>4
<1>7. ASSUME N!OpenPage PROVE NoticeBase'
  BY <1>7 DEF N!OpenPage, N!link, NoticeTypes, NoticeBounds, Unplugged, N!Stages
<1>8. ASSUME N!loadPlugins PROVE NoticeBase'
  BY <1>8 DEF N!loadPlugins, N!link, N!sidebar, NoticeTypes, NoticeBounds, Unplugged, N!Stages
<1>9. ASSUME NEW r \in PageRooms, N!selectRoom(r) \/ N!Enter(r) PROVE NoticeBase'
  <2>1. CASE N!Choose(r)
    <3>1. /\ nSelections' \in Seq(Selection) /\ Len(nSelections') = Len(nSelections) + 1
          /\ nSelections'[Len(nSelections) + 1] = [room |-> r, at |-> "keys", id |-> 0]
          /\ \A n \in DOMAIN nSelections : nSelections'[n] = nSelections[n]
          /\ DOMAIN nSelections' = 1 .. Len(nSelections) + 1
          /\ DOMAIN nSelections = 1 .. Len(nSelections) /\ Len(nSelections) \in Nat
      <4>1. [room |-> r, at |-> "keys", id |-> 0] \in Selection
        BY DEF Selection, Place
      <4> QED BY <2>1, <4>1 DEF N!Choose, NoticeTypes
    <3>2. /\ UNCHANGED <<nSent, nPosition, nDown, nReads, nAsked, nAnswers, nExcused>>
          /\ nPage \subseteq nPage' /\ nPage' \subseteq N!Stages /\ "listed" \in nPage
          /\ "plugins" \in nPage' <=> "plugins" \in nPage
      BY <1>9 DEF N!selectRoom, N!Enter, N!sidebar, NoticeTypes, N!Stages
    <3>3. nCurrentRoom' = r /\ nLastMessageId' \in {0, nLastMessageId}
      BY <2>1 DEF N!Choose
    <3>4. NoticeTypes'
      BY <3>1, <3>2, <3>3 DEF NoticeTypes
    <3>5. NoticeBounds'
      BY <1>0, <3>1, <3>2, <3>3 DEF NoticeBounds
    <3>6. Unplugged'
      BY <3>1, <3>2, <3>3 DEF Unplugged
    <3> QED BY <3>4, <3>5, <3>6
  <2>2. CASE UNCHANGED <<nCurrentRoom, nLastMessageId, nSelections>>
    BY <1>9, <2>2 DEF N!selectRoom, N!Enter, N!Choose, N!sidebar, NoticeTypes, NoticeBounds,
                      Unplugged, N!Stages
  <2> QED BY <1>9, <2>1, <2>2 DEF N!selectRoom, N!Enter
<1>10. ASSUME NEW n \in DOMAIN nSelections, N!KeysLoaded(n) PROVE NoticeBase'
  <2>1. PICK a \in {"asked", "done"} :
           Moves(n, a, nSelections[n].id) /\ (a = "asked" => "plugins" \in nPage)
    <3> DEFINE fetch == "plugins" \in nPage /\ ~N!isLoadingMessages
    <3>1. PICK a \in {"asked", "done"} :
             nSelections' = [nSelections EXCEPT ![n].at = a] /\ (a = "asked" => fetch)
      BY <1>10 DEF N!KeysLoaded
    <3> QED BY <3>1, SelectionMoves DEF Place
  <2>2. /\ UNCHANGED <<nSent, nPosition, nDown, nReads, nAnswers, nExcused, nPage, nCurrentRoom>>
        /\ nLastMessageId' \in {0, nLastMessageId}
        /\ nAsked' = nAsked \/ ("plugins" \in nPage /\ nAsked' = nAsked + 1)
    BY <1>10 DEF N!KeysLoaded, N!loadRooms
  <2>3. NoticeTypes'
    BY <2>1, <2>2 DEF Moves, NoticeTypes
  <2>4. NoticeBounds'
    BY <1>0, <2>1, <2>2 DEF Moves, NoticeBounds
  <2>5. Unplugged'
    BY <2>1, <2>2 DEF Moves, Unplugged
  <2> QED BY <2>3, <2>4, <2>5
<1>11. ASSUME NEW n \in DOMAIN nSelections, N!loadMessages(n) \/ N!LoadFails(n)
       PROVE  NoticeBase'
  <2>0. "plugins" \in nPage /\ N!Loaded(n)
    BY <1>11 DEF N!loadMessages, N!LoadFails, Unplugged
  <2>1. nLastMessageId' \in 0 .. Len(nSent)
    <3> DEFINE S == N!OfRoom(nSelections[n].room) \cup {nLastMessageId}
    <3>1. S \subseteq 0 .. Len(nSent) /\ S # {}
      BY <1>0, BaseFacts DEF NoticeTypes, NoticeBounds
    <3>2. nLastMessageId' = N!Max(S) \/ nLastMessageId' = nLastMessageId
      BY <1>11 DEF N!loadMessages, N!LoadFails
    <3> HIDE DEF S
    <3>3. N!Max(S) \in 0 .. Len(nSent)
      BY <1>0, <3>1, GreatestOf
    <3> QED BY <1>0, <3>2, <3>3 DEF NoticeTypes, NoticeBounds
  <2>2. PICK a \in {"done", "marking"} : Moves(n, a, nLastMessageId')
    <3>1. PICK a \in {"done", "marking"} :
             nSelections' = [nSelections EXCEPT ![n].id = nLastMessageId', ![n].at = a]
      BY <2>0 DEF N!Loaded
    <3>2. a \in Place /\ nLastMessageId' \in Nat
      BY <2>1 DEF Place
    <3> QED BY <3>1, <3>2, SelectionLoads
  <2>3. /\ UNCHANGED <<nSent, nPosition, nDown, nReads, nAnswers, nExcused, nPage, nCurrentRoom>>
        /\ nAsked' = nAsked \/ nAsked' = nAsked + 1
    BY <1>11, <2>0 DEF N!loadMessages, N!LoadFails, N!Loaded, N!loadRooms, N!link
  <2>4. NoticeTypes'
    BY <2>1, <2>2, <2>3 DEF Moves, NoticeTypes
  <2>5. NoticeBounds'
    BY <1>0, <2>1, <2>2, <2>3 DEF Moves, NoticeBounds
  <2>6. Unplugged'
    BY <2>0, <2>3 DEF Unplugged
  <2> QED BY <2>4, <2>5, <2>6
<1>12. ASSUME NEW n \in DOMAIN nSelections, N!onRoomSelected(n) PROVE NoticeBase'
  <2>0. "plugins" \in nPage
    BY <1>12 DEF N!onRoomSelected, Unplugged
  <2>1. Moves(n, "done", nSelections[n].id)
    BY <1>12, SelectionMoves DEF N!onRoomSelected, Place
  <2>2. nSelections[n].room \in PageRooms /\ nSelections[n].id \in Nat
        /\ nSelections[n].id <= Len(nSent)
    BY BaseFacts DEF NoticeBounds
  <2>3. /\ nPosition' \in [PageRooms -> Nat]
        /\ \A q \in PageRooms : nPosition'[q] <= Len(nSent)
    BY <1>12, <2>2, MarkedRead DEF N!onRoomSelected
  <2>4. /\ UNCHANGED <<nSent, nDown, nReads, nAnswers, nExcused, nPage, nCurrentRoom,
                       nLastMessageId>>
        /\ nAsked' = nAsked + 1
    BY <1>12 DEF N!onRoomSelected, N!loadRooms, N!link
  <2>5. NoticeTypes'
    BY <2>1, <2>3, <2>4 DEF Moves, NoticeTypes
  <2>6. NoticeBounds'
    BY <1>0, <2>1, <2>2, <2>3, <2>4 DEF Moves, NoticeBounds
  <2>7. Unplugged'
    BY <2>0, <2>4 DEF Unplugged
  <2> QED BY <2>5, <2>6, <2>7
<1>13. ASSUME N!onRoomAction PROVE NoticeBase'
  <2>1. /\ nDown' \in Seq(NoticeFrame) /\ Len(nDown) \in Nat /\ Len(nDown) > 0
        /\ \A k \in DOMAIN nDown' : k + 1 \in DOMAIN nDown /\ nDown'[k] = nDown[k + 1]
        /\ Head(nDown) = nDown[1] /\ 1 \in DOMAIN nDown
    BY <1>13 DEF N!onRoomAction, NoticeTypes
  <2> DEFINE e == nDown[1]
             r == nSent[nDown[1].id].room
  <2>2. e.id \in DOMAIN nSent /\ e.id \in Nat /\ e.id <= Len(nSent) /\ r \in PageRooms
    BY <1>0, <2>1, BaseFacts
  <2>3. /\ UNCHANGED <<nSent, nPosition, nPage, nCurrentRoom, nSelections>>
        /\ nLastMessageId' \in {nLastMessageId, N!Max({nLastMessageId, e.id})}
        /\ nReads' = nReads \/ nReads' = nReads \cup {[room |-> r, id |-> e.id]}
        /\ nAsked' = nAsked \/ ("plugins" \in nPage /\ nAsked' = nAsked + 1)
    BY <1>13, <2>1 DEF N!onRoomAction, N!loadRooms
  <2>4. PICK R \in SUBSET PageRooms : Leaves(R)
    BY <1>13, <2>1, <2>2, LeavesBehind, LeavesNone DEF N!onRoomAction
  <2>5. nLastMessageId' \in Nat /\ nLastMessageId' <= Len(nSent)
    BY <2>2, <2>3, GreaterOf DEF NoticeTypes, NoticeBounds
  <2>6. NoticeTypes'
    BY <2>1, <2>2, <2>3, <2>4, <2>5 DEF Leaves, NoticeTypes
  <2>7. NoticeBounds'
    BY <1>0, <2>1, <2>2, <2>3, <2>5 DEF NoticeBounds
  <2>8. Unplugged'
    BY <2>3, <2>4 DEF Unplugged, Leaves, NoticeTypes
  <2> QED BY <2>6, <2>7, <2>8
<1>14. ASSUME NEW i \in DOMAIN nAnswers, N!createRoomItem(i) PROVE NoticeBase'
  <2>1. Draws(i)
    BY <1>14, AnswerDrawn
  <2>2. nExcused' \subseteq PageRooms
    BY <1>14 DEF N!createRoomItem, NoticeTypes
  <2>3. /\ UNCHANGED <<nSent, nPosition, nDown, nReads, nSelections, nCurrentRoom, nLastMessageId,
                       nAsked>>
        /\ nPage' = nPage \cup {"listed"}
    BY <1>14 DEF N!createRoomItem, N!link
  <2>4. NoticeTypes'
    BY <2>1, <2>2, <2>3 DEF Draws, NoticeTypes, N!Stages
  <2>5. NoticeBounds'
    BY <2>3 DEF NoticeBounds
  <2>6. Unplugged'
    <3>1. nAnswers # <<>> /\ nAnswers \in Seq(Answer)
      BY DEF NoticeTypes
    <3> QED BY <2>1, <2>3, <3>1 DEF Unplugged, Draws
  <2> QED BY <2>4, <2>5, <2>6
<1>15. ASSUME N!Drop PROVE NoticeBase'
  <2>1. nSent' \in Seq(SentMessage) /\ SentKept
    BY <1>15, Cuts DEF N!Drop
  <2>2. PICK R \in SUBSET PageRooms : Leaves(R)
    <3>1. {nSent[nDown[k].id].room : k \in DOMAIN nDown} \subseteq PageRooms
      BY BaseFacts
    <3> QED BY <1>15, <3>1, LeavesBehind DEF N!Drop
  <2>3. /\ UNCHANGED <<nPosition, nReads, nSelections, nCurrentRoom, nLastMessageId, nAsked, nPage>>
        /\ nDown' = <<>>
    BY <1>15 DEF N!Drop, N!Cut, N!screen
  <2>4. NoticeTypes' /\ NoticeBounds'
    BY <2>1, <2>2, <2>3 DEF SentKept, Leaves, NoticeTypes, NoticeBounds
  <2>5. Unplugged'
    BY <2>2, <2>3 DEF Leaves, Unplugged, NoticeTypes
  <2> QED BY <2>4, <2>5
<1>16. ASSUME N!ClosePage PROVE NoticeBase'
  <2>1. nSent' \in Seq(SentMessage) /\ SentKept
    BY <1>16, Cuts DEF N!ClosePage
  <2>2. /\ nPage' = {} /\ nCurrentRoom' = NoRoom /\ nSelections' = <<>> /\ nLastMessageId' = 0
        /\ nDown' = <<>> /\ nAsked' = 0 /\ nAnswers' = <<>> /\ nExcused' = {}
        /\ nPosition' = nPosition
    BY <1>16 DEF N!ClosePage, N!Cut
  <2>3. /\ nReads' \subseteq [room : PageRooms, id : Nat]
        /\ \A x \in nReads' : x.id <= Len(nSent)
    BY <1>16, BaseFacts DEF N!ClosePage, NoticeTypes, NoticeBounds
  <2>4. NoticeTypes' /\ NoticeBounds'
    BY <1>0, <2>1, <2>2, <2>3 DEF SentKept, NoticeTypes, NoticeBounds
  <2>5. Unplugged'
    BY <2>2 DEF Unplugged
  <2> QED BY <2>4, <2>5
<1> QED
  BY <1>1, <1>2, <1>3, <1>4, <1>5, <1>6, <1>7, <1>8, <1>9, <1>10, <1>11, <1>12, <1>13, <1>14,
     <1>15, <1>16 DEF NoticeAct, N!Next, N!Ids

-----------------------------------------------------------------------------
(* The numbers of the sidebar.                                             *)

\* The rooms in R are excused; of the others, what is not counted again stays as it was.
LEMMA NumbersStay ==
    ASSUME NoticeBase, NumbersInv, NEW R, Leaves(R), nBadge' = nBadge,
           \A r \in PageRooms \ R :
              \/ Coming(r)'
              \/ /\ Unread(r)' = Unread(r) /\ ~Coming(r)
                 /\ nPage' # {} => nPage # {}
                 /\ r # nCurrentRoom' \/ "plugins" \notin nPage' =>
                       r # nCurrentRoom \/ "plugins" \notin nPage
    PROVE  NumbersInv'
<1>0. Len(nAnswers) \in Nat /\ DOMAIN nAnswers = 1 .. Len(nAnswers)
      /\ (nAnswers = <<>> <=> Len(nAnswers) = 0) /\ (nAnswers' = <<>> <=> Len(nAnswers') = 0)
  BY DEF NoticeBase, NoticeTypes, Leaves
<1>1. LateFirst'
  BY DEF NumbersInv, LateFirst, Leaves
<1>2. Fresh' = Fresh /\ (Fresh => Newest'.unread = Newest.unread)
  BY <1>0 DEF Fresh, Newest, Leaves
<1>3. ASSUME NEW r \in PageRooms PROVE AnswerInv(r)' /\ NumberInv(r)'
  <2>1. CASE r \in R
    <3>1. r \in nExcused' /\ \A i \in DOMAIN nAnswers' : r \notin nAnswers'[i].clears
      BY <2>1 DEF Leaves
    <3> QED BY <3>1 DEF AnswerInv, NumberInv
  <2>2. CASE r \notin R
    <3>1. /\ r \in nExcused' <=> r \in nExcused
          /\ DOMAIN nAnswers' = DOMAIN nAnswers
          /\ \A i \in DOMAIN nAnswers : r \in nAnswers'[i].clears <=> r \in nAnswers[i].clears
      BY <2>2 DEF Leaves
    <3>2. AnswerInv(r) /\ NumberInv(r)
      BY DEF NumbersInv
    <3>3. AnswerInv(r)'
      BY <1>2, <2>2, <3>1, <3>2 DEF AnswerInv
    <3>4. NumberInv(r)'
      BY <1>2, <2>2, <3>1, <3>2 DEF NumberInv
    <3> QED BY <3>3, <3>4
  <2> QED BY <2>1, <2>2
<1> QED BY <1>1, <1>3 DEF NumbersInv

\* What comes for a room goes on coming, if nothing takes it away.
LEMMA ComingStays ==
    ASSUME NoticeBase, SentKept, NEW r, Coming(r),
           nAsked > 0 => nAsked' > 0,
           Selecting => Selecting' \/ nAsked' > 0,
           \A m \in N!OfRoom(r) : nSent[m].at # "done" =>
              \/ nSent'[m].at # "done"
              \/ \E l \in DOMAIN nDown' : nDown'[l].kind = "notice" /\ nDown'[l].id = m,
           \A k \in DOMAIN nDown : nDown[k].kind = "notice" /\ nSent[nDown[k].id].room = r =>
              \/ nAsked' > 0
              \/ \E l \in DOMAIN nDown' :
                    nDown'[l].kind = "notice" /\ nDown'[l].id = nDown[k].id
    PROVE  Coming(r)'
<1>1. CASE nAsked > 0 \/ Selecting
  BY <1>1 DEF Coming
<1>2. CASE \E m \in N!OfRoom(r) : nSent[m].at # "done"
  <2>1. PICK m \in N!OfRoom(r) : nSent[m].at # "done"
    BY <1>2
  <2>2. m \in DOMAIN nSent /\ nSent'[m].room = r /\ m \in N!OfRoom(r)'
    BY DEF SentKept, N!OfRoom, N!Ids
  <2> QED BY <2>1, <2>2 DEF Coming
<1>3. CASE \E k \in DOMAIN nDown : nDown[k].kind = "notice" /\ nSent[nDown[k].id].room = r
  <2>1. PICK k \in DOMAIN nDown : nDown[k].kind = "notice" /\ nSent[nDown[k].id].room = r
    BY <1>3
  <2>2. nSent'[nDown[k].id].room = r
    BY <2>1, BaseFacts DEF SentKept
  <2> QED BY <2>1, <2>2 DEF Coming
<1> QED BY <1>1, <1>2, <1>3 DEF Coming

\* The steps of a selection up to the fetch of history, and the end of the fetch.
LEMMA SelectionGoesOn ==
    ASSUME NoticeBase, NEW n \in DOMAIN nSelections,
           N!KeysLoaded(n) \/ N!loadMessages(n) \/ N!LoadFails(n)
    PROVE  /\ DOMAIN nSelections' = DOMAIN nSelections
           /\ nSelections'[n].room = nSelections[n].room
           /\ \A k \in DOMAIN nSelections \ {n} : nSelections'[k] = nSelections[k]
           /\ nAsked \in Nat /\ nAsked' \in {nAsked, nAsked + 1}
           /\ "plugins" \in nPage => nAsked' = nAsked + 1 \/ nSelections'[n].at # "done"
           /\ N!KeysLoaded(n) =>
                 /\ nSelections[n].at = "keys" /\ nSelections'[n].at \in {"asked", "done"}
                 /\ nSelections'[n].at = "done" => N!MissRoom(nSelections[n].room, 0)
           /\ N!loadMessages(n) \/ N!LoadFails(n) =>
                 /\ nSelections[n].at = "asked" /\ nSelections'[n].at \in {"marking", "done"}
                 /\ nSelections'[n].id = nLastMessageId'
<1>1. nSelections \in Seq(Selection) /\ NoticeTypes /\ nAsked \in Nat
  BY DEF NoticeBase, NoticeTypes
<1>2. CASE N!KeysLoaded(n)
  <2> DEFINE fetch == "plugins" \in nPage /\ ~N!isLoadingMessages
             a == IF fetch THEN "asked" ELSE "done"
  <2>1. /\ nSelections' = [nSelections EXCEPT ![n].at = a] /\ nSelections[n].at = "keys"
        /\ fetch \/ N!MissRoom(nSelections[n].room, 0)
        /\ IF "plugins" \in nPage /\ ~fetch THEN nAsked' = nAsked + 1 ELSE nAsked' = nAsked
    BY <1>2 DEF N!KeysLoaded, N!loadRooms
  <2>2. a \in Place /\ a \in {"asked", "done"} /\ (a = "done" <=> ~fetch)
    BY DEF Place
  <2> HIDE DEF a, fetch
  <2>3. Moves(n, a, nSelections[n].id)
    BY <1>1, <2>1, <2>2, SelectionMoves
  <2>4. ~ (N!loadMessages(n) \/ N!LoadFails(n))
    BY <2>1 DEF N!loadMessages, N!LoadFails
  <2> QED BY <1>1, <1>2, <2>1, <2>2, <2>3, <2>4 DEF Moves
<1>3. CASE N!loadMessages(n) \/ N!LoadFails(n)
  <2> DEFINE a == IF nLastMessageId' = 0 THEN "done" ELSE "marking"
  <2>1. /\ nSelections' = [nSelections EXCEPT ![n].id = nLastMessageId', ![n].at = a]
        /\ nSelections[n].at = "asked"
        /\ IF nLastMessageId' = 0 THEN nAsked' = nAsked + 1 ELSE nAsked' = nAsked
    BY <1>3 DEF N!loadMessages, N!LoadFails, N!Loaded, N!loadRooms
  <2>2. a \in Place /\ a \in {"marking", "done"} /\ (a = "done" <=> nLastMessageId' = 0)
    BY DEF Place
  <2>3. nLastMessageId' \in Nat
    BY <1>3, BaseStep DEF NoticeAct, N!Next, NoticeBase, NoticeTypes
  <2> HIDE DEF a
  <2>4. Moves(n, a, nLastMessageId')
    BY <1>1, <2>1, <2>2, <2>3, SelectionLoads
  <2>5. ~N!KeysLoaded(n)
    BY <2>1 DEF N!KeysLoaded
  <2> QED BY <1>1, <2>1, <2>2, <2>4, <2>5 DEF Moves
<1> QED BY <1>2, <1>3

LEMMA NumbersStep == ASSUME NoticeBase, NumbersInv, NoticeAct PROVE NumbersInv'
<1>0. Len(nSent) \in Nat /\ DOMAIN nSent = 1 .. Len(nSent) /\ NoticeTypes
  BY BaseFacts DEF NoticeBase
<1>1. ASSUME NEW q \in PageRooms, N!add_message(q) PROVE NumbersInv'
  <2>1. /\ DOMAIN nSent' = 1 .. Len(nSent) + 1
        /\ nSent'[Len(nSent) + 1].room = q /\ nSent'[Len(nSent) + 1].at = "broadcast"
        /\ \A m \in DOMAIN nSent : nSent'[m] = nSent[m]
    BY <1>0, <1>1 DEF N!add_message, NoticeTypes
  <2>2. UNCHANGED <<nPosition, nPage, nCurrentRoom, nSelections, nDown, nBadge, nAsked, nAnswers,
                    nExcused>>
    BY <1>1 DEF N!add_message, N!link, N!screen, N!sidebar
  <2>3. Leaves({})
    BY <1>0, <2>2, LeavesNone
  <2>4. Coming(q)'
    <3>1. Len(nSent) + 1 \in N!OfRoom(q)'
      BY <1>0, <2>1 DEF N!OfRoom, N!Ids
    <3> QED BY <2>1, <3>1 DEF Coming
  <2>5. ASSUME NEW r \in PageRooms, r # q
        PROVE  Unread(r)' = Unread(r) /\ (Coming(r) => Coming(r)')
    <3>1. N!OfRoom(r)' = N!OfRoom(r)
      BY <1>0, <2>1, <2>5 DEF N!OfRoom, N!Ids
    <3>2. Unread(r)' = Unread(r)
      BY <2>2, <3>1 DEF Unread, N!get_unread
    <3>3. \A m \in N!OfRoom(r) : nSent'[m] = nSent[m]
      BY <2>1 DEF N!OfRoom, N!Ids
    <3>4. \A k \in DOMAIN nDown : nSent'[nDown[k].id] = nSent[nDown[k].id]
      BY <2>1, BaseFacts
    <3> QED BY <2>2, <3>1, <3>2, <3>3, <3>4 DEF Coming, Selecting
  <2> QED BY <2>2, <2>3, <2>4, <2>5, NumbersStay
<1>2. ASSUME NEW q \in PageRooms, N!ReadElsewhere(q) PROVE NumbersInv'
  <2>1. Leaves({q})
    BY <1>0, <1>2, LeavesBehind DEF N!ReadElsewhere
  <2>2. /\ UNCHANGED <<nSent, nPage, nCurrentRoom, nSelections, nDown, nBadge, nAsked>>
        /\ \A r \in PageRooms \ {q} : nPosition'[r] = nPosition[r]
    BY <1>0, <1>2 DEF N!ReadElsewhere, N!link, N!screen, N!mark_room_read, NoticeTypes
  <2>3. \A r \in PageRooms \ {q} : Unread(r)' = Unread(r) /\ Coming(r)' = Coming(r)
    BY <2>2 DEF Unread, N!get_unread, N!OfRoom, N!Ids, Coming, Selecting
  <2> QED BY <2>1, <2>2, <2>3, NumbersStay
<1>3. ASSUME NEW m \in DOMAIN nSent,
             \/ N!broadcast_to_room(m) \/ N!_handle_room_message(m)
             \/ N!PushFails(m) \/ N!notify_user(m)
      PROVE  NumbersInv'
  <2>1. /\ SentKept /\ \A k \in DOMAIN nSent \ {m} : nSent'[k] = nSent[k]
        /\ nSent'[m].at # "done" \/ N!notify_user(m)
    BY <1>0, <1>3, Proceeds
    DEF N!broadcast_to_room, N!_handle_room_message, N!PushFails, N!notify_user
  <2>2. /\ UNCHANGED <<nPosition, nPage, nCurrentRoom, nSelections, nBadge, nAsked>>
    BY <1>3 DEF N!broadcast_to_room, N!_handle_room_message, N!PushFails, N!notify_user,
                N!link, N!screen, N!sidebar
  <2>3. /\ nDown \in Seq(NoticeFrame)
        /\ nDown' = nDown \/ \E f \in NoticeFrame : nDown' = Append(nDown, f)
    BY <1>0, <1>3
    DEF N!broadcast_to_room, N!_handle_room_message, N!PushFails, N!notify_user, N!Tell, N!link,
        NoticeFrame, NoticeTypes
  <2>4. \A k \in DOMAIN nDown : k \in DOMAIN nDown' /\ nDown'[k] = nDown[k]
    BY <2>3
  <2>5. \A r : Unread(r)' = Unread(r)
    BY <2>1, <2>2, KeptRooms DEF Unread
  <2>6. ASSUME NEW r, Coming(r), nSent[m].room # r \/ nSent'[m].at # "done"
               \/ \E l \in DOMAIN nDown' : nDown'[l].kind = "notice" /\ nDown'[l].id = m
        PROVE  Coming(r)'
    <3>1. \A k \in N!OfRoom(r) : nSent[k].at # "done" =>
              \/ nSent'[k].at # "done"
              \/ \E l \in DOMAIN nDown' : nDown'[l].kind = "notice" /\ nDown'[l].id = k
      BY <2>1, <2>6 DEF N!OfRoom, N!Ids
    <3>2. Selecting => Selecting'
      BY <2>2 DEF Selecting
    <3> QED BY <2>1, <2>2, <2>4, <2>6, <3>1, <3>2, ComingStays
  <2>7. CASE UNCHANGED <<nAnswers, nExcused>> /\ (nSent'[m].at # "done" \/ nSocket)
    <3>1. Leaves({})
      BY <1>0, <2>7, LeavesNone
    <3>2. nSent'[m].at # "done" \/ \E l \in DOMAIN nDown' : nDown'[l].kind = "notice" /\ nDown'[l].id = m
      BY <2>1, <2>3, <2>7 DEF N!notify_user, N!Tell
    <3>3. \A r \in PageRooms : Coming(r) => Coming(r)'
      BY <2>6, <3>2
    <3> QED BY <2>2, <2>5, <3>1, <3>3, NumbersStay
  <2>8. CASE N!notify_user(m) /\ ~nSocket
    <3>1. Leaves({nSent[m].room})
      BY <1>0, <2>8, LeavesBehind DEF N!notify_user, N!Tell
    <3>2. \A r \in PageRooms \ {nSent[m].room} : Coming(r) => Coming(r)'
      BY <2>6
    <3> QED BY <2>2, <2>5, <3>1, <3>2, NumbersStay
  <2> QED
    BY <1>3, <2>1, <2>7, <2>8
    DEF N!broadcast_to_room, N!_handle_room_message, N!PushFails, N!notify_user, N!Tell,
        N!sidebar
<1>4. ASSUME N!handle_room \/ N!disconnect \/ N!Connect \/ N!Rejoin \/ UNCHANGED N!vars
      PROVE  NumbersInv'
  <2>1. UNCHANGED <<nSent, nPosition, nPage, nCurrentRoom, nSelections, nDown, nAsked, nBadge,
                    nAnswers, nExcused>>
    BY <1>4 DEF N!handle_room, N!disconnect, N!Connect, N!Rejoin, N!vars, N!link, N!screen, N!sidebar
  <2> QED BY <2>1 DEF NumbersInv, LateFirst, AnswerInv, NumberInv, Fresh, Newest, Unread,
                      N!get_unread, N!OfRoom, N!Ids, Coming, Selecting
<1>5. ASSUME NEW x \in nReads, N!mark_read_endpoint(x) PROVE NumbersInv'
  <2>1. /\ UNCHANGED <<nSent, nPage, nCurrentRoom, nSelections, nDown, nBadge, nAsked>>
        /\ \A r \in PageRooms \ {x.room} : nPosition'[r] = nPosition[r]
    BY <1>0, <1>5 DEF N!mark_read_endpoint, N!link, N!screen, N!mark_room_read, NoticeTypes
  <2>2. \A r \in PageRooms : Coming(r)' = Coming(r)
    BY <2>1 DEF N!OfRoom, N!Ids, Coming, Selecting
  <2>3. \A r \in PageRooms : nPosition'[r] = nPosition[r] => Unread(r)' = Unread(r)
    BY <2>1 DEF N!OfRoom, N!Ids, Unread, N!get_unread
  <2>4. CASE nAsked = 0 /\ nPosition' # nPosition
    <3>1. Leaves({x.room})
      BY <1>0, <1>5, <2>4, LeavesBehind DEF N!mark_read_endpoint
    <3> QED BY <2>1, <2>2, <2>3, <3>1, NumbersStay
  <2>5. CASE ~ (nAsked = 0 /\ nPosition' # nPosition)
    <3>1. Leaves({})
      BY <1>0, <1>5, <2>5, LeavesNone DEF N!mark_read_endpoint
    <3>2. \A r \in PageRooms : Coming(r) \/ Unread(r)' = Unread(r)
      BY <1>0, <2>3, <2>5 DEF NoticeTypes, Coming
    <3> QED BY <2>1, <2>2, <3>1, <3>2, NumbersStay
  <2> QED BY <2>4, <2>5
<1>6. ASSUME N!list_rooms PROVE NumbersInv'
  <2> DEFINE a == [unread |-> [r \in PageRooms |-> N!get_unread(r, nPosition[r])], late |-> FALSE,
                   clears |-> nExcused]
  <2>1. nAnswers' = Append(nAnswers, a) /\ nAnswers \in Seq(Answer)
    BY <1>0, <1>6 DEF N!list_rooms, NoticeTypes
  <2>2. /\ ~a.late /\ a.clears = nExcused
        /\ \A r \in PageRooms : a.unread[r] = Unread(r)
    BY DEF Unread
  <2> HIDE DEF a
  <2>3. /\ Len(nAnswers) \in Nat /\ DOMAIN nAnswers = 1 .. Len(nAnswers)
        /\ DOMAIN nAnswers' = 1 .. Len(nAnswers) + 1 /\ Len(nAnswers') = Len(nAnswers) + 1
        /\ nAnswers'[Len(nAnswers) + 1] = a /\ nAnswers' # <<>>
        /\ \A j \in DOMAIN nAnswers : nAnswers'[j] = nAnswers[j]
    BY <2>1
  <2>4. LateFirst'
    BY <2>2, <2>3 DEF NumbersInv, LateFirst
  <2>5. UNCHANGED <<nSent, nPosition, nExcused>>
    BY <1>6 DEF N!list_rooms
  <2>6. Fresh' /\ \A r \in PageRooms : Newest'.unread[r] = Unread(r)'
    <3>1. Newest' = a
      BY <2>3 DEF Newest
    <3>2. \A r \in PageRooms : Unread(r)' = Unread(r)
      BY <2>5 DEF N!OfRoom, N!Ids, Unread, N!get_unread
    <3> QED BY <2>2, <2>3, <3>1, <3>2 DEF Fresh
  <2> QED BY <2>4, <2>6 DEF NumbersInv, AnswerInv, NumberInv
<1>7. ASSUME N!OpenPage PROVE NumbersInv'
  <2>1. nAsked' = 1 /\ nAnswers' = nAnswers
    BY <1>7 DEF N!OpenPage
  <2>2. LateFirst' /\ \A r : Coming(r)'
    BY <2>1 DEF NumbersInv, LateFirst, Coming
  <2> QED BY <2>2 DEF NumbersInv, AnswerInv, NumberInv
<1>8. ASSUME N!loadPlugins PROVE NumbersInv'
  <2>1. /\ UNCHANGED <<nSent, nPosition, nCurrentRoom, nSelections, nDown, nAsked, nBadge, nAnswers,
                       nExcused>>
        /\ nPage # {} /\ "plugins" \notin nPage /\ "plugins" \in nPage'
    BY <1>8 DEF N!loadPlugins, N!link, N!sidebar
  <2>2. Leaves({})
    BY <1>0, <2>1, LeavesNone
  <2>3. \A r \in PageRooms : Unread(r)' = Unread(r) /\ (Coming(r) => Coming(r)')
    BY <2>1 DEF N!OfRoom, N!Ids, Unread, N!get_unread, Coming, Selecting
  <2> QED BY <2>1, <2>2, <2>3, NumbersStay
<1>9. ASSUME NEW q \in PageRooms, N!selectRoom(q) \/ N!Enter(q) PROVE NumbersInv'
  <2>1. /\ UNCHANGED <<nSent, nPosition, nDown, nAsked, nBadge, nAnswers, nExcused>>
        /\ nPage # {} /\ ("plugins" \in nPage' <=> "plugins" \in nPage)
    BY <1>9 DEF N!selectRoom, N!Enter, N!sidebar
  <2>2. Leaves({})
    BY <1>0, <2>1, LeavesNone
  <2>3. \A r \in PageRooms : Unread(r)' = Unread(r)
    BY <2>1 DEF N!OfRoom, N!Ids, Unread, N!get_unread
  <2>4. CASE N!Choose(q) /\ "plugins" \in nPage
    <3>1. \E n \in DOMAIN nSelections' : nSelections'[n].at # "done"
      <4>1. /\ Len(nSelections) + 1 \in DOMAIN nSelections'
            /\ nSelections'[Len(nSelections) + 1] = [room |-> q, at |-> "keys", id |-> 0]
        BY <1>0, <2>4 DEF N!Choose, NoticeTypes
      <4> QED BY <4>1
    <3>2. Selecting'
      BY <2>1, <2>4, <3>1 DEF Selecting
    <3> QED BY <2>1, <2>2, <3>2, NumbersStay DEF Coming
  <2>5. CASE N!selectRoom(q) /\ "plugins" \notin nPage
    <3>1. \A r \in PageRooms : Coming(r) => Coming(r)'
      BY <2>1, <2>5 DEF N!OfRoom, N!Ids, Coming, Selecting
    <3> QED BY <2>1, <2>2, <2>3, <2>5, <3>1, NumbersStay
  <2>6. CASE UNCHANGED <<nCurrentRoom, nSelections>>
    <3>1. \A r \in PageRooms : Coming(r) => Coming(r)'
      BY <2>1, <2>6 DEF N!OfRoom, N!Ids, Coming, Selecting
    <3> QED BY <2>1, <2>2, <2>3, <2>6, <3>1, NumbersStay
  <2> QED BY <1>9, <2>4, <2>5, <2>6 DEF N!selectRoom, N!Enter
<1>10. ASSUME NEW n \in DOMAIN nSelections,
              N!KeysLoaded(n) \/ N!loadMessages(n) \/ N!LoadFails(n)
       PROVE  NumbersInv'
  <2>1. /\ UNCHANGED <<nSent, nPosition, nPage, nCurrentRoom, nDown, nBadge, nAnswers, nExcused>>
        /\ nAsked' = nAsked \/ nAsked' = nAsked + 1
    BY <1>10 DEF N!KeysLoaded, N!loadMessages, N!LoadFails, N!Loaded, N!loadRooms, N!link
  <2>2. Leaves({})
    BY <1>0, <2>1, LeavesNone
  <2>3. \A r \in PageRooms : Unread(r)' = Unread(r)
    BY <2>1 DEF N!OfRoom, N!Ids, Unread, N!get_unread
  <2>4. nAsked \in Nat
    BY <1>0 DEF NoticeTypes
  <2>5. Selecting => Selecting' \/ nAsked' > 0
    BY <1>10, <2>1, SelectionGoesOn DEF Selecting
  <2>6. SentKept
    BY <2>1 DEF SentKept
  <2>7. \A r \in PageRooms : Coming(r) => Coming(r)'
    BY <2>1, <2>4, <2>5, <2>6, ComingStays
  <2> QED BY <2>1, <2>2, <2>3, <2>7, NumbersStay
<1>11. ASSUME NEW n \in DOMAIN nSelections, N!onRoomSelected(n) PROVE NumbersInv'
  <2>1. /\ UNCHANGED <<nBadge, nAnswers, nExcused>> /\ nAsked' = nAsked + 1 /\ nAsked \in Nat
    BY <1>0, <1>11 DEF N!onRoomSelected, N!loadRooms, NoticeTypes
  <2>2. Leaves({})
    BY <1>0, <2>1, LeavesNone
  <2>3. \A r : Coming(r)'
    BY <2>1 DEF Coming
  <2> QED BY <2>1, <2>2, <2>3, NumbersStay
<1>12. ASSUME N!onRoomAction PROVE NumbersInv'
  <2>1. /\ DOMAIN nDown' = 1 .. Len(nDown) - 1 /\ Len(nDown) \in Nat /\ Len(nDown) > 0
        /\ DOMAIN nDown = 1 .. Len(nDown)
        /\ \A k \in DOMAIN nDown' : nDown'[k] = nDown[k + 1]
        /\ Head(nDown) = nDown[1] /\ 1 \in DOMAIN nDown
    BY <1>0, <1>12 DEF N!onRoomAction, NoticeTypes
  <2>2. /\ UNCHANGED <<nSent, nPosition, nPage, nCurrentRoom, nSelections, nBadge>>
        /\ nAsked' = nAsked \/ nAsked' = nAsked + 1
        /\ "plugins" \in nPage =>
              /\ UNCHANGED <<nAnswers, nExcused>>
              /\ nDown[1].kind = "notice" => nAsked' = nAsked + 1
        /\ "plugins" \notin nPage => N!LeftBehind({nSent[nDown[1].id].room})
    BY <1>12, <2>1 DEF N!onRoomAction, N!loadRooms
  <2>3. \A r \in PageRooms : Unread(r)' = Unread(r)
    BY <2>2 DEF N!OfRoom, N!Ids, Unread, N!get_unread
  <2>4. nAsked \in Nat
    BY <1>0 DEF NoticeTypes
  <2>5. \A k \in DOMAIN nDown :
           k = 1 \/ (k - 1 \in DOMAIN nDown' /\ nDown'[k - 1] = nDown[k])
    BY <2>1
  <2>6. ASSUME NEW r \in PageRooms, Coming(r),
               nAsked' = nAsked + 1 \/ nDown[1].kind # "notice" \/ nSent[nDown[1].id].room # r
        PROVE  Coming(r)'
    <3>1. CASE nAsked' = nAsked + 1
      BY <2>4, <3>1 DEF Coming
    <3>2. CASE nDown[1].kind # "notice" \/ nSent[nDown[1].id].room # r
      <4>1. \A k \in DOMAIN nDown : nDown[k].kind = "notice" /\ nSent[nDown[k].id].room = r =>
               \E l \in DOMAIN nDown' : nDown'[l].kind = "notice" /\ nDown'[l].id = nDown[k].id
        BY <2>5, <3>2
      <4>2. SentKept /\ (Selecting => Selecting') /\ (nAsked > 0 => nAsked' > 0)
        BY <2>2, <2>4 DEF SentKept, Selecting
      <4>3. \A m \in N!OfRoom(r) : nSent'[m] = nSent[m]
        BY <2>2
      <4> QED BY <2>6, <4>1, <4>2, <4>3, ComingStays
    <3> QED BY <2>6, <3>1, <3>2
  <2>7. CASE "plugins" \in nPage
    <3>1. Leaves({})
      BY <1>0, <2>2, <2>7, LeavesNone
    <3> QED BY <2>2, <2>3, <2>6, <2>7, <3>1, NumbersStay
  <2>8. CASE "plugins" \notin nPage
    <3>1. Leaves({nSent[nDown[1].id].room})
      BY <1>0, <2>2, <2>8, LeavesBehind
    <3> QED BY <2>2, <2>3, <2>6, <2>8, <3>1, NumbersStay
  <2> QED BY <2>7, <2>8
<1>13. ASSUME NEW i \in DOMAIN nAnswers, N!createRoomItem(i) PROVE NumbersInv'
  <2>0. /\ Len(nAnswers) \in Nat /\ DOMAIN nAnswers = 1 .. Len(nAnswers)
        /\ Draws(i) /\ Len(nAnswers') = Len(nAnswers) - 1 /\ nAnswers' \in Seq(Answer)
        /\ DOMAIN nAnswers' = 1 .. Len(nAnswers) - 1 /\ i \in 1 .. Len(nAnswers)
    BY <1>0, <1>13, AnswerDrawn DEF NoticeTypes, Draws
  <2>1. /\ UNCHANGED <<nSent, nPosition, nCurrentRoom, nSelections, nDown, nAsked>>
        /\ nPage' = nPage \cup {"listed"}
        /\ nExcused' = IF nAnswers[i].late THEN PageRooms ELSE nExcused \ nAnswers[i].clears
        /\ \A r \in PageRooms : r # nCurrentRoom => nBadge'[r] = N!Cardinality(nAnswers[i].unread[r])
    BY <1>13 DEF N!createRoomItem, N!link
  <2>2. LateFirst'
    <3> SUFFICES ASSUME NEW p \in DOMAIN nAnswers', NEW q \in DOMAIN nAnswers', p < q,
                        nAnswers'[q].late
                 PROVE  nAnswers'[p].late
      BY DEF LateFirst
    <3> DEFINE kp == IF p < i THEN p ELSE p + 1
               kq == IF q < i THEN q ELSE q + 1
    <3>1. kp \in DOMAIN nAnswers /\ kq \in DOMAIN nAnswers /\ kp < kq
      BY <2>0
    <3>2. /\ nAnswers'[p].late = (nAnswers[kp].late \/ kp < i)
          /\ nAnswers'[q].late = (nAnswers[kq].late \/ kq < i)
      BY <2>0 DEF Draws
    <3>3. nAnswers[kq].late => nAnswers[kp].late
      BY <3>1 DEF NumbersInv, LateFirst
    <3>4. kq < i => kp < i
      BY <2>0
    <3> QED BY <3>2, <3>3, <3>4
  <2>3. Fresh' => /\ i < Len(nAnswers) /\ Fresh /\ Newest'.unread = Newest.unread
    <3> SUFFICES ASSUME Fresh'
                 PROVE  i < Len(nAnswers) /\ Fresh /\ Newest'.unread = Newest.unread
      OBVIOUS
    <3> DEFINE l == Len(nAnswers) - 1
    <3>1. l \in DOMAIN nAnswers' /\ nAnswers # <<>>
      BY <2>0 DEF Fresh
    <3>2. ~nAnswers'[l].late
      BY <2>0 DEF Fresh, Newest
    <3>3. ~ (l < i)
      BY <2>0, <3>1, <3>2 DEF Draws
    <3>4. nAnswers'[l].unread = nAnswers[l + 1].unread /\ ~nAnswers[l + 1].late
      BY <2>0, <3>1, <3>2, <3>3 DEF Draws
    <3>5. l + 1 = Len(nAnswers) /\ l = Len(nAnswers') /\ i < Len(nAnswers)
      BY <2>0, <3>3
    <3> HIDE DEF l
    <3> QED BY <3>1, <3>4, <3>5 DEF Fresh, Newest
  <2>4. \A r \in PageRooms : Unread(r)' = Unread(r) /\ Coming(r)' = Coming(r)
    <3>1. Selecting' = Selecting
      BY <2>1 DEF Selecting
    <3> QED BY <2>1, <3>1 DEF N!OfRoom, N!Ids, Unread, N!get_unread, Coming
  <2>5. ASSUME NEW r \in PageRooms PROVE AnswerInv(r)'
    <3> SUFFICES ASSUME Fresh', r \in nExcused' => \E j \in DOMAIN nAnswers' : r \in nAnswers'[j].clears
                 PROVE  Newest'.unread[r] = Unread(r)' \/ Coming(r)'
      BY DEF AnswerInv
    <3>1. r \in nExcused => \E k \in DOMAIN nAnswers : r \in nAnswers[k].clears
      <4>1. CASE r \in nExcused'
        BY <2>0, <4>1 DEF Draws
      <4>2. CASE r \notin nExcused'
        BY <2>1, <4>2
      <4> QED BY <4>1, <4>2
    <3> QED BY <2>3, <2>4, <3>1 DEF NumbersInv, AnswerInv
  <2>6. ASSUME NEW r \in PageRooms PROVE NumberInv(r)'
    <3> SUFFICES ASSUME r \notin nExcused', r # nCurrentRoom \/ "plugins" \notin nPage
                 PROVE  nBadge'[r] = N!Cardinality(Unread(r)') \/ Coming(r)' \/ Fresh'
      BY <2>1 DEF NumberInv
    <3>1. r # nCurrentRoom
      <4>1. nAnswers # <<>>
        BY <2>0
      <4> QED BY <4>1, NoticesAssumption DEF NoticeBase, Unplugged
    <3>2. ~nAnswers[i].late /\ (r \in nExcused => r \in nAnswers[i].clears)
      BY <2>1
    <3>3. CASE i = Len(nAnswers)
      <4>1. Fresh /\ Newest = nAnswers[i]
        BY <2>0, <3>2, <3>3 DEF Fresh, Newest
      <4>2. nAnswers[i].unread[r] = Unread(r) \/ Coming(r)
        BY <3>2, <4>1 DEF NumbersInv, AnswerInv
      <4> QED BY <2>1, <2>4, <3>1, <4>2
    <3>4. CASE i < Len(nAnswers)
      <4> DEFINE l == Len(nAnswers) - 1
      <4>1. l \in DOMAIN nAnswers' /\ ~ (l < i) /\ l + 1 = Len(nAnswers) /\ l = Len(nAnswers')
        BY <2>0, <3>4
      <4>2. ~nAnswers[l + 1].late
        BY <2>0, <3>2, <3>4 DEF NumbersInv, LateFirst
      <4>3. nAnswers'[l].late = (nAnswers[l + 1].late \/ l + 1 < i)
        BY <2>0, <4>1 DEF Draws
      <4>4. Fresh'
        <5>0. ~ (l + 1 < i)
          BY <2>0, <3>4
        <5> HIDE DEF l
        <5>1. ~nAnswers'[l].late
          BY <4>2, <4>3, <5>0, Zenon
        <5>2. nAnswers' # <<>>
          BY <4>1
        <5> QED BY <4>1, <5>1, <5>2, Zenon DEF Fresh, Newest
      <4> QED BY <4>4
    <3> QED BY <2>0, <3>3, <3>4
  <2> QED BY <2>2, <2>5, <2>6 DEF NumbersInv
<1>14. ASSUME N!Drop PROVE NumbersInv'
  <2>1. SentKept /\ \A m \in DOMAIN nSent : nSent'[m].at = nSent[m].at
    BY <1>0, <1>14, Cuts DEF N!Drop
  <2>2. UNCHANGED <<nPosition, nSelections, nCurrentRoom, nAsked, nPage, nBadge>>
    BY <1>14 DEF N!Drop, N!screen
  <2> DEFINE R == {nSent[nDown[k].id].room : k \in DOMAIN nDown}
  <2>3. Leaves(R)
    BY <1>0, <1>14, LeavesBehind DEF N!Drop
  <2>4. \A r : Unread(r)' = Unread(r)
    BY <2>1, <2>2, KeptRooms DEF Unread
  <2>5. ASSUME NEW r \in PageRooms \ R, Coming(r) PROVE Coming(r)'
    <3>1. Selecting => Selecting'
      BY <2>2 DEF Selecting
    <3>2. \A m \in N!OfRoom(r) : nSent'[m].at = nSent[m].at
      BY <2>1 DEF N!OfRoom, N!Ids
    <3> QED BY <2>1, <2>2, <2>5, <3>1, <3>2, ComingStays
  <2> HIDE DEF R
  <2> QED BY <2>2, <2>3, <2>4, <2>5, NumbersStay
<1>15. ASSUME N!ClosePage PROVE NumbersInv'
  <2>1. nPage' = {} /\ nAnswers' = <<>>
    BY <1>15 DEF N!ClosePage
  <2> QED BY <2>1 DEF NumbersInv, LateFirst, AnswerInv, NumberInv, Fresh
<1> QED
  BY <1>1, <1>2, <1>3, <1>4, <1>5, <1>6, <1>7, <1>8, <1>9, <1>10, <1>11, <1>12, <1>13, <1>14,
     <1>15 DEF NoticeAct, N!Next, N!Ids

LEMMA NoticeInit == ASSUME N!Init PROVE NoticeBase /\ NumbersInv
<1> USE DEF N!Init
<1>1. NoticeTypes
  BY DEF NoticeTypes, N!Stages
<1>2. NoticeBounds /\ Unplugged
  BY NoticesAssumption DEF NoticeBounds, Unplugged, N!Stages
<1>3. LateFirst /\ ~Fresh
  BY DEF LateFirst, Fresh
<1>4. \A r \in PageRooms : nBadge[r] = N!Cardinality(Unread(r))
  <2>1. \A r : Unread(r) = {}
    BY DEF Unread, N!get_unread, N!OfRoom, N!Ids
  <2>2. N!Cardinality({}) = Cardinality({})
    BY Zenon DEF N!Cardinality, Cardinality
  <2> QED BY <2>1, <2>2, FS_EmptySet
<1> QED BY <1>1, <1>2, <1>3, <1>4 DEF NoticeBase, NumbersInv, AnswerInv, NumberInv

\* When all is quiet, the number next to a room is that of its messages after the read
\* position, whatever requests, answers, notices and losses were interleaved, but for the
\* excused rooms (loadRooms, notify_user, mark_room_read).
THEOREM NumbersAreRight == N!Spec => []BadgesAreRight
<1>1. NoticeBase /\ NumbersInv => BadgesAreRight
  <2> SUFFICES ASSUME NoticeBase, NumbersInv, N!Quiet, nPage # {},
                      NEW r \in PageRooms \ (nExcused \cup {nCurrentRoom})
               PROVE  nBadge[r] = N!Cardinality({m \in N!OfRoom(r) : m > nPosition[r]})
    BY DEF BadgesAreRight, N!BadgesAreRight
  <2>1. ~Fresh /\ ~Coming(r)
    BY DEF N!Quiet, N!Ids, N!OfRoom, Fresh, Coming, Selecting
  <2>2. nBadge[r] = N!Cardinality(Unread(r))
    BY <2>1 DEF NumbersInv, NumberInv
  <2> QED BY <2>2 DEF Unread, N!get_unread
<1>2. NoticeBase /\ NumbersInv /\ [N!Next]_(N!vars) => NoticeBase' /\ NumbersInv'
  BY BaseStep, NumbersStep DEF NoticeAct
<1> QED BY NoticeInit, <1>1, <1>2, PTL DEF N!Spec

-----------------------------------------------------------------------------
(* No message is lost between the socket, the sidebar and the push.        *)

\* The step of one message, or none, on the wire.
LEMMA WireStays ==
    ASSUME NoticeBase, WireInOrder, SentKept,
           \A m \in DOMAIN nSent : nSent'[m].at = "broadcast" => nSent[m].at = "broadcast",
           NEW d \in {0, 1}, DOMAIN nDown' \subseteq Nat,
           \A k \in DOMAIN nDown' :
              nDown'[k].kind = "message" => k + d \in DOMAIN nDown /\ nDown'[k] = nDown[k + d]
    PROVE  WireInOrder'
<1> DEFINE room(k) == nSent[nDown[k].id].room
<1>1. ASSUME NEW k \in Messages'
      PROVE  /\ k \in Nat /\ k + d \in Messages
             /\ nDown'[k] = nDown[k + d] /\ nSent'[nDown'[k].id].room = room(k + d)
  BY <1>1, BaseFacts DEF Messages, SentKept
<1>2. ASSUME NEW k \in Messages',
             NEW m \in N!OfRoom(nSent[nDown[k].id].room)', m <= nDown'[k].id
      PROVE  nSent'[m].at # "broadcast"
  <2>1. m \in N!OfRoom(room(k + d)) /\ m \in DOMAIN nSent
    <3>1. m \in DOMAIN nSent /\ nSent[m].room = nSent'[nDown'[k].id].room
      BY <1>2 DEF SentKept, N!OfRoom, N!Ids
    <3> QED BY <1>1, <3>1 DEF N!OfRoom, N!Ids
  <2>2. nSent[m].at # "broadcast"
    BY <1>1, <1>2, <2>1 DEF WireInOrder
  <2> QED BY <2>1, <2>2
<1>3. ASSUME NEW k \in Messages', NEW l \in Messages', k < l,
             nSent'[nDown'[l].id].room = nSent'[nDown'[k].id].room
      PROVE  nDown'[k].id < nDown'[l].id
  <2>1. k + d < l + d
    BY <1>1, <1>3
  <2> QED BY <1>1, <1>3, <2>1 DEF WireInOrder
<1> QED BY <1>2, <1>3 DEF WireInOrder

LEMMA WireStep == ASSUME InOrder, NoticeBase, WireInOrder, NoticeAct PROVE WireInOrder'
<1>0. /\ Len(nSent) \in Nat /\ DOMAIN nSent = 1 .. Len(nSent) /\ NoticeTypes
      /\ Len(nDown) \in Nat /\ DOMAIN nDown = 1 .. Len(nDown)
  BY BaseFacts DEF NoticeBase, NoticeTypes
<1>1. ASSUME NEW q \in PageRooms, N!add_message(q) PROVE WireInOrder'
  <2>1. /\ DOMAIN nSent' = 1 .. Len(nSent) + 1
        /\ \A m \in DOMAIN nSent : nSent'[m] = nSent[m]
        /\ nDown' = nDown
    BY <1>0, <1>1 DEF N!add_message, N!link, NoticeTypes
  <2>2. ASSUME NEW k \in Messages
        PROVE  /\ nDown[k].id \in DOMAIN nSent
               /\ nSent'[nDown[k].id].room = nSent[nDown[k].id].room
    BY <2>1, BaseFacts DEF Messages
  <2>3. ASSUME NEW r, NEW m \in N!OfRoom(r)', NEW i \in DOMAIN nSent, m <= i
        PROVE  m \in N!OfRoom(r) /\ nSent'[m] = nSent[m]
    BY <1>0, <2>1, <2>3 DEF N!OfRoom, N!Ids
  <2>4. Messages' = Messages
    BY <2>1 DEF Messages
  <2> QED BY <2>1, <2>2, <2>3, <2>4 DEF WireInOrder
<1>2. ASSUME NEW m \in DOMAIN nSent, N!broadcast_to_room(m) PROVE WireInOrder'
  <2>1. /\ SentKept /\ nSent[m].at = "broadcast" /\ nSent'[m].at = "push"
        /\ \A k \in DOMAIN nSent \ {m} : nSent'[k] = nSent[k]
    BY <1>0, <1>2, Proceeds DEF N!broadcast_to_room
  <2>2. \A k \in N!OfRoom(nSent[m].room) : k < m => nSent[k].at # "broadcast"
    BY <1>2 DEF N!broadcast_to_room
  <2>3. CASE nDown' = nDown
    BY <1>0, <2>1, <2>3, WireStays
  <2>4. CASE nDown' # nDown
    <3> DEFINE f == [kind |-> "message", id |-> m]
               o == Len(nDown) + 1
    <3>1. nDown' = Append(nDown, f) /\ nDown \in Seq(NoticeFrame)
      BY <1>0, <1>2, <2>4 DEF N!broadcast_to_room, NoticeTypes
    <3>2. /\ f.kind = "message" /\ f.id = m /\ f \in NoticeFrame
      BY <1>0 DEF NoticeFrame
    <3> HIDE DEF f
    <3>3. /\ DOMAIN nDown' = 1 .. o /\ nDown'[o] = f
          /\ \A k \in DOMAIN nDown : nDown'[k] = nDown[k]
      BY <3>1, <3>2
    <3>4. Messages' = Messages \cup {o} /\ \A k \in Messages : k \in 1 .. Len(nDown)
      BY <1>0, <3>2, <3>3 DEF Messages
    <3>5. ASSUME NEW k \in Messages
          PROVE  /\ nDown'[k] = nDown[k] /\ nDown[k].id \in DOMAIN nSent
                 /\ nSent'[nDown[k].id].room = nSent[nDown[k].id].room
      BY <2>1, <3>3, BaseFacts DEF Messages, SentKept
    <3>6. nDown'[o].id = m /\ nSent'[m].room = nSent[m].room
      BY <2>1, <3>2, <3>3 DEF SentKept
    <3>7. ASSUME NEW k \in Messages', NEW j \in N!OfRoom(nSent[nDown[k].id].room)',
                 j <= nDown'[k].id
          PROVE  nSent'[j].at # "broadcast"
      <4>1. j \in DOMAIN nSent /\ j \in N!OfRoom(nSent'[nDown'[k].id].room)
        BY <2>1, KeptRooms DEF N!OfRoom, N!Ids
      <4>2. CASE j = m
        BY <2>1, <4>2
      <4>3. CASE j # m /\ k = o
        <5>1. j < m
          BY <1>0, <3>6, <3>7, <4>1, <4>3
        <5> QED BY <2>1, <2>2, <3>6, <4>1, <4>3, <5>1
      <4>4. CASE j # m /\ k # o
        <5>1. nSent[j].at # "broadcast"
          BY <3>4, <3>5, <3>7, <4>1, <4>4 DEF WireInOrder
        <5> QED BY <2>1, <4>1, <4>4, <5>1
      <4> QED BY <4>2, <4>3, <4>4
    <3>8. ASSUME NEW k \in Messages', NEW l \in Messages', k < l,
                 nSent'[nDown'[l].id].room = nSent'[nDown'[k].id].room
          PROVE  nDown'[k].id < nDown'[l].id
      <4>1. k \in Messages
        BY <1>0, <3>4, <3>8
      <4>2. CASE l \in Messages
        BY <3>5, <3>8, <4>1, <4>2 DEF WireInOrder
      <4>3. CASE l = o
        <5>1. m \in N!OfRoom(nSent[nDown[k].id].room)
          BY <3>5, <3>6, <3>8, <4>1, <4>3 DEF N!OfRoom, N!Ids
        <5>2. ~ (m <= nDown[k].id)
          BY <2>1, <4>1, <5>1 DEF WireInOrder
        <5> QED BY <1>0, <3>5, <3>6, <4>1, <4>3, <5>2
      <4> QED BY <3>4, <4>2, <4>3
    <3> QED BY <3>7, <3>8 DEF WireInOrder
  <2> QED BY <2>3, <2>4
<1>3. ASSUME NEW m \in DOMAIN nSent,
             N!_handle_room_message(m) \/ N!PushFails(m) \/ N!notify_user(m)
      PROVE  WireInOrder'
  <2>1. /\ SentKept /\ nSent'[m].at # "broadcast"
        /\ \A k \in DOMAIN nSent \ {m} : nSent'[k] = nSent[k]
    BY <1>0, <1>3, Proceeds DEF N!_handle_room_message, N!PushFails, N!notify_user
  <2>2. \A k \in DOMAIN nSent : nSent'[k].at = "broadcast" => nSent[k].at = "broadcast"
    BY <2>1
  <2>3. CASE nDown' = nDown
    BY <1>0, <2>1, <2>2, <2>3, WireStays
  <2>4. CASE nDown' # nDown
    <3>1. /\ nDown' = Append(nDown, [kind |-> "notice", id |-> m])
          /\ nDown \in Seq(NoticeFrame) /\ [kind |-> "notice", id |-> m] \in NoticeFrame
      BY <1>0, <1>3, <2>4 DEF N!_handle_room_message, N!PushFails, N!notify_user, N!Tell,
                              N!link, NoticeTypes, NoticeFrame
    <3>2. /\ DOMAIN nDown' = 1 .. Len(nDown) + 1 /\ nDown'[Len(nDown) + 1].kind = "notice"
          /\ \A k \in DOMAIN nDown : nDown'[k] = nDown[k]
      BY <3>1
    <3>3. \A k \in DOMAIN nDown' : nDown'[k].kind = "message" =>
             k + 0 \in DOMAIN nDown /\ nDown'[k] = nDown[k + 0]
      BY <1>0, <3>2
    <3> QED BY <1>0, <2>1, <2>2, <3>2, <3>3, WireStays
  <2> QED BY <2>3, <2>4
<1>4. ASSUME N!onRoomAction PROVE WireInOrder'
  <2>1. /\ nSent' = nSent /\ DOMAIN nDown' = 1 .. Len(nDown) - 1
        /\ \A k \in DOMAIN nDown' : k + 1 \in DOMAIN nDown /\ nDown'[k] = nDown[k + 1]
    BY <1>0, <1>4 DEF N!onRoomAction, NoticeTypes
  <2> QED BY <1>0, <2>1, WireStays DEF SentKept
<1>5. ASSUME N!Drop \/ N!ClosePage PROVE WireInOrder'
  <2>1. nDown' = <<>>
    BY <1>5 DEF N!Drop, N!ClosePage, N!Cut
  <2> QED BY <2>1 DEF WireInOrder, Messages
<1>6. ASSUME UNCHANGED <<nSent, nDown>> PROVE WireInOrder'
  BY <1>6 DEF WireInOrder, Messages, N!OfRoom, N!Ids
<1>7. NoticeAct => \/ \E q \in PageRooms : N!add_message(q)
                   \/ \E m \in DOMAIN nSent :
                         \/ N!broadcast_to_room(m) \/ N!_handle_room_message(m)
                         \/ N!PushFails(m) \/ N!notify_user(m)
                   \/ N!onRoomAction \/ N!Drop \/ N!ClosePage
                   \/ UNCHANGED <<nSent, nDown>>
  BY DEF NoticeAct, N!Next, N!vars, N!link, N!Ids, N!ReadElsewhere, N!selectRoom, N!Enter,
         N!handle_room, N!disconnect, N!list_rooms, N!mark_read_endpoint, N!OpenPage,
         N!loadPlugins, N!KeysLoaded, N!loadMessages, N!LoadFails, N!onRoomSelected,
         N!createRoomItem, N!Connect, N!Rejoin
<1> QED BY <1>1, <1>2, <1>3, <1>4, <1>5, <1>6, <1>7

\* Told and missed are for good.
LEMMA TellMore == ASSUME NoticeAct PROVE nTold \subseteq nTold' /\ nMissed \subseteq nMissed'
  BY DEF NoticeAct, N!Next, N!vars, N!link, N!Ids, N!Miss, N!MissRoom, N!Tell, N!add_message,
         N!ReadElsewhere, N!selectRoom, N!Enter, N!broadcast_to_room, N!_handle_room_message,
         N!PushFails, N!notify_user, N!handle_room, N!disconnect, N!list_rooms,
         N!mark_read_endpoint, N!OpenPage, N!loadPlugins, N!KeysLoaded, N!loadMessages,
         N!LoadFails, N!onRoomSelected, N!onRoomAction, N!createRoomItem, N!Connect, N!Rejoin,
         N!Drop, N!ClosePage

\* Of a message in nobody's hands, what comes goes on coming.
LEMMA MessageStays ==
    ASSUME NoticeBase, SentKept, NEW m \in DOMAIN nSent, MessageInv(m),
           nCurrentRoom' = nCurrentRoom, "plugins" \in nPage <=> "plugins" \in nPage',
           Loads(nSent[m].room) => Loads(nSent[m].room)',
           InFlight(m) => InFlight(m)',
           Owed(m) => Owed(m)',
           m \in N!Marked(nSent[m].room)' => m \in N!Marked(nSent[m].room)
    PROVE  MessageInv(m)'
  BY DEF MessageInv, SentKept

\* What it is marked by stays.
LEMMA MarksStay ==
    ASSUME SentKept, UNCHANGED <<nPosition, nReads, nSelections>>, NEW m \in DOMAIN nSent
    PROVE  /\ m \in N!Marked(nSent[m].room)' <=> m \in N!Marked(nSent[m].room)
           /\ Loads(nSent[m].room)' <=> Loads(nSent[m].room)
  BY DEF SentKept, N!Marked, N!OfRoom, N!Ids, Loads

LEMMA MessagesStep ==
    ASSUME NoticeBase, WireInOrder, MessagesInv, NoticeAct
    PROVE  MessagesInv'
<1>0. /\ Len(nSent) \in Nat /\ DOMAIN nSent = 1 .. Len(nSent) /\ NoticeTypes
      /\ Len(nDown) \in Nat /\ DOMAIN nDown = 1 .. Len(nDown)
      /\ Len(nAnswers) \in Nat /\ DOMAIN nAnswers = 1 .. Len(nAnswers)
      /\ nAsked \in Nat
  BY BaseFacts DEF NoticeBase, NoticeTypes
<1>t. nTold \subseteq nTold' /\ nMissed \subseteq nMissed'
  BY TellMore
<1>m. ASSUME NEW m \in DOMAIN nSent, m \notin nTold' \cup nMissed'
      PROVE  /\ MessageInv(m) /\ m \in Nat /\ m <= Len(nSent) /\ nSent[m].room \in PageRooms
             /\ m \in N!OfRoom(nSent[m].room)
  BY <1>0, <1>t, <1>m, BaseFacts DEF MessagesInv, N!OfRoom, N!Ids
<1>1. ASSUME NEW q \in PageRooms, N!add_message(q) PROVE MessagesInv'
  <2> PICK o \in Nat : o = Len(nSent) + 1
    BY <1>0
  <2>1. /\ DOMAIN nSent' = 1 .. o
        /\ nSent'[o].room = q /\ nSent'[o].at = "broadcast"
        /\ nSent'[o].to = (q \in nJoined)
        /\ \A m \in DOMAIN nSent : nSent'[m] = nSent[m]
    BY <1>0, <1>1 DEF N!add_message, NoticeTypes
  <2>2. UNCHANGED <<nPosition, nPage, nCurrentRoom, nSelections, nDown, nAsked, nAnswers, nReads>>
    BY <1>1 DEF N!add_message, N!link, N!screen, N!sidebar
  <2>3. ASSUME NEW m \in DOMAIN nSent, m \notin nTold' \cup nMissed' PROVE MessageInv(m)'
    <3>1. MessageInv(m) /\ nSent'[m] = nSent[m]
      BY <1>m, <2>1, <2>3
    <3>2. m \in N!Marked(nSent[m].room)' => m \in N!Marked(nSent[m].room)
      BY <2>1, <2>2, <2>3 DEF N!Marked, N!OfRoom, N!Ids
    <3> QED BY <2>2, <3>1, <3>2 DEF MessageInv, Owed, Loads, InFlight, Selecting
  <2>4. ASSUME o \notin nTold' \cup nMissed' PROVE MessageInv(o)'
    <3>1. q = nCurrentRoom => q \in nJoined \/ Loads(q)
      BY <1>1, <2>4 DEF N!add_message, N!Follows, Loads
    <3>2. o \notin N!Marked(nSent[o].room)'
      <4>1. /\ nPosition[q] \in Nat /\ nPosition[q] <= Len(nSent)
            /\ \A x \in nReads : x.id \in Nat /\ x.id <= Len(nSent)
            /\ \A n \in DOMAIN nSelections :
                  nSelections[n].id \in Nat /\ nSelections[n].id <= Len(nSent)
        BY <1>0, BaseFacts DEF NoticeBase, NoticeTypes, NoticeBounds
      <4>2. /\ ~ (o <= nPosition[q]) /\ \A x \in nReads : ~ (o <= x.id)
            /\ \A n \in DOMAIN nSelections : ~ (o <= nSelections[n].id)
        BY <1>0, <4>1
      <4> QED BY <2>1, <2>2, <4>2 DEF N!Marked
    <3> QED BY <2>1, <2>2, <3>1, <3>2 DEF MessageInv, Owed, Loads, InFlight
  <2>5. \A m \in DOMAIN nSent' : m \in DOMAIN nSent \/ m = o
    BY <1>0, <2>1
  <2> QED BY <2>3, <2>4, <2>5 DEF MessagesInv
<1>2. ASSUME NEW q \in PageRooms, N!ReadElsewhere(q) PROVE MessagesInv'
  <2>1. Leaves({q})
    BY <1>0, <1>2, LeavesBehind DEF N!ReadElsewhere
  <2>2. /\ UNCHANGED <<nSent, nPage, nCurrentRoom, nSelections, nDown, nAsked, nReads>>
        /\ \A r \in PageRooms \ {q} : nPosition'[r] = nPosition[r]
        /\ N!OfRoom(q) \subseteq nTold'
    BY <1>0, <1>2 DEF N!ReadElsewhere, N!link, N!screen, N!mark_room_read, NoticeTypes
  <2>3. ASSUME NEW m \in DOMAIN nSent, m \notin nTold' \cup nMissed' PROVE MessageInv(m)'
    <3>1. nSent[m].room # q /\ MessageInv(m) /\ nSent[m].room \in PageRooms
      BY <1>m, <2>2, <2>3
    <3>2. m \in N!Marked(nSent[m].room)' => m \in N!Marked(nSent[m].room)
      BY <2>2, <3>1 DEF N!Marked, N!OfRoom, N!Ids
    <3>3. Owed(m) => Owed(m)'
      BY <2>1, <2>2 DEF Owed, Selecting, Leaves
    <3>4. SentKept /\ (Loads(nSent[m].room) => Loads(nSent[m].room)') /\ (InFlight(m) => InFlight(m)')
      BY <2>2 DEF SentKept, Loads, InFlight
    <3> QED BY <2>2, <3>1, <3>2, <3>3, <3>4, MessageStays
  <2> QED BY <2>2, <2>3 DEF MessagesInv
<1>3. ASSUME NEW i \in DOMAIN nSent,
             \/ N!broadcast_to_room(i) \/ N!_handle_room_message(i)
             \/ N!PushFails(i) \/ N!notify_user(i)
      PROVE  MessagesInv'
  <2>1. /\ SentKept /\ \A k \in DOMAIN nSent \ {i} : nSent'[k] = nSent[k]
        /\ nSent'[i].at # "done" \/ N!notify_user(i)
        /\ nSent[i].at # "broadcast" \/ N!broadcast_to_room(i)
    BY <1>0, <1>3, Proceeds
    DEF N!broadcast_to_room, N!_handle_room_message, N!PushFails, N!notify_user
  <2>2. UNCHANGED <<nPosition, nPage, nCurrentRoom, nSelections, nAsked, nReads>>
    BY <1>3 DEF N!broadcast_to_room, N!_handle_room_message, N!PushFails, N!notify_user,
                N!link, N!screen, N!sidebar
  <2>3. \A k \in DOMAIN nDown : k \in DOMAIN nDown' /\ nDown'[k] = nDown[k]
    BY <1>0, <1>3
    DEF N!broadcast_to_room, N!_handle_room_message, N!PushFails, N!notify_user, N!Tell, N!link,
        NoticeTypes
  <2>4. DOMAIN nAnswers' = DOMAIN nAnswers
        /\ \A k \in DOMAIN nAnswers : nAnswers'[k].unread = nAnswers[k].unread
    <3>1. \E R : Leaves(R)
      BY <1>0, <1>3, LeavesBehind, LeavesNone
      DEF N!broadcast_to_room, N!_handle_room_message, N!PushFails, N!notify_user, N!Tell, N!sidebar
    <3> QED BY <3>1 DEF Leaves
  <2>5. ASSUME N!broadcast_to_room(i), nSent[i].to PROVE InFlight(i)'
    <3>1. nDown' = Append(nDown, [kind |-> "message", id |-> i])
      BY <2>5 DEF N!broadcast_to_room
    <3>2. Len(nDown) + 1 \in DOMAIN nDown' /\ nDown'[Len(nDown) + 1] = [kind |-> "message", id |-> i]
      BY <1>0, <3>1 DEF NoticeTypes
    <3> QED BY <3>2 DEF InFlight
  <2>6. ASSUME N!notify_user(i), i \notin nTold' \cup nMissed'
        PROVE  \E k \in DOMAIN nDown' : nDown'[k].kind = "notice" /\ nDown'[k].id = i
    <3>1. nDown' = Append(nDown, [kind |-> "notice", id |-> i])
      BY <1>t, <2>6 DEF N!notify_user, N!Tell, N!Miss
    <3>2. Len(nDown) + 1 \in DOMAIN nDown' /\ nDown'[Len(nDown) + 1] = [kind |-> "notice", id |-> i]
      BY <1>0, <3>1 DEF NoticeTypes
    <3> QED BY <3>2
  <2>7. ASSUME NEW m \in DOMAIN nSent, m \notin nTold' \cup nMissed' PROVE MessageInv(m)'
    <3>1. InFlight(m) => InFlight(m)'
      <4>1. CASE m = i /\ nSent[m].at = "broadcast" /\ nSent[m].to
        BY <2>1, <2>5, <4>1
      <4>2. CASE m # i /\ nSent[m].at = "broadcast" /\ nSent[m].to
        BY <2>1, <4>2 DEF InFlight
      <4>3. CASE ~ (nSent[m].at = "broadcast" /\ nSent[m].to)
        BY <2>3, <4>3 DEF InFlight
      <4> QED BY <4>1, <4>2, <4>3
    <3>2. Owed(m) => Owed(m)'
      <4>1. SentKept /\ nSent'[m].room = nSent[m].room
        BY <2>1 DEF SentKept
      <4>2. nSent[m].at # "done" => Owed(m)'
        BY <2>1, <2>6, <2>7 DEF Owed
      <4>3. nSent[m].at = "done" /\ Owed(m) => Owed(m)'
        BY <2>2, <2>3, <2>4, <4>1 DEF Owed, Selecting
      <4> QED BY <4>2, <4>3
    <3> QED BY <1>m, <2>1, <2>2, <2>7, <3>1, <3>2, MarksStay, MessageStays
  <2> QED BY <2>1, <2>7 DEF MessagesInv, SentKept
<1>4. ASSUME N!handle_room \/ N!disconnect \/ N!Connect \/ N!Rejoin \/ UNCHANGED N!vars
      PROVE  MessagesInv'
  <2>1. UNCHANGED <<nSent, nPosition, nPage, nCurrentRoom, nSelections, nDown, nAsked, nAnswers,
                    nReads, nTold, nMissed>>
    BY <1>4 DEF N!handle_room, N!disconnect, N!Connect, N!Rejoin, N!vars, N!link, N!screen, N!sidebar
  <2>2. SentKept
    BY <2>1 DEF SentKept
  <2>3. ASSUME NEW m \in DOMAIN nSent, MessageInv(m) PROVE MessageInv(m)'
    <3>1. InFlight(m)' = InFlight(m) /\ Owed(m)' = Owed(m)
      BY <2>1 DEF InFlight, Owed, Selecting
    <3> QED BY <2>1, <2>2, <2>3, <3>1, MarksStay, MessageStays
  <2> QED BY <2>1, <2>3 DEF MessagesInv
<1>5. ASSUME NEW x \in nReads, N!mark_read_endpoint(x) PROVE MessagesInv'
  <2>1. /\ UNCHANGED <<nSent, nPage, nCurrentRoom, nSelections, nDown, nAsked, nTold, nMissed>>
        /\ nReads' = nReads \ {x}
    BY <1>5 DEF N!mark_read_endpoint, N!link, N!screen
  <2>2. \E R : Leaves(R)
    BY <1>0, <1>5, LeavesBehind, LeavesNone DEF N!mark_read_endpoint
  <2>3. /\ \A r \in PageRooms \ {x.room} : nPosition'[r] = nPosition[r]
        /\ nPosition'[x.room] \in {nPosition[x.room], x.id}
    <3>1. x.room \in PageRooms /\ x.id \in Nat /\ x.id <= Len(nSent)
      BY DEF NoticeBase, NoticeTypes, NoticeBounds
    <3> QED BY <1>5, <3>1, MarkedRead DEF N!mark_read_endpoint
  <2>4. \A r \in PageRooms : N!Marked(r)' \subseteq N!Marked(r)
    <3> SUFFICES ASSUME NEW r \in PageRooms, NEW m \in N!Marked(r)' PROVE m \in N!Marked(r)
      OBVIOUS
    <3>1. m \in N!OfRoom(r)
      BY <2>1 DEF N!Marked, N!OfRoom, N!Ids
    <3>2. CASE m <= nPosition'[r]
      BY <2>3, <3>1, <3>2 DEF N!Marked
    <3>3. CASE ~ (m <= nPosition'[r])
      BY <2>1, <3>1, <3>3 DEF N!Marked
    <3> QED BY <3>2, <3>3
  <2>5. SentKept
    BY <2>1 DEF SentKept
  <2>6. ASSUME NEW m \in DOMAIN nSent, m \notin nTold' \cup nMissed' PROVE MessageInv(m)'
    <3>1. (Loads(nSent[m].room) => Loads(nSent[m].room)') /\ (InFlight(m) => InFlight(m)')
      BY <2>1 DEF Loads, InFlight
    <3>2. Owed(m) => Owed(m)'
      BY <2>1, <2>2 DEF Owed, Selecting, Leaves
    <3>3. m \in N!Marked(nSent[m].room)' => m \in N!Marked(nSent[m].room)
      BY <1>m, <2>1, <2>4, <2>6
    <3> QED BY <1>m, <2>1, <2>5, <2>6, <3>1, <3>2, <3>3, MessageStays
  <2> QED BY <2>1, <2>6 DEF MessagesInv
<1>6. ASSUME N!list_rooms PROVE MessagesInv'
  <2> DEFINE a == [unread |-> [r \in PageRooms |-> N!get_unread(r, nPosition[r])], late |-> FALSE,
                   clears |-> nExcused]
  <2>1. nAnswers' = Append(nAnswers, a) /\ nAnswers \in Seq(Answer)
    BY <1>0, <1>6 DEF N!list_rooms, NoticeTypes
  <2>2. \A r \in PageRooms : a.unread[r] = {m \in N!OfRoom(r) : m > nPosition[r]}
    BY DEF N!get_unread
  <2> HIDE DEF a
  <2>3. Len(nAnswers) + 1 \in DOMAIN nAnswers' /\ nAnswers'[Len(nAnswers) + 1] = a
    BY <2>1
  <2>4. /\ UNCHANGED <<nSent, nPosition, nPage, nCurrentRoom, nSelections, nDown, nReads,
                       nTold, nMissed>>
    BY <1>6 DEF N!list_rooms, N!link, N!screen
  <2>5. SentKept
    BY <2>4 DEF SentKept
  <2>6. ASSUME NEW m \in DOMAIN nSent, m \notin nTold' \cup nMissed' PROVE MessageInv(m)'
    <3> DEFINE r == nSent[m].room
    <3>1. MessageInv(m) /\ m \in N!OfRoom(r) /\ r \in PageRooms /\ m \in Nat /\ nPosition[r] \in Nat
      BY <1>0, <1>m, <2>6 DEF NoticeTypes
    <3>2. Owed(m)'
      <4>1. CASE m > nPosition[r]
        <5>1. m \in a.unread[r]
          BY <2>2, <3>1, <4>1
        <5> QED BY <2>3, <2>4, <5>1 DEF Owed
      <4>2. CASE m <= nPosition[r]
        <5>1. m \in N!Marked(r)
          BY <3>1, <4>2 DEF N!Marked
        <5>2. Selecting
          BY <3>1, <5>1 DEF MessageInv, Loads, Selecting
        <5> QED BY <2>4, <5>2 DEF Owed, Selecting
      <4> QED BY <3>1, <4>1, <4>2
    <3>3. InFlight(m)' = InFlight(m)
      BY <2>4 DEF InFlight
    <3> HIDE DEF r
    <3> QED BY <2>4, <2>5, <3>1, <3>2, <3>3, MarksStay, MessageStays
  <2> QED BY <2>4, <2>6 DEF MessagesInv
<1>7. ASSUME N!OpenPage PROVE MessagesInv'
  <2>1. /\ UNCHANGED <<nSent, nPosition, nCurrentRoom, nSelections, nDown, nReads, nTold, nMissed>>
        /\ nPage = {} /\ nAsked' = 1
    BY <1>7 DEF N!OpenPage, N!link
  <2>2. ASSUME NEW m \in DOMAIN nSent, m \notin nTold' \cup nMissed' PROVE MessageInv(m)'
    <3>1. MessageInv(m) /\ InFlight(m)' = InFlight(m) /\ Owed(m)'
      BY <1>m, <2>1, <2>2 DEF InFlight, Owed
    <3>2. SentKept
      BY <2>1 DEF SentKept
    <3> QED BY <2>1, <3>1, <3>2, MarksStay DEF MessageInv
  <2> QED BY <2>1, <2>2 DEF MessagesInv
<1>8. ASSUME N!loadPlugins PROVE MessagesInv'
  <2>1. /\ UNCHANGED <<nSent, nPosition, nCurrentRoom, nSelections, nDown, nAsked, nAnswers, nReads,
                       nTold, nMissed>>
        /\ "plugins" \notin nPage /\ "plugins" \in nPage'
    BY <1>8 DEF N!loadPlugins, N!link, N!sidebar
  <2>2. ASSUME NEW m \in DOMAIN nSent, m \notin nTold' \cup nMissed' PROVE MessageInv(m)'
    <3>1. MessageInv(m) /\ InFlight(m)' = InFlight(m) /\ (Owed(m) => Owed(m)')
      BY <1>m, <2>1, <2>2 DEF InFlight, Owed, Selecting
    <3>2. SentKept
      BY <2>1 DEF SentKept
    <3> QED BY <2>1, <3>1, <3>2, MarksStay DEF MessageInv
  <2> QED BY <2>1, <2>2 DEF MessagesInv
<1>9. ASSUME NEW q \in PageRooms, N!selectRoom(q) \/ N!Enter(q) PROVE MessagesInv'
  <2>1. /\ UNCHANGED <<nSent, nPosition, nDown, nAsked, nAnswers, nReads, nTold, nMissed>>
        /\ "plugins" \in nPage' <=> "plugins" \in nPage
    BY <1>9 DEF N!selectRoom, N!Enter, N!sidebar
  <2>2. SentKept
    BY <2>1 DEF SentKept
  <2>3. CASE UNCHANGED <<nCurrentRoom, nSelections>>
    <3>1. ASSUME NEW m \in DOMAIN nSent, m \notin nTold' \cup nMissed' PROVE MessageInv(m)'
      <4>1. InFlight(m)' = InFlight(m) /\ Owed(m)' = Owed(m)
        BY <2>1, <2>3 DEF InFlight, Owed, Selecting
      <4> QED BY <1>m, <2>1, <2>2, <2>3, <3>1, <4>1, MarksStay, MessageStays
    <3> QED BY <2>1, <3>1 DEF MessagesInv
  <2>4. CASE N!Choose(q)
    <3>1. /\ nCurrentRoom' = q /\ DOMAIN nSelections \subseteq DOMAIN nSelections'
          /\ \A n \in DOMAIN nSelections : nSelections'[n] = nSelections[n]
          /\ \E o \in DOMAIN nSelections' :
                /\ DOMAIN nSelections' = DOMAIN nSelections \cup {o}
                /\ nSelections'[o].room = q /\ nSelections'[o].at = "keys"
      <4>1. nSelections' = Append(nSelections, [room |-> q, at |-> "keys", id |-> 0])
            /\ nSelections \in Seq(Selection) /\ nCurrentRoom' = q
        BY <1>0, <2>4 DEF N!Choose, NoticeTypes
      <4> QED BY <4>1
    <3>2. PICK o \in DOMAIN nSelections' :
             /\ DOMAIN nSelections' = DOMAIN nSelections \cup {o}
             /\ nSelections'[o].room = q /\ nSelections'[o].at = "keys"
      BY <3>1
    <3>3. ASSUME NEW m \in DOMAIN nSent, m \notin nTold' \cup nMissed' PROVE MessageInv(m)'
      <4>1. MessageInv(m) /\ InFlight(m)' = InFlight(m)
        BY <1>m, <2>1, <3>3 DEF InFlight
      <4>2. Loads(nSent[m].room) \/ nSent[m].room = q => Loads(nSent[m].room)'
        BY <2>1, <3>1, <3>2 DEF Loads
      <4>3. IF "plugins" \in nPage THEN Owed(m)' ELSE Owed(m) => Owed(m)'
        BY <2>1, <3>2 DEF Owed, Selecting
      <4>4. m \in N!Marked(nSent[m].room)' => m \in N!Marked(nSent[m].room)
        BY <2>1, <3>1, <3>2 DEF N!Marked, N!OfRoom, N!Ids
      <4> QED BY <2>1, <3>1, <4>1, <4>2, <4>3, <4>4 DEF MessageInv
    <3> QED BY <2>1, <3>3 DEF MessagesInv
  <2> QED BY <1>9, <2>3, <2>4 DEF N!selectRoom, N!Enter
<1>10. ASSUME NEW n \in DOMAIN nSelections,
              N!KeysLoaded(n) \/ N!loadMessages(n) \/ N!LoadFails(n)
       PROVE  MessagesInv'
  <2> DEFINE q == nSelections[n].room
  <2>1. /\ UNCHANGED <<nSent, nPosition, nPage, nCurrentRoom, nDown, nAnswers, nReads>>
        /\ N!LoadFails(n) => UNCHANGED nLastMessageId
    BY <1>10 DEF N!KeysLoaded, N!loadMessages, N!LoadFails, N!Loaded, N!link
  <2>2. SentKept
    BY <2>1 DEF SentKept
  <2>3. ASSUME NEW m \in DOMAIN nSent, m \notin nTold' \cup nMissed' PROVE MessageInv(m)'
    <3> DEFINE r == nSent[m].room
    <3>0. /\ MessageInv(m) /\ m \in N!OfRoom(r) /\ InFlight(m)' = InFlight(m)
          /\ m \in Nat /\ m <= Len(nSent)
      BY <1>m, <2>1, <2>3 DEF InFlight
    <3>1. Owed(m) => Owed(m)'
      BY <1>10, <2>1, SelectionGoesOn DEF Owed, Selecting
    <3>2. CASE r # q
      <4>1. (Loads(r) => Loads(r)') /\ (m \in N!Marked(r)' => m \in N!Marked(r))
        BY <1>10, <2>1, <3>2, SelectionGoesOn DEF Loads, N!Marked, N!OfRoom, N!Ids
      <4> QED BY <2>1, <2>2, <3>0, <3>1, <4>1, MessageStays
    <3>3. CASE r = q /\ N!KeysLoaded(n) /\ nSelections'[n].at = "asked"
      <4>1. Loads(r)' /\ (m \in N!Marked(r)' => m \in N!Marked(r))
        BY <1>10, <2>1, <3>3, SelectionGoesOn DEF Loads, N!Marked, N!OfRoom, N!Ids
      <4> QED BY <2>1, <2>2, <3>0, <3>1, <4>1, MessageStays
    <3>4. CASE r = q /\ N!KeysLoaded(n) /\ nSelections'[n].at = "done"
      <4>1. N!MissRoom(q, 0)
        BY <3>4, SelectionGoesOn
      <4>2. r # nCurrentRoom /\ m \notin N!Marked(r)
        BY <1>t, <2>3, <3>0, <3>4, <4>1 DEF N!MissRoom, N!Miss
      <4>3. m \notin N!Marked(r)'
        BY <1>10, <2>1, <3>4, <4>2, SelectionGoesOn DEF N!Marked, N!OfRoom, N!Ids
      <4> QED BY <2>1, <3>0, <3>1, <4>2, <4>3 DEF MessageInv
    <3>5. CASE r = q /\ N!loadMessages(n)
      BY <1>t, <2>3, <3>0, <3>5 DEF N!loadMessages, N!Miss
    <3>6. CASE r = q /\ N!LoadFails(n)
      <4>1. N!MissRoom(q, nLastMessageId) /\ nLastMessageId' = nLastMessageId
        BY <2>1, <3>6 DEF N!LoadFails
      <4>2. r # nCurrentRoom /\ m \notin N!Marked(r) /\ ~ (m <= nLastMessageId)
        BY <1>t, <2>3, <3>0, <3>6, <4>1 DEF N!MissRoom, N!Miss
      <4>3. m \notin N!Marked(r)'
        BY <1>10, <2>1, <3>6, <4>1, <4>2, SelectionGoesOn DEF N!Marked, N!OfRoom, N!Ids
      <4> QED BY <2>1, <3>0, <3>1, <4>2, <4>3 DEF MessageInv
    <3>7. N!KeysLoaded(n) => nSelections'[n].at = "asked" \/ nSelections'[n].at = "done"
      BY SelectionGoesOn
    <3> QED BY <1>10, <3>2, <3>3, <3>4, <3>5, <3>6, <3>7
  <2> QED BY <2>1, <2>3 DEF MessagesInv
<1>11. ASSUME NEW n \in DOMAIN nSelections, N!onRoomSelected(n) PROVE MessagesInv'
  <2> DEFINE q == nSelections[n].room
             i == nSelections[n].id
  <2>0. q \in PageRooms /\ i \in Nat /\ i <= Len(nSent) /\ nSelections[n].at = "marking"
    BY <1>11, BaseFacts DEF N!onRoomSelected, NoticeBase, NoticeBounds
  <2>1. /\ UNCHANGED <<nSent, nPage, nCurrentRoom, nDown, nReads, nTold, nMissed>>
        /\ nAsked' > 0
    BY <1>0, <1>11 DEF N!onRoomSelected, N!link, N!loadRooms
  <2>2. Moves(n, "done", i)
    BY <1>0, <1>11, SelectionMoves DEF N!onRoomSelected, Place
  <2>3. /\ \A r \in PageRooms \ {q} : nPosition'[r] = nPosition[r]
        /\ nPosition'[q] \in {nPosition[q], i}
    BY <1>11, <2>0, MarkedRead DEF N!onRoomSelected
  <2>4. ASSUME NEW m \in DOMAIN nSent, m \notin nTold' \cup nMissed' PROVE MessageInv(m)'
    <3> DEFINE r == nSent[m].room
    <3>1. MessageInv(m) /\ m \in N!OfRoom(r) /\ r \in PageRooms /\ InFlight(m)' = InFlight(m)
      BY <1>m, <2>1, <2>4 DEF InFlight
    <3>2. Owed(m)'
      BY <2>1 DEF Owed
    <3>3. Loads(r) => Loads(r)'
      BY <2>0, <2>1, <2>2 DEF Loads, Moves
    <3>4. m \in N!Marked(r)' => m \in N!Marked(r)
      <4>1. CASE m <= nPosition'[r] /\ ~ (m <= nPosition[r])
        <5>1. r = q /\ m <= i
          BY <2>3, <3>1, <4>1
        <5> QED BY <2>0, <3>1, <5>1 DEF N!Marked
      <4>2. CASE ~ (m <= nPosition'[r] /\ ~ (m <= nPosition[r]))
        BY <2>1, <2>2, <4>2 DEF N!Marked, N!OfRoom, N!Ids, Moves
      <4> QED BY <4>1, <4>2
    <3> QED BY <2>1, <3>1, <3>2, <3>3, <3>4 DEF MessageInv
  <2> QED BY <2>1, <2>4 DEF MessagesInv
<1>12. ASSUME N!onRoomAction PROVE MessagesInv'
  <2> DEFINE e == nDown[1]
             q == nSent[e.id].room
  <2>0. /\ 1 \in DOMAIN nDown /\ e = Head(nDown) /\ e.id \in DOMAIN nSent /\ e.id \in Nat
        /\ e.kind \in {"message", "notice"}
        /\ DOMAIN nDown' = 1 .. Len(nDown) - 1
        /\ \A k \in DOMAIN nDown' : nDown'[k] = nDown[k + 1]
        /\ \A k \in DOMAIN nDown : k = 1 \/ (k - 1 \in DOMAIN nDown' /\ nDown'[k - 1] = nDown[k])
    <3>1. 1 \in DOMAIN nDown /\ e = Head(nDown)
      BY <1>0, <1>12 DEF N!onRoomAction, NoticeTypes
    <3>2. /\ DOMAIN nDown' = 1 .. Len(nDown) - 1
          /\ \A k \in DOMAIN nDown' : nDown'[k] = nDown[k + 1]
      BY <1>0, <1>12 DEF N!onRoomAction, NoticeTypes
    <3> HIDE DEF e
    <3>3. \A k \in DOMAIN nDown : k = 1 \/ (k - 1 \in DOMAIN nDown' /\ nDown'[k - 1] = nDown[k])
      BY <1>0, <3>2
    <3> QED BY <3>1, <3>2, <3>3, BaseFacts DEF e
  <2>1. /\ UNCHANGED <<nSent, nPosition, nPage, nCurrentRoom, nSelections>>
        /\ nAsked' = nAsked \/ nAsked' = nAsked + 1
        /\ "plugins" \in nPage /\ e.kind = "notice" => nAsked' = nAsked + 1
        /\ "plugins" \in nPage /\ e.kind = "message" /\ q = nCurrentRoom =>
              nTold' = nTold \cup {e.id} /\ nReads' = nReads \cup {[room |-> q, id |-> e.id]}
        /\ ~ ("plugins" \in nPage /\ e.kind = "message" /\ q = nCurrentRoom) => nReads' = nReads
        /\ "plugins" \notin nPage => N!Miss({e.id})
    BY <1>12, <2>0 DEF N!onRoomAction, N!loadRooms
  <2>2. SentKept /\ \E R : Leaves(R)
    BY <1>0, <1>12, <2>1, LeavesBehind, LeavesNone DEF N!onRoomAction, SentKept
  <2>3. ASSUME NEW m \in DOMAIN nSent, m \notin nTold' \cup nMissed' PROVE MessageInv(m)'
    <3> DEFINE r == nSent[m].room
    <3>1. MessageInv(m) /\ m \in N!OfRoom(r) /\ m \in Nat
      BY <1>m, <2>3
    <3>2. m # e.id \/ ("plugins" \in nPage /\ (e.kind = "notice" \/ q # nCurrentRoom))
      BY <1>t, <2>0, <2>1, <2>3 DEF N!Miss
    <3>3. r = nCurrentRoom /\ InFlight(m) => InFlight(m)'
      BY <2>0, <2>1, <3>2 DEF InFlight
    <3>4. Owed(m) => Owed(m)'
      <4>1. CASE m = e.id /\ e.kind = "notice"
        BY <1>0, <2>1, <3>2, <4>1 DEF Owed
      <4>2. CASE ~ (m = e.id /\ e.kind = "notice")
        BY <1>0, <2>0, <2>1, <2>2, <4>2 DEF Owed, Selecting, Leaves
      <4> QED BY <4>1, <4>2
    <3>5. Loads(r)' = Loads(r)
      BY <2>1 DEF Loads
    <3>6. m \in N!Marked(r)' => "plugins" \in nPage /\ Loads(r)
      <4>1. CASE m \in N!Marked(r)
        BY <3>1, <4>1 DEF MessageInv
      <4>2. CASE m \in N!Marked(r)' /\ m \notin N!Marked(r)
        <5>1. /\ "plugins" \in nPage /\ e.kind = "message" /\ q = nCurrentRoom
              /\ r = q /\ m <= e.id
          BY <2>1, <4>2 DEF N!Marked, N!OfRoom, N!Ids
        <5>2. m # e.id /\ (Loads(r) \/ InFlight(m))
          BY <3>1, <3>2, <5>1 DEF MessageInv
        <5>3. 1 \in Messages /\ nSent[m].at # "broadcast"
          BY <2>0, <3>1, <5>1 DEF Messages, WireInOrder
        <5>4. ASSUME NEW k \in Messages, nDown[k].id = m PROVE FALSE
          <6>1. k # 1 /\ 1 < k
            BY <1>0, <5>2, <5>4 DEF Messages
          <6>2. e.id < m
            BY <5>1, <5>3, <5>4, <6>1 DEF WireInOrder
          <6> QED BY <2>0, <3>1, <5>1, <6>2
        <5> QED BY <5>1, <5>2, <5>3, <5>4 DEF InFlight, Messages
      <4> QED BY <4>1, <4>2
    <3> QED BY <2>1, <3>1, <3>3, <3>4, <3>5, <3>6 DEF MessageInv
  <2> QED BY <2>1, <2>3 DEF MessagesInv
<1>13. ASSUME NEW i \in DOMAIN nAnswers, N!createRoomItem(i) PROVE MessagesInv'
  <2>0. Draws(i) /\ i \in Nat /\ DOMAIN nAnswers' = 1 .. Len(nAnswers) - 1
    <3>1. Draws(i)
      BY <1>0, <1>13, AnswerDrawn
    <3>2. nAnswers' \in Seq(Answer) /\ Len(nAnswers') = Len(nAnswers) - 1
      BY <3>1 DEF Draws
    <3> QED BY <1>0, <3>1, <3>2
  <2>1. /\ UNCHANGED <<nSent, nPosition, nCurrentRoom, nSelections, nDown, nAsked, nReads, nMissed>>
        /\ "plugins" \in nPage' <=> "plugins" \in nPage
        /\ \A r \in PageRooms \ {nCurrentRoom} : nAnswers[i].unread[r] \subseteq nTold'
    BY <1>13 DEF N!createRoomItem, N!link
  <2>2. SentKept
    BY <2>1 DEF SentKept
  <2>3. ASSUME NEW j \in DOMAIN nAnswers, j # i
        PROVE  \E k \in DOMAIN nAnswers' : nAnswers'[k].unread = nAnswers[j].unread
    <3> DEFINE k == IF j < i THEN j ELSE j - 1
    <3>1. k \in DOMAIN nAnswers' /\ j = IF k < i THEN k ELSE k + 1
      BY <1>0, <2>0, <2>3
    <3> HIDE DEF k
    <3> QED BY <2>0, <3>1 DEF Draws
  <2>4. ASSUME NEW m \in DOMAIN nSent, m \notin nTold' \cup nMissed' PROVE MessageInv(m)'
    <3>1. MessageInv(m) /\ nSent[m].room \in PageRooms /\ InFlight(m)' = InFlight(m)
      BY <1>m, <2>1, <2>4 DEF InFlight
    <3>2. nSent[m].room # nCurrentRoom => m \notin nAnswers[i].unread[nSent[m].room]
      BY <2>1, <2>4, <3>1
    <3>3. nSent[m].room = nCurrentRoom => "plugins" \in nPage
      <4>1. nAnswers # <<>>
        BY <1>0
      <4> QED BY <3>1, <4>1, NoticesAssumption DEF NoticeBase, Unplugged
    <3>4. nSent[m].room # nCurrentRoom /\ Owed(m) => Owed(m)'
      BY <2>1, <2>3, <3>2 DEF Owed, Selecting
    <3> QED BY <2>1, <2>2, <3>1, <3>3, <3>4, MarksStay DEF MessageInv
  <2> QED BY <2>1, <2>4 DEF MessagesInv
<1>14. ASSUME N!Drop PROVE MessagesInv'
  <2>1. SentKept /\ \A m \in DOMAIN nSent : nSent'[m].at = nSent[m].at
    BY <1>0, <1>14, Cuts DEF N!Drop
  <2>2. UNCHANGED <<nPosition, nSelections, nCurrentRoom, nAsked, nPage, nReads>>
    BY <1>14 DEF N!Drop, N!screen
  <2>3. \E R : Leaves(R)
    BY <1>0, <1>14, LeavesBehind DEF N!Drop
  <2>4. ASSUME NEW m \in DOMAIN nSent, m \notin nTold' \cup nMissed' PROVE MessageInv(m)'
    <3>1. ~nSent[m].to /\ \A k \in DOMAIN nDown : nDown[k].id # m
      BY <1>14, <1>t, <2>4 DEF N!Drop, N!Miss, N!Ids
    <3>2. ~InFlight(m)
      BY <3>1 DEF InFlight
    <3>3. Owed(m) => Owed(m)'
      BY <2>1, <2>2, <2>3, <3>1 DEF Owed, Selecting, SentKept, Leaves
    <3> QED BY <1>m, <2>1, <2>2, <2>4, <3>2, <3>3, MarksStay, MessageStays
  <2> QED BY <2>1, <2>4 DEF MessagesInv, SentKept
<1>15. ASSUME N!ClosePage PROVE MessagesInv'
  <2>1. SentKept /\ \A m \in DOMAIN nSent : nSent'[m].at = nSent[m].at
    BY <1>0, <1>15, Cuts DEF N!ClosePage
  <2>2. /\ nPosition' = nPosition /\ nSelections' = <<>> /\ nCurrentRoom' = NoRoom
        /\ nReads' = nReads \cup {[room |-> nSelections[n].room, id |-> nSelections[n].id] :
                            n \in {k \in DOMAIN nSelections : nSelections[k].at = "marking"}}
    BY <1>15 DEF N!ClosePage
  <2>3. ASSUME NEW m \in DOMAIN nSent, m \notin nTold' \cup nMissed' PROVE MessageInv(m)'
    <3> DEFINE r == nSent[m].room
    <3>1. MessageInv(m) /\ m \in N!OfRoom(r) /\ r \in PageRooms
      BY <1>m, <2>3
    <3>2. nSent[m].at # "done" /\ ~Loads(r)
      BY <1>15, <1>t, <2>3, <3>1 DEF N!ClosePage, N!Miss, N!Ids, Loads
    <3>3. m \notin N!Marked(r)
      BY <3>1, <3>2 DEF MessageInv
    <3>4. nSent'[m].room = r /\ nSent'[m].at # "done"
      BY <2>1, <3>2 DEF SentKept
    <3>5. m \notin N!Marked(r)'
      <4>1. \A x \in nReads' : x.room = r => ~ (m <= x.id)
        BY <2>2, <3>1, <3>3 DEF N!Marked
      <4> QED BY <2>2, <3>1, <3>3, <3>4, <4>1 DEF N!Marked
    <3> QED BY <2>2, <3>1, <3>4, <3>5, NoticesAssumption DEF MessageInv, Owed
  <2> QED BY <2>1, <2>3 DEF MessagesInv, SentKept
<1> QED
  BY <1>1, <1>2, <1>3, <1>4, <1>5, <1>6, <1>7, <1>8, <1>9, <1>10, <1>11, <1>12, <1>13, <1>14,
     <1>15 DEF NoticeAct, N!Next, N!Ids

\* If broadcasts reach the page in the order they were made, every message is shown, counted
\* in the sidebar or pushed, but for the known ways to miss one, however the handler's steps
\* interleave with selections, loads and the connection (_handle_room_message, notify_user,
\* selectRoom, loadMessages, loadRooms).
THEOREM EveryMessageArrives ==
    ASSUME InOrder
    PROVE  N!Spec => []EveryMessageIsTold
<1> DEFINE MInv == NoticeBase /\ WireInOrder /\ MessagesInv
<1>1. MInv => EveryMessageIsTold
  <2> SUFFICES ASSUME MInv, N!Quiet, NEW m \in DOMAIN nSent, m \notin nTold \cup nMissed
               PROVE  FALSE
    BY DEF EveryMessageIsTold, N!EveryMessageIsTold, N!Ids
  <2>1. ~InFlight(m) /\ ~Owed(m) /\ ~Loads(nSent[m].room)
    BY DEF N!Quiet, N!Ids, InFlight, Owed, Loads, Selecting
  <2> QED BY <2>1 DEF MessagesInv, MessageInv
<1>2. N!Init => MInv
  <2>1. N!Init => nSent = <<>> /\ nDown = <<>>
    BY DEF N!Init
  <2>2. nSent = <<>> /\ nDown = <<>> => WireInOrder /\ MessagesInv
    BY DEF WireInOrder, Messages, MessagesInv
  <2> QED BY <2>1, <2>2, NoticeInit
<1>3. MInv /\ [N!Next]_(N!vars) => MInv'
  BY BaseStep, WireStep, MessagesStep DEF NoticeAct
<1> HIDE DEF MInv
<1> QED BY <1>1, <1>2, <1>3, PTL DEF N!Spec
=============================================================================
