------------------------------ MODULE Attachments ------------------------------
(***************************************************************************)
(* Files sent to rooms (four43.attachments): the rows and the chunk files  *)
(* of the server, the upload and the download of a page, and the deletion  *)
(* of the message (four43.room-type-chat) or of the room (rooms) that an   *)
(* attachment belongs to.                                                  *)
(*                                                                         *)
(* Rows, files on disk, messages and rooms are four stores, and nothing    *)
(* spans two of them: a statement that raises, or the end of the process,  *)
(* leaves one changed and the next not.  Requests interleave where a       *)
(* handler awaits: the body of a chunk, the broadcast of a deletion.       *)
(*                                                                         *)
(* An upload has a fresh id, and sends one message at most: that message   *)
(* goes by the id of the upload here.                                      *)
(***************************************************************************)
EXTENDS Integers, FiniteSets

CONSTANTS
    Rooms,
    Files,          \* attachment ids, each of one upload
    NoRoom,
    NChunks,        \* chunks of a file
    MaxFaults       \* bound: statements that raise, and restarts

ASSUME AttachmentsAssumption ==
    NoRoom \notin Rooms /\ NChunks \in Nat \ {0} /\ MaxFaults \in Nat

VARIABLES
    \* the server
    rooms,          \* the rooms that exist
    status,         \* [file]: of its row in attachments, or "none"
    linked,         \* files whose row has a message_id
    chunks,         \* [file]: its rows of attachment_chunks
    dirs,           \* the files that have a directory
    disk,           \* [file]: the chunk files in it
    message,        \* [file]: the row of the message that names it
    puts,           \* [file]: the chunk whose body is being awaited
    deleting,       \* messages whose deletion is being broadcast
    \* the pages
    upload,         \* [file]: how far uploadFile is
    next,           \* [file]: the chunk it is to send
    room_id,        \* [file]: the room that was current when it began
    seen,           \* files whose message some page has displayed
    links,          \* POST .../link requests in flight
    reading,        \* files being downloaded
    left, got,      \* [file]: chunks still to be fetched, and fetched
    \* what happened
    removed,        \* files that were deleted, or whose room was
    missed,         \* linked files that the deletion of their message did not reach
    adrift,         \* files in no room (see InitUpload, DeleteRoomFails)
    faults

store == <<status, linked, chunks, dirs, disk>>
requests == <<puts, deleting, links>>
progress == <<upload, next, room_id>>
download == <<reading, left, got>>
history == <<removed, missed, adrift>>
vars == <<rooms, store, message, requests, progress, seen, download, history, faults>>

Indexes == 0 .. NChunks - 1
NoPut == -1

TypeOK ==
    /\ rooms \subseteq Rooms
    /\ status \in [Files -> {"none", "pending", "complete"}] /\ linked \subseteq Files
    /\ chunks \in [Files -> SUBSET Indexes]
    /\ dirs \subseteq Files
    /\ disk \in [Files -> SUBSET Indexes]
    /\ message \in [Files -> {"unsent", "there", "deleted", "gone"}]
    /\ puts \in [Files -> Indexes \cup {NoPut}]
    /\ deleting \subseteq Files
    /\ upload \in [Files -> {"new", "ready", "put", "send", "over"}]
    /\ next \in [Files -> 0 .. NChunks] /\ room_id \in [Files -> Rooms \cup {NoRoom}]
    /\ seen \subseteq Files
    /\ links \subseteq Files
    /\ reading \subseteq Files
    /\ left \in [Files -> SUBSET Indexes] /\ got \in [Files -> SUBSET Indexes]
    /\ removed \subseteq Files /\ missed \subseteq Files /\ adrift \subseteq Files
    /\ faults \in 0 .. MaxFaults

Init ==
    /\ rooms = Rooms
    /\ status = [a \in Files |-> "none"] /\ linked = {}
    /\ chunks = [a \in Files |-> {}]
    /\ dirs = {} /\ disk = [a \in Files |-> {}]
    /\ message = [a \in Files |-> "unsent"]
    /\ puts = [a \in Files |-> NoPut] /\ deleting = {} /\ links = {}
    /\ upload = [a \in Files |-> "new"] /\ next = [a \in Files |-> 0]
    /\ room_id = [a \in Files |-> NoRoom]
    /\ seen = {} /\ reading = {}
    /\ left = [a \in Files |-> {}] /\ got = [a \in Files |-> {}]
    /\ removed = {} /\ missed = {} /\ adrift = {}
    /\ faults = 0

Stored(a) == status[a] # "none"
Fault == faults < MaxFaults /\ faults' = faults + 1
\* The page's fetch has failed: uploadFile throws.
Over(a) == upload' = [upload EXCEPT ![a] = "over"]

-----------------------------------------------------------------------------
(* delete_attachment, for each of S: the directory, then the rows.         *)

Remove(S) ==
    /\ status' = [a \in Files |-> IF a \in S THEN "none" ELSE status[a]]
    /\ linked' = linked \ S
    /\ chunks' = [a \in Files |-> IF a \in S THEN {} ELSE chunks[a]]
    /\ dirs' = dirs \ S
    /\ disk' = [a \in Files |-> IF a \in S THEN {} ELSE disk[a]]

\* It raises, or the process ends, at one of S: part of the directory may be
\* left, and the rows are.  (Mutant: the rows are deleted first.)
RemoveFailsRowsFirst(S) ==
    \E done \in SUBSET S : \E a \in S \ done : \E rest \in SUBSET disk[a] :
        /\ status' = [b \in Files |-> IF b \in done \cup {a} THEN "none" ELSE status[b]]
        /\ linked' = linked \ (done \cup {a})
        /\ chunks' = [b \in Files |-> IF b \in done \cup {a} THEN {} ELSE chunks[b]]
        /\ dirs' = dirs \ done
        /\ disk' = [b \in Files |-> IF b \in done THEN {} ELSE
                                    IF b = a THEN rest ELSE disk[b]]
RemoveFails(S) ==
    \E done \in SUBSET S : \E a \in S \ done : \E rest \in SUBSET disk[a] :
        /\ status' = [b \in Files |-> IF b \in done THEN "none" ELSE status[b]]
        /\ linked' = linked \ done
        /\ chunks' = [b \in Files |-> IF b \in done THEN {} ELSE chunks[b]]
        /\ dirs' \in {dirs \ done} \cup (IF rest = {} THEN {dirs \ (done \cup {a})} ELSE {})
        /\ disk' = [b \in Files |-> IF b \in done THEN {} ELSE
                                    IF b = a THEN rest ELSE disk[b]]

-----------------------------------------------------------------------------
(* uploadFile.                                                             *)

\* The room is the page's current one, which may have been deleted: the server
\* does not look.
InitUpload(a, r) ==
    /\ upload[a] = "new"
    /\ status' = [status EXCEPT ![a] = "pending"]
    /\ dirs' = dirs \cup {a}
    /\ upload' = [upload EXCEPT ![a] = "ready"] /\ room_id' = [room_id EXCEPT ![a] = r]
    /\ adrift' = IF r \in rooms THEN adrift ELSE adrift \cup {a}
    /\ UNCHANGED <<rooms, linked, chunks, disk, message, requests, next, seen, download,
                   removed, missed, faults>>

\* The row is there, the directory is not made.
InitUploadFails(a, r) ==
    /\ upload[a] = "new" /\ Fault
    /\ status' = [status EXCEPT ![a] = "pending"]
    /\ Over(a) /\ room_id' = [room_id EXCEPT ![a] = r]
    /\ adrift' = IF r \in rooms THEN adrift ELSE adrift \cup {a}
    /\ UNCHANGED <<rooms, linked, chunks, dirs, disk, message, requests, next, seen,
                   download, removed, missed>>

\* The loop over the chunks.
MoreChunks(a) == next[a] < NChunks

\* upload_chunk, up to the await of the body.
PutChunk(a) ==
    /\ upload[a] = "ready" /\ MoreChunks(a)
    /\ IF status[a] = "pending"
       THEN /\ puts' = [puts EXCEPT ![a] = next[a]]
            /\ upload' = [upload EXCEPT ![a] = "put"]
       ELSE Over(a) /\ UNCHANGED puts
    /\ UNCHANGED <<rooms, store, message, deleting, links, next, room_id, seen, download,
                   history, faults>>

\* store_chunk: the file, then the row.  It raises if the directory is gone.
StoreChunk(a) ==
    /\ puts[a] # NoPut
    /\ puts' = [puts EXCEPT ![a] = NoPut]
    /\ IF a \in dirs
       THEN /\ disk' = [disk EXCEPT ![a] = @ \cup {puts[a]}]
            /\ chunks' = [chunks EXCEPT ![a] = @ \cup {puts[a]}]
            /\ IF upload[a] = "put"
               THEN /\ upload' = [upload EXCEPT ![a] = "ready"]
                    /\ next' = [next EXCEPT ![a] = @ + 1]
               ELSE UNCHANGED <<upload, next>>
       ELSE Over(a) /\ UNCHANGED <<disk, chunks, next>>
    /\ UNCHANGED <<rooms, status, linked, dirs, message, deleting, links, room_id, seen,
                   download, history, faults>>

\* The file is written, its row is not.
StoreChunkFails(a) ==
    /\ puts[a] # NoPut /\ a \in dirs /\ Fault
    /\ puts' = [puts EXCEPT ![a] = NoPut]
    /\ disk' = [disk EXCEPT ![a] = @ \cup {puts[a]}]
    /\ Over(a)
    /\ UNCHANGED <<rooms, status, linked, chunks, dirs, message, deleting, links, next,
                   room_id, seen, download, history>>

\* The page goes away, or the connection breaks: the body never comes.
PutDropped(a) ==
    /\ puts[a] # NoPut
    /\ puts' = [puts EXCEPT ![a] = NoPut]
    /\ Over(a)
    /\ UNCHANGED <<rooms, store, message, deleting, links, next, room_id, seen, download,
                   history, faults>>

\* The page is left or reloaded, or gets no answer; its socket may be closed when
\* it is to send the message.
Abort(a) ==
    /\ upload[a] \in {"ready", "put", "send"}
    /\ Over(a)
    /\ UNCHANGED <<rooms, store, message, requests, next, room_id, seen, download,
                   history, faults>>

Finalize(a) ==
    /\ upload[a] = "ready" /\ ~MoreChunks(a)
    /\ IF status[a] = "pending" /\ Cardinality(chunks[a]) = NChunks
       THEN /\ status' = [status EXCEPT ![a] = "complete"]
            /\ upload' = [upload EXCEPT ![a] = "send"]
       ELSE Over(a) /\ UNCHANGED status
    /\ UNCHANGED <<rooms, linked, chunks, dirs, disk, message, requests, next, room_id,
                   seen, download, history, faults>>

\* room:message, which the server takes for a room that exists.
SendMessage(a) ==
    /\ upload[a] = "send"
    /\ Over(a)
    /\ message' = IF room_id[a] \in rooms THEN [message EXCEPT ![a] = "there"] ELSE message
    /\ UNCHANGED <<rooms, store, requests, next, room_id, seen, download, history, faults>>

-----------------------------------------------------------------------------
(* Display, link and download.                                             *)

\* processMessage, perhaps of what a page was told before the message was deleted;
\* the uploader's own pages link the attachment to the message.
Display(a) ==
    /\ message[a] # "unsent"
    /\ seen' = seen \cup {a}
    /\ links' \in {links, links \cup {a}}
    /\ UNCHANGED <<rooms, store, message, puts, deleting, progress, download, history, faults>>

ServeLink(a) ==
    /\ a \in links
    /\ links' = links \ {a}
    /\ linked' = IF Stored(a) THEN linked \cup {a} ELSE linked
    /\ missed' = IF message[a] = "deleted" /\ a \notin deleting
                 THEN missed \cup {a} ELSE missed
    /\ UNCHANGED <<rooms, status, chunks, dirs, disk, message, puts, deleting, progress,
                   seen, download, removed, adrift, faults>>

\* The metadata says how many chunks to fetch.
ReadMeta(a) ==
    /\ a \in seen /\ Stored(a)
    /\ reading' = reading \cup {a}
    /\ left' = [left EXCEPT ![a] = 0 .. Cardinality(chunks[a]) - 1]
    /\ got' = [got EXCEPT ![a] = {}]
    /\ UNCHANGED <<rooms, store, message, requests, progress, seen, history, faults>>

\* One of the workers fetches chunk i; they all stop if one fails.  (Mutant of the
\* first: a chunk that cannot be fetched is left out.)
WithoutChunkSkipped(a, i) ==
    left' = [left EXCEPT ![a] = @ \ {i}] /\ UNCHANGED <<reading, got>>
WithoutChunk(a, i) ==
    /\ reading' = reading \ {a}
    /\ left' = [left EXCEPT ![a] = {}] /\ got' = [got EXCEPT ![a] = {}]
ReadChunk(a, i) ==
    /\ i \in left[a]
    /\ IF status[a] = "complete" /\ i \in disk[a]
       THEN /\ left' = [left EXCEPT ![a] = @ \ {i}]
            /\ got' = [got EXCEPT ![a] = @ \cup {i}]
            /\ UNCHANGED reading
       ELSE WithoutChunk(a, i)
    /\ UNCHANGED <<rooms, store, message, requests, progress, seen, history, faults>>

-----------------------------------------------------------------------------
(* Deletion.                                                               *)

\* room:delete_message, by the author or an admin, perhaps not for the first time,
\* up to the await of the broadcast.
DeleteMessage(a) ==
    /\ message[a] \in {"there", "deleted"} /\ room_id[a] \in rooms
    /\ message' = [message EXCEPT ![a] = "deleted"]
    /\ deleting' = deleting \cup {a}
    /\ UNCHANGED <<rooms, store, puts, links, progress, seen, download, history, faults>>

\* core:message_deleted.
Linked(a) == {b \in {a} : Stored(b) /\ b \in linked}

MessageCleaned(a) ==
    /\ a \in deleting
    /\ deleting' = deleting \ {a}
    /\ Remove(Linked(a))
    /\ UNCHANGED <<rooms, message, puts, links, progress, seen, download, history, faults>>

MessageCleanFails(a) ==
    /\ a \in deleting /\ Fault
    /\ deleting' = deleting \ {a}
    /\ RemoveFails(Linked(a))
    /\ missed' = missed \cup {a}
    /\ UNCHANGED <<rooms, message, puts, links, progress, seen, download, removed, adrift>>

\* DELETE /attachments/{id}, by the uploader or an admin.
DeleteAttachment(a) ==
    /\ Stored(a)
    /\ removed' = removed \cup {a}
    /\ \/ Remove({a}) /\ UNCHANGED faults
       \/ RemoveFails({a}) /\ Fault
    /\ UNCHANGED <<rooms, message, requests, progress, seen, download, missed, adrift>>

\* delete_room_attachments.  (Mutant: uploads under way are forgotten.)
FilesOfComplete(r) == {a \in Files : status[a] = "complete" /\ room_id[a] = r}
FilesOf(r) == {a \in Files : Stored(a) /\ room_id[a] = r}

\* The chat plugin deletes the messages.
Emptied(r) == [a \in Files |-> IF room_id[a] = r /\ message[a] # "unsent" THEN "gone"
                               ELSE message[a]]

\* delete_room and core:room_deleted.
DeleteRoom(r) ==
    /\ r \in rooms
    /\ rooms' = rooms \ {r}
    /\ message' = Emptied(r)
    /\ Remove(FilesOf(r))
    /\ removed' = removed \cup {a \in Files : room_id[a] = r}
    /\ UNCHANGED <<requests, progress, seen, download, missed, adrift, faults>>

\* A listener raises (the error is printed), or the process ends before it runs.
DeleteRoomFails(r) ==
    /\ r \in rooms /\ Fault
    /\ rooms' = rooms \ {r}
    /\ message' \in {message, Emptied(r)}
    /\ Remove(FilesOf(r)) \/ RemoveFails(FilesOf(r))
    /\ removed' = removed \cup {a \in Files : room_id[a] = r}
    /\ adrift' = adrift \cup FilesOf(r)
    /\ UNCHANGED <<requests, progress, seen, download, missed>>

CreateRoom(r) ==
    /\ r \notin rooms
    /\ rooms' = rooms \cup {r}
    /\ UNCHANGED <<store, message, requests, progress, seen, download, history, faults>>

\* cleanup_stale: uploads an hour old, which a page may still be busy with.
CanBeStale(a) == status[a] = "pending"

\* The process ends and starts again: requests being served are lost.
Restart ==
    /\ Fault
    /\ puts' = [a \in Files |-> NoPut] /\ deleting' = {} /\ links' \in SUBSET links
    /\ upload' = [a \in Files |-> IF upload[a] = "put" THEN "over" ELSE upload[a]]
    /\ reading' = {}
    /\ left' = [a \in Files |-> {}] /\ got' = [a \in Files |-> {}]
    /\ missed' = missed \cup deleting
    /\ \E old \in SUBSET {a \in Files : CanBeStale(a)} : Remove(old)
    /\ UNCHANGED <<rooms, message, next, room_id, seen, removed, adrift>>

-----------------------------------------------------------------------------
UploadStep(a) ==
    \/ \E r \in Rooms : InitUpload(a, r) \/ InitUploadFails(a, r)
    \/ PutChunk(a) \/ StoreChunk(a) \/ StoreChunkFails(a) \/ PutDropped(a)
    \/ Finalize(a) \/ SendMessage(a) \/ Abort(a)

ReadStep(a) ==
    \/ Display(a) \/ ServeLink(a) \/ ReadMeta(a)
    \/ \E i \in left[a] : ReadChunk(a, i)

DeleteStep(a) ==
    DeleteMessage(a) \/ MessageCleaned(a) \/ MessageCleanFails(a) \/ DeleteAttachment(a)

RoomStep(r) == DeleteRoom(r) \/ DeleteRoomFails(r) \/ CreateRoom(r)

Next ==
    \/ \E a \in Files : UploadStep(a) \/ ReadStep(a) \/ DeleteStep(a)
    \/ \E r \in Rooms : RoomStep(r)
    \/ Restart

Spec == Init /\ [][Next]_vars
-----------------------------------------------------------------------------
(* Properties.                                                             *)

\* No file stays on the disk without its row, so that nothing is left that no
\* deletion can find: a chunk that comes late, or a deletion or an upload that is
\* cut short, leaves at most rows without files.
NoOrphanFiles ==
    \A a \in Files : a \in dirs \/ disk[a] # {} \/ chunks[a] # {} => Stored(a)

\* Whoever reads a message can have its file, unless that was deleted.
SentIsWhole ==
    \A a \in Files :
        message[a] = "there" /\ a \notin removed
        => status[a] = "complete" /\ chunks[a] = Indexes /\ disk[a] = Indexes

\* A download ends with the whole file or not at all, whatever is deleted under it.
DownloadIsWhole ==
    \A a \in Files : a \in reading /\ left[a] = {} => got[a] = Indexes

\* Files are whole where they are kept and where they are downloaded.
FilesAreWhole == SentIsWhole /\ DownloadIsWhole

\* frontend/src/plugin.js:906: "Link attachment -> message on the server so deletion
\* cascades": it does, except for what was linked too late or a failure left.
DeletedWithMessage ==
    \A a \in Files :
        message[a] = "deleted" /\ Stored(a) /\ a \in linked /\ a \notin deleting
        => a \in missed

\* A room's files go with it, uploads under way included, except where the page or
\* a failure made an exception.
DeletedWithRoom ==
    \A a \in Files : Stored(a) /\ room_id[a] \notin rooms => a \in adrift

\* Whatever is deleted, message or room, its files are.
FilesGoWithOwner == DeletedWithMessage /\ DeletedWithRoom
=============================================================================
