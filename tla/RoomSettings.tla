---------------------------- MODULE RoomSettings ----------------------------
(***************************************************************************)
(* The settings page of one channel, frontend/src/room-settings.js, with   *)
(* the part of the room service that it calls.  The page holds no socket:  *)
(* it learns of what others change from the answers to its own reloads, of *)
(* which several may be under way, and draws them as they come.            *)
(*                                                                         *)
(* Topic and visibility are saved as they are changed; what was saved last *)
(* is compared with first, and that comparison reads variables which       *)
(* replies and reloads write.                                              *)
(*                                                                         *)
(* Others may change anything; Rooms has who may.  Left out: the names and *)
(* colours of members, members with role voice, and global moderators.     *)
(***************************************************************************)
EXTENDS Naturals, Sequences, SequencesExt

CONSTANTS
    Users, Me,      \* everybody, and the user of the page
    Admin,          \* whether Me is a global admin (currentRole)
    Topics,
    MaxCalls,       \* bound: what is clicked or edited on the page
    MaxEvents       \* bound: what others change, and what gets lost

VARIABLES
    \* the server
    role, requested, topic, visibility, exists,
    \* the page
    open,           \* it has not gone back to the chat
    members,        \* [user]: the role that the list shows, "none" if it has no row
    requests,       \* the requests that are shown, none when their section is hidden
    topicInput, originalTopic,
    select,         \* what the control of the visibility says
    current,        \* currentRoom.visibility
    \* loads under way
    askedRoom, roomAnswers,
    askedRequests,  \* [whether reloadRoomData follows]: calls of loadJoinRequests
    requestAnswers,
    calls,          \* the other requests of the page, in order
    \* what happened
    clicks, events,
    behind          \* what a known way was taken to leave wrong on the page

server == <<role, requested, topic, visibility, exists>>
fields == <<topicInput, originalTopic, select, current>>
loads == <<askedRoom, roomAnswers, askedRequests, requestAnswers>>
bounds == <<clicks, events>>
vars == <<server, open, members, requests, fields, loads, calls, bounds, behind>>

Ranks == {"member", "op", "owner"}
Roles == [Users -> Ranks \cup {"none"}]
Visibilities == {"private", "public"}
Lists == {"members", "requests"}
Ops == {"remove", "op", "approve", "deny", "leave", "delete", "topic", "visibility"}
Entitled(r) == Admin \/ r \in {"op", "owner"}

TypeOK ==
    /\ role \in Roles /\ requested \subseteq Users
    /\ topic \in Topics /\ visibility \in Visibilities /\ exists \in BOOLEAN
    /\ open \in BOOLEAN /\ members \in Roles /\ requests \subseteq Users
    /\ topicInput \in Topics /\ originalTopic \in Topics
    /\ select \in Visibilities /\ current \in Visibilities
    /\ askedRoom \in Nat /\ askedRequests \in [BOOLEAN -> Nat]
    /\ roomAnswers \in Seq([found : BOOLEAN, role : Roles, visibility : Visibilities,
                            fresh : BOOLEAN])
    /\ requestAnswers \in Seq([is : SUBSET Users, follows : BOOLEAN, fresh : BOOLEAN])
    /\ calls \in Seq([op : Ops, arg : Users \cup Topics \cup Visibilities,
                      at : {"sent", "ok", "refused"}, calm : BOOLEAN,
                      back : BOOLEAN])
    /\ behind \subseteq Lists \cup {"topic", "visibility"}
    /\ clicks \in 0 .. MaxCalls /\ events \in 0 .. MaxEvents

(* initializeRoomSettings has drawn the answer to its request.             *)
Init ==
    /\ role \in Roles /\ role[Me] # "none"
    /\ requested \in SUBSET {u \in Users : role[u] = "none"}
    /\ topic \in Topics /\ visibility \in Visibilities /\ exists = TRUE
    /\ open = TRUE /\ members = role /\ requests = {}
    /\ topicInput = topic /\ originalTopic = topic
    /\ select = visibility /\ current = visibility
    /\ askedRoom = 0 /\ roomAnswers = <<>> /\ requestAnswers = <<>>
    /\ askedRequests = [follows \in BOOLEAN |->
                          IF Entitled(role[Me]) /\ ~follows THEN 1 ELSE 0]
    /\ calls = <<>> /\ behind = {} /\ clicks = 0 /\ events = 0

Event == events < MaxEvents /\ events' = events + 1 /\ UNCHANGED clicks
Clicked == clicks < MaxCalls /\ clicks' = clicks + 1 /\ UNCHANGED events

(* The lists in L are not what they were, and no reload of the page is to  *)
(* follow: answers given before are of no use any more.                    *)
LeftBehind(L) ==
    LET Aged(answers) == [i \in DOMAIN answers |-> [answers[i] EXCEPT !.fresh = FALSE]] IN
    /\ behind' = behind \cup L
    /\ roomAnswers' = IF "members" \in L THEN Aged(roomAnswers) ELSE roomAnswers
    /\ requestAnswers' = IF "requests" \in L THEN Aged(requestAnswers) ELSE requestAnswers

(* Answers are drawn as they come; those the server gave before the one    *)
(* that is drawn are old.                                                  *)
Without(answers, i) ==
    RemoveAt([k \in DOMAIN answers |-> [answers[k] EXCEPT !.fresh = @ /\ k > i]], i)

-----------------------------------------------------------------------------
(* The server.                                                             *)

check_room_access == exists /\ role[Me] # "none"
require_room_op == Entitled(role[Me])

Answered(n, how) == calls' = [calls EXCEPT ![n].at = IF how THEN "ok" ELSE "refused"]

remove_member(n) ==
    LET u == calls[n].arg
        may == exists /\ (u = Me \/ require_room_op) /\ role[u] # "none"
    IN  /\ calls[n].op \in {"remove", "leave"} /\ calls[n].at = "sent" /\ Answered(n, may)
        /\ role' = IF may THEN [role EXCEPT ![u] = "none"] ELSE role
        /\ UNCHANGED <<requested, topic, visibility, exists, open, members, requests, fields,
                       loads, behind, bounds>>

resolve_join_request(n) ==
    LET u == calls[n].arg
        may == check_room_access /\ require_room_op /\ u \in requested
    IN  /\ calls[n].op \in {"approve", "deny"} /\ calls[n].at = "sent" /\ Answered(n, may)
        /\ requested' = IF may THEN requested \ {u} ELSE requested
        /\ role' = IF may /\ calls[n].op = "approve" /\ role[u] = "none"
                   THEN [role EXCEPT ![u] = "member"] ELSE role
        /\ UNCHANGED <<topic, visibility, exists, open, members, requests, fields, loads,
                       behind, bounds>>

\* A save that is refused leaves the input with a topic that is not the room's.
update_room(n) ==
    LET may == check_room_access /\ require_room_op IN
    /\ calls[n].op \in {"topic", "visibility"} /\ calls[n].at = "sent" /\ Answered(n, may)
    /\ topic' = IF may /\ calls[n].op = "topic" THEN calls[n].arg ELSE topic
    /\ visibility' = IF may /\ calls[n].op = "visibility" THEN calls[n].arg ELSE visibility
    /\ behind' = IF ~may /\ calls[n].op = "topic" THEN behind \cup {"topic"} ELSE behind
    /\ UNCHANGED <<role, requested, exists, open, members, requests, fields, loads, bounds>>

\* No row is left that refers to a deleted room.
delete_room(n) ==
    LET may == exists /\ (role[Me] = "owner" \/ Admin) IN
    /\ calls[n].op = "delete" /\ calls[n].at = "sent" /\ Answered(n, may)
    /\ exists' = (exists /\ ~may)
    /\ role' = IF may THEN [u \in Users |-> "none"] ELSE role
    /\ requested' = IF may THEN {} ELSE requested
    /\ UNCHANGED <<topic, visibility, open, members, requests, fields, loads, behind, bounds>>

\* The service has no path that ends in /op: roles are set by update_member.
NoSuchRoute(n) ==
    /\ calls[n].op = "op" /\ calls[n].at = "sent" /\ Answered(n, FALSE)
    /\ UNCHANGED <<server, open, members, requests, fields, loads, behind, bounds>>

get_room_detail ==
    /\ askedRoom > 0 /\ askedRoom' = askedRoom - 1
    /\ roomAnswers' = Append(roomAnswers, [found |-> check_room_access, role |-> role,
                                           visibility |-> visibility, fresh |-> TRUE])
    /\ UNCHANGED <<server, open, members, requests, fields, askedRequests, requestAnswers,
                   calls, behind, bounds>>

\* What there is to show to Me; a refusal hides the section as well.
Requests == IF check_room_access /\ require_room_op THEN requested ELSE {}

list_join_requests(follows) ==
    /\ askedRequests[follows] > 0
    /\ askedRequests' = [askedRequests EXCEPT ![follows] = @ - 1]
    /\ requestAnswers' = Append(requestAnswers, [is |-> Requests, follows |-> follows,
                                                 fresh |-> TRUE])
    /\ UNCHANGED <<server, open, members, requests, fields, askedRoom, roomAnswers, calls,
                   behind, bounds>>

-----------------------------------------------------------------------------
(* Others.                                                                 *)

\* Someone joins, leaves or is removed, or is given another role.
RoleElsewhere(u, r) ==
    /\ Event /\ exists /\ r # role[u]
    /\ role' = [role EXCEPT ![u] = r]
    /\ LeftBehind(IF u = Me THEN Lists ELSE {"members"})
    /\ UNCHANGED <<requested, topic, visibility, exists, open, members, requests, fields,
                   askedRoom, askedRequests, calls>>

\* A request is made, or one is resolved by someone else.
RequestElsewhere(u) ==
    /\ Event /\ exists
    /\ \/ u \notin requested /\ role[u] = "none" /\ visibility = "public"
          /\ requested' = requested \cup {u} /\ UNCHANGED role /\ LeftBehind({"requests"})
       \/ u \in requested /\ requested' = requested \ {u} /\ UNCHANGED role
          /\ LeftBehind({"requests"})
       \/ u \in requested /\ role[u] = "none" /\ requested' = requested \ {u}
          /\ role' = [role EXCEPT ![u] = "member"] /\ LeftBehind(Lists)
    /\ UNCHANGED <<topic, visibility, exists, open, members, requests, fields, askedRoom,
                   askedRequests, calls>>

\* Calls under way whose outcome for f is not that v is set and shown: that of the
\* visibility is set back by any reply that is not good.
Rivals(f, v) ==
    {n \in DOMAIN calls :
        calls[n].op = f /\ (f = "visibility" \/ calls[n].arg # v)}

Disturbed(f, v) ==
    [n \in DOMAIN calls |-> [calls[n] EXCEPT !.calm = @ /\ n \notin Rivals(f, v)]]

FieldElsewhere(t, v) ==
    /\ Event /\ exists
    /\ \/ t # topic /\ topic' = t /\ UNCHANGED visibility
          /\ behind' = behind \cup {"topic"} /\ calls' = Disturbed("topic", t)
       \/ v # visibility /\ visibility' = v /\ UNCHANGED topic
          /\ behind' = behind \cup {"visibility"} /\ calls' = Disturbed("visibility", v)
    /\ UNCHANGED <<role, requested, exists, open, members, requests, fields, loads>>

-----------------------------------------------------------------------------
(* The page: clicks and edits.                                             *)

Click(op, arg) ==
    /\ open /\ Clicked
    /\ calls' = Append(calls, [op |-> op, arg |-> arg, at |-> "sent", calm |-> TRUE,
                               back |-> FALSE])
    /\ UNCHANGED <<server, open, members, requests, fields, loads, behind>>

canManageMember(u) ==
    /\ members[u] # "none"
    /\ \/ Admin
       \/ members[Me] = "owner" /\ members[u] # "owner"
       \/ members[Me] = "op" /\ members[u] = "member"

removeMember(u) == u # Me /\ canManageMember(u) /\ Click("remove", u)
toggleOp(u) == members[u] # "owner" /\ canManageMember(u) /\ Click("op", u)
handleJoinRequest(u, action) == u \in requests /\ Click(action, u)
leaveRoom == Click("leave", Me)
deleteRoom == (Admin \/ members[Me] = "owner") /\ Click("delete", Me)

\* A save of f that is not made because nothing seems to have changed, or that is made
\* with another one under way, leaves the outcome to the order in which they are served.
Save(f, v, unchanged, back) ==
    /\ behind' = IF Rivals(f, v) = {} THEN behind ELSE behind \cup {f}
    /\ calls' = IF unchanged THEN Disturbed(f, v)
                ELSE Append(Disturbed(f, v),
                            [op |-> f, arg |-> v, at |-> "sent", calm |-> Rivals(f, v) = {},
                             back |-> back])

saveTopic(v, back) ==
    /\ Save("topic", v, v = originalTopic, back)
    /\ UNCHANGED originalTopic

\* The input loses the focus, changed or not.
EditTopic(v) ==
    /\ open /\ Entitled(members[Me]) /\ Clicked
    /\ v # topicInput \/ v # originalTopic
    /\ topicInput' = v /\ saveTopic(v, FALSE)
    /\ UNCHANGED <<server, open, members, requests, select, current, loads>>

\* The page goes back once the topic is saved, or could not be.
Back ==
    /\ open /\ Clicked
    /\ saveTopic(topicInput, TRUE)
    /\ open' = (topicInput # originalTopic)
    /\ UNCHANGED <<server, members, requests, topicInput, select, current, loads>>

saveVisibility(v) ==
    /\ open /\ Entitled(members[Me]) /\ Clicked
    /\ v # select /\ select' = v
    /\ Save("visibility", v, v = current, FALSE)
    /\ UNCHANGED <<server, open, members, requests, topicInput, originalTopic, current, loads>>

-----------------------------------------------------------------------------
(* The page: replies.                                                      *)

Finish(n) == calls' = RemoveAt(calls, n)
Reply(n, O, how) == open /\ calls[n].op \in O /\ calls[n].at = how /\ Finish(n)

\* Mutant of RemoveReplied: the list is not loaded again.
RemovedAlready(n) ==
    /\ Reply(n, {"remove"}, "ok") /\ UNCHANGED askedRoom
    /\ UNCHANGED <<server, open, members, requests, fields, roomAnswers, askedRequests,
                   requestAnswers, behind, bounds>>

RemoveReplied(n) ==
    /\ Reply(n, {"remove"}, "ok") /\ askedRoom' = askedRoom + 1
    /\ UNCHANGED <<server, open, members, requests, fields, roomAnswers, askedRequests,
                   requestAnswers, behind, bounds>>

RequestReplied(n) ==
    /\ Reply(n, {"approve", "deny"}, "ok")
    /\ IF Entitled(members[Me])
       THEN /\ askedRequests' = [askedRequests EXCEPT ![TRUE] = @ + 1]
            /\ UNCHANGED <<askedRoom, requests, roomAnswers, requestAnswers, behind>>
       ELSE /\ askedRoom' = askedRoom + 1 /\ requests' = {}
            /\ LeftBehind({"requests"}) /\ UNCHANGED askedRequests
    /\ UNCHANGED <<server, open, members, fields, bounds>>

\* The page goes back to the chat.
GoneReplied(n) ==
    /\ Reply(n, {"leave", "delete"}, "ok") /\ open' = FALSE
    /\ UNCHANGED <<server, members, requests, fields, loads, behind, bounds>>

\* Mutant of TopicReplied: the topic that the page began with stays the original one.
TopicRepliedForgets(n) ==
    /\ Reply(n, {"topic"}, "ok")
    /\ UNCHANGED originalTopic /\ open' = ~calls[n].back
    /\ behind' = IF calls[n].calm THEN behind \ {"topic"} ELSE behind
    /\ UNCHANGED <<server, members, requests, topicInput, select, current, loads, bounds>>

TopicReplied(n) ==
    /\ Reply(n, {"topic"}, "ok")
    /\ originalTopic' = calls[n].arg /\ open' = ~calls[n].back
    /\ behind' = IF calls[n].calm THEN behind \ {"topic"} ELSE behind
    /\ UNCHANGED <<server, members, requests, topicInput, select, current, loads, bounds>>

VisibilityReplied(n) ==
    /\ Reply(n, {"visibility"}, "ok") /\ current' = calls[n].arg
    /\ behind' = IF calls[n].calm THEN behind \ {"visibility"} ELSE behind
    /\ UNCHANGED <<server, open, members, requests, topicInput, originalTopic, select, loads,
                   bounds>>

VisibilityRefused(n) ==
    /\ Reply(n, {"visibility"}, "refused") /\ select' = current
    /\ UNCHANGED <<server, open, members, requests, topicInput, originalTopic, current, loads,
                   behind, bounds>>

\* A toast.
Refused(n) ==
    /\ Reply(n, Ops \ {"visibility"}, "refused")
    /\ open' = ~calls[n].back
    /\ UNCHANGED <<server, members, requests, fields, loads, behind, bounds>>

\* A request or its reply is lost.
Lost(n) ==
    /\ Event /\ Finish(n)
    /\ open' = (open /\ ~calls[n].back)
    /\ select' = IF calls[n].op = "visibility" THEN current ELSE select
    /\ \/ /\ calls[n].op \in {"topic", "visibility"} /\ behind' = behind \cup {calls[n].op}
          /\ UNCHANGED <<roomAnswers, requestAnswers>>
       \/ /\ calls[n].op \notin {"topic", "visibility"} /\ calls[n].at = "ok"
          /\ LeftBehind(Lists)
       \/ /\ calls[n].op \notin {"topic", "visibility"} /\ calls[n].at # "ok"
          /\ UNCHANGED <<behind, roomAnswers, requestAnswers>>
    /\ UNCHANGED <<server, members, requests, topicInput, originalTopic, current, askedRoom,
                   askedRequests>>

-----------------------------------------------------------------------------
(* The page: loads.                                                        *)

\* displayMembers: the section of the requests is hidden, or loaded again.
displayMembers(m) ==
    /\ members' = m
    /\ IF Entitled(m[Me])
       THEN askedRequests' = [askedRequests EXCEPT ![FALSE] = @ + 1] /\ UNCHANGED requests
       ELSE requests' = {} /\ UNCHANGED askedRequests

(* What an answer draws is as old as the answer.  With currentRoom goes    *)
(* the visibility that the next choice will be compared with.              *)
DrawnRoom(a) ==
    LET L == IF Entitled(a.role[Me]) THEN {"members"} ELSE Lists IN
    behind' = (IF a.fresh THEN behind \ L ELSE behind \cup L)
              \cup (IF a.visibility = visibility THEN {} ELSE {"visibility"})

\* reloadRoomData: currentRoom is replaced.  What is refused changes nothing.
reloadRoomData(i) ==
    LET a == roomAnswers[i] IN
    /\ open /\ roomAnswers' = Without(roomAnswers, i)
    /\ IF a.found
       THEN current' = a.visibility /\ displayMembers(a.role) /\ DrawnRoom(a)
       ELSE UNCHANGED <<members, requests, current, askedRequests, behind>>
    /\ UNCHANGED <<server, open, topicInput, originalTopic, select, askedRoom,
                   requestAnswers, calls, bounds>>

loadJoinRequests(i) ==
    LET a == requestAnswers[i] IN
    /\ open /\ requestAnswers' = Without(requestAnswers, i)
    /\ requests' = a.is
    /\ behind' = IF a.fresh THEN behind \ {"requests"} ELSE behind \cup {"requests"}
    /\ askedRoom' = IF a.follows THEN askedRoom + 1 ELSE askedRoom
    /\ UNCHANGED <<server, open, members, fields, roomAnswers, askedRequests, calls, bounds>>

ReloadLost ==
    /\ open /\ askedRoom > 0 /\ Event /\ askedRoom' = askedRoom - 1
    /\ LeftBehind({"members"})
    /\ UNCHANGED <<server, open, members, requests, fields, askedRequests, calls>>

\* The section is hidden, and reloadRoomData follows all the same.
RequestsLost(follows) ==
    /\ open /\ askedRequests[follows] > 0 /\ Event
    /\ askedRequests' = [askedRequests EXCEPT ![follows] = @ - 1]
    /\ askedRoom' = IF follows THEN askedRoom + 1 ELSE askedRoom
    /\ requests' = {} /\ LeftBehind({"requests"})
    /\ UNCHANGED <<server, open, members, fields, calls>>

Next ==
    \/ \E n \in DOMAIN calls :
          \/ remove_member(n) \/ resolve_join_request(n) \/ update_room(n) \/ delete_room(n)
          \/ NoSuchRoute(n)
          \/ RemoveReplied(n) \/ RequestReplied(n) \/ GoneReplied(n) \/ TopicReplied(n)
          \/ VisibilityReplied(n) \/ VisibilityRefused(n) \/ Refused(n) \/ Lost(n)
    \/ get_room_detail
    \/ \E follows \in BOOLEAN : list_join_requests(follows) \/ RequestsLost(follows)
    \/ \E u \in Users :
          \/ \E r \in Ranks \cup {"none"} : RoleElsewhere(u, r)
          \/ RequestElsewhere(u) \/ removeMember(u) \/ toggleOp(u)
          \/ \E action \in {"approve", "deny"} : handleJoinRequest(u, action)
    \/ \E t \in Topics : EditTopic(t)
    \/ \E v \in Visibilities : saveVisibility(v)
    \/ \E t \in Topics, v \in Visibilities : FieldElsewhere(t, v)
    \/ leaveRoom \/ deleteRoom \/ Back
    \/ \E i \in DOMAIN roomAnswers : reloadRoomData(i)
    \/ \E i \in DOMAIN requestAnswers : loadJoinRequests(i)
    \/ ReloadLost

Spec == Init /\ [][Next]_vars

-----------------------------------------------------------------------------
\* Nothing that the page has asked for is under way.
Quiet ==
    /\ open /\ calls = <<>>
    /\ askedRoom = 0 /\ roomAnswers = <<>> /\ requestAnswers = <<>>
    /\ \A follows \in BOOLEAN : askedRequests[follows] = 0

(* A page at rest lists the members of the room with their roles, and so   *)
(* offers the right buttons, whatever it did and in whatever order its     *)
(* reloads were answered and drawn: unless others changed them since it    *)
(* last asked, the answer to its own change was lost, or an older answer   *)
(* was drawn last (reloadRoomData, displayMembers, removeMember).          *)
MembersAreShown == Quiet /\ "members" \notin behind => members = role

(* A page at rest shows the join requests that are to be decided, and none *)
(* to a user who may not decide (any more), with the same exceptions       *)
(* (loadJoinRequests, which displayMembers and handleJoinRequest call).    *)
RequestsAreShown == Quiet /\ "requests" \notin behind => requests = Requests

(* What stands in the input is the topic of the room once no save is left  *)
(* to be served, on a page that was left with the back button as well: the *)
(* comparison with originalTopic skips no save, unless one is under way,   *)
(* somebody else has edited it, or a save was lost or refused (saveTopic). *)
TopicIsKept ==
    /\ \A n \in DOMAIN calls : calls[n].op = "topic" => calls[n].at # "sent"
    /\ "topic" \notin behind
    => topicInput = topic

(* A page at rest shows whether the room is public as it is, after refused *)
(* choices too, unless somebody else changed it, a choice was made while   *)
(* another one was being saved, a save was lost, or a reload put another   *)
(* value than the room's into currentRoom (saveVisibility).                *)
VisibilityIsShown ==
    Quiet /\ "visibility" \notin behind => select = visibility

\* Whatever the page did or was told: both lists, and both of what it saves.
ListsAreShown == MembersAreShown /\ RequestsAreShown
SavesAreShown == TopicIsKept /\ VisibilityIsShown
=============================================================================
