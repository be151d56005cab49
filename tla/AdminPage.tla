----------------------------- MODULE AdminPage ------------------------------
(***************************************************************************)
(* Some of the lists and the registration mode of the admin page,          *)
(* frontend/src/admin.js.  Each list is loaded by requests of its own,     *)
(* which do not wait for one another, and drawn from whichever answer      *)
(* comes; what the page does itself is followed by the loads that the      *)
(* handler of its reply asks for.  The mode decides whether invites are    *)
(* loaded and whether the users who wait for approval are asked for every  *)
(* five seconds.                                                           *)
(*                                                                         *)
(* The content of a list is the number of its changes so far.  SavedFields *)
(* has the fields of the page, Accounts and Backups what the server does.  *)
(***************************************************************************)
EXTENDS Naturals, Sequences, SequencesExt

CONSTANTS
    ListChoices,    \* the sets of lists that may be followed
    MaxCalls,       \* bound: what is clicked on the page
    MaxEvents,      \* bound: what others change, and what gets lost
    MaxLoads        \* bound: loads of one list under way when another one is asked for
                    \* by a timer or by opening a section

VARIABLES
    lists,          \* those that are followed, chosen at the start
    \* the server
    role,           \* that of the user of the page
    mode,           \* registration_mode
    now,            \* [list or "mode"]: how often it has changed
    \* the page
    currentRole, slider, currentRegMode,
    adminPollInterval,  \* "none" (null) or "running"
    shown,          \* [list or "mode"]: the change up to which it is shown
    asked,          \* [list]: how many loads the server has not served
    answers,        \* [list]: what those hold that the page has not drawn
    calls,          \* the other requests of the page, in order
    \* what happened
    clicks, events,
    mine,           \* [list or "mode"]: the last change that the page itself made
    excused         \* what a known way has left behind

server == <<role, mode, now>>
page == <<currentRole, slider, currentRegMode, adminPollInterval>>
bounds == <<clicks, events>>
vars == <<lists, server, page, shown, asked, answers, calls, bounds, mine, excused>>

REG_MODES == {"closed", "invite_only", "approval_required", "open"}
Views == lists \cup {"mode"}
Ops == {"settings", "mode", "approve", "role", "delete", "invite", "uninvite", "backup",
        "unbackup"}

TypeOK ==
    /\ lists \in ListChoices
    /\ role \in {"admin", "moderator", "user"} /\ currentRole \in {"admin", "moderator"}
    /\ mode \in REG_MODES /\ slider \in REG_MODES
    /\ currentRegMode \in REG_MODES \cup {"undefined"}
    /\ adminPollInterval \in {"none", "running"}
    /\ now \in [Views -> Nat] /\ shown \in [Views -> Nat] /\ mine \in [Views -> Nat]
    /\ asked \in [lists -> Nat] /\ answers \in [lists -> Seq(Nat)]
    /\ calls \in Seq([op : Ops, at : {"sent", "ok", "refused"}, change : Nat,
                      mode : REG_MODES \cup {"undefined"}])
    /\ clicks \in 0 .. MaxCalls /\ events \in 0 .. MaxEvents /\ excused \subseteq Views

Call(op, m) == [op |-> op, at |-> "sent", change |-> 0, mode |-> m]

(* checkSession has called loadAdminSettings.                              *)
Init ==
    /\ lists \in ListChoices
    /\ role \in {"admin", "moderator"} /\ currentRole = role
    /\ mode \in REG_MODES /\ slider = "closed" /\ currentRegMode = "closed"
    /\ adminPollInterval = "none"
    /\ now = [v \in Views |-> 1] /\ shown = [v \in Views |-> 0]
    /\ mine = [v \in Views |-> IF v = "log" THEN 0 ELSE 1]
    /\ asked = [v \in lists |-> 0] /\ answers = [v \in lists |-> <<>>]
    /\ calls = <<Call("settings", "undefined")>>
    /\ excused = {"invites"} \cap lists
    /\ clicks = 0 /\ events = 0

Event == events < MaxEvents /\ events' = events + 1 /\ UNCHANGED clicks
Clicked == clicks < MaxCalls /\ clicks' = clicks + 1 /\ UNCHANGED events

\* What a call changes, and what the page loads again when it is answered.
Changes(op) ==
    CASE op = "role" -> {"users"}
      [] op = "delete" -> {"users", "preferences"}
      [] op \in {"invite", "uninvite"} -> {"invites"}
      [] op \in {"backup", "unbackup"} -> {"backups"}
      [] op = "mode" -> {"mode"}
      [] OTHER -> {}

Reloads(op, how) ==
    CASE op \in {"role", "delete"} -> IF how = "ok" THEN {"users"} ELSE {}
      [] op \in {"invite", "uninvite"} -> {"invites"}
      [] op = "backup" -> IF how = "ok" THEN {"backups"} ELSE {}
      [] op = "unbackup" -> {"backups"}
      [] OTHER -> {}

\* Mutant of Ask: a list that is being loaded already is not asked for again.
AskOnce(n) ==
    asked' = [v \in lists |-> IF asked[v] + Len(answers[v]) = 0 THEN n[v] ELSE asked[v]]

Ask(n) == asked' = [v \in lists |-> asked[v] + n[v]]

Once(V) == [v \in lists |-> IF v \in V THEN 1 ELSE 0]

-----------------------------------------------------------------------------
(* The server.                                                             *)

Bumped(V) == [v \in Views |-> IF v \in V THEN now[v] + 1 ELSE now[v]]

\* Calls may be refused for reasons of their own (the user is gone, the last admin, a
\* backup is being made).  Approve and Reject post user.approval_code, which the list
\* of the users does not have: there is nobody with the code "undefined".
Serve(n) ==
    LET c == calls[n]
        Done(how, m, k) ==
            calls' = [calls EXCEPT ![n] = [@ EXCEPT !.at = how, !.mode = m, !.change = k]]
    IN  /\ c.at = "sent"
        /\ \/ /\ c.op = "settings"
              /\ Done("ok", mode, now["mode"]) /\ UNCHANGED <<mode, now, mine>>
           \/ /\ c.op \notin {"settings", "approve"} /\ role = "admin"
              /\ now' = Bumped(Changes(c.op))
              /\ mine' = [v \in Views |-> IF v \in Changes(c.op) THEN now'[v] ELSE mine[v]]
              /\ mode' = IF c.op = "mode" THEN c.mode ELSE mode
              /\ Done("ok", c.mode, IF c.op = "mode" THEN now'["mode"] ELSE 0)
           \/ /\ c.op # "settings" /\ (c.op = "mode" => role # "admin")
              /\ Done("refused", "undefined", 0) /\ UNCHANGED <<mode, now, mine>>
        /\ UNCHANGED <<lists, role, page, shown, asked, answers, bounds, excused>>

MayList(v) == role = "admin" \/ (role = "moderator" /\ v \in {"pending", "users", "preferences"})

\* What is refused is not drawn.
ServeLoad(v) ==
    /\ asked[v] > 0 /\ asked' = [asked EXCEPT ![v] = @ - 1]
    /\ IF MayList(v)
       THEN answers' = [answers EXCEPT ![v] = Append(@, now[v])] /\ UNCHANGED excused
       ELSE excused' = excused \cup {v} /\ UNCHANGED answers
    /\ UNCHANGED <<lists, server, page, shown, calls, bounds, mine>>

\* Someone registers, is approved or rejected, gets another role or is deleted; uses or
\* makes an invite; a backup is made.
Elsewhere(V) ==
    /\ Event /\ V # {} /\ now' = Bumped(V)
    /\ UNCHANGED <<lists, role, mode, page, shown, asked, answers, calls, mine, excused>>

ModeElsewhere(m) ==
    /\ Event /\ m # mode /\ mode' = m /\ now' = Bumped({"mode"})
    /\ UNCHANGED <<lists, role, page, shown, asked, answers, calls, mine, excused>>

\* Another admin changes the role of the user of the page.
RoleElsewhere(r) ==
    /\ Event /\ r # role /\ role' = r /\ now' = Bumped({"users"})
    /\ UNCHANGED <<lists, mode, page, shown, asked, answers, calls, mine, excused>>

-----------------------------------------------------------------------------
(* The page.                                                               *)

updatePendingPoll(m) ==
    adminPollInterval' =
        IF m = "approval_required" /\ adminPollInterval = "none" THEN "running"
        ELSE IF m # "approval_required" /\ adminPollInterval # "none" THEN "none"
        ELSE adminPollInterval

\* The answer to a refused change has no mode.
updateRegModeSlider(m) ==
    /\ slider' = IF m \in REG_MODES THEN m ELSE slider
    /\ currentRegMode' = m /\ updatePendingPoll(m)

\* The loads that go with it: updateInviteSectionVisibility, updatePendingPoll.
ModeAsks(m) ==
    (IF m = "invite_only" THEN {"invites"} ELSE {})
    \cup (IF m = "approval_required" /\ adminPollInterval = "none" THEN {"pending"} ELSE {})

\* What is drawn is older than what is shown, or is what there is.
Redrawn(v, k) ==
    /\ shown' = [shown EXCEPT ![v] = k]
    /\ excused' = IF k < shown[v] THEN excused \cup {v}
                  ELSE IF k = now[v] THEN excused \ {v} ELSE excused

ModeDrawn(c) ==
    /\ updateRegModeSlider(c.mode)
    /\ IF c.at = "ok" THEN Redrawn("mode", c.change)
       ELSE excused' = excused \cup {"mode"} /\ UNCHANGED shown

Finish(n) == calls' = RemoveAt(calls, n)

\* loadAdminSettings goes on: all lists are loaded, some of them twice.
SettingsReplied(n) ==
    LET c == calls[n]
        all == Once({"pending", "users", "preferences", "backups"}
                    \cup (IF c.mode = "invite_only" THEN {"invites"} ELSE {}))
    IN  /\ c.op = "settings" /\ c.at # "sent" /\ Finish(n) /\ ModeDrawn(c)
        /\ Ask([v \in lists |-> all[v] + Once(ModeAsks(c.mode))[v]])
        /\ UNCHANGED <<lists, server, currentRole, answers, bounds, mine>>

setRegistrationModeReplied(n) ==
    LET c == calls[n] IN
    /\ c.op = "mode" /\ c.at # "sent" /\ Finish(n)
    /\ ModeDrawn(c) /\ Ask(Once(ModeAsks(c.mode)))
    /\ UNCHANGED <<lists, server, currentRole, answers, bounds, mine>>

\* deleteUser loads the users again and leaves the preferences as they are.
Replied(n) ==
    LET c == calls[n] IN
    /\ c.op \notin {"settings", "mode"} /\ c.at # "sent" /\ Finish(n)
    /\ Ask(Once(Reloads(c.op, c.at)))
    /\ excused' = IF c.op = "delete" /\ c.at = "ok"
                  THEN excused \cup ({"preferences"} \cap lists) ELSE excused
    /\ UNCHANGED <<lists, server, page, shown, answers, bounds, mine>>

\* A request or its reply is lost; the page draws nothing and loads nothing.
Lost(n) ==
    /\ Event /\ Finish(n)
    /\ excused' = excused \cup (IF calls[n].op = "settings" THEN Views
                              ELSE Changes(calls[n].op) \cap Views)
    /\ UNCHANGED <<lists, server, page, shown, asked, answers, mine>>

Draw(v, i) ==
    /\ Redrawn(v, answers[v][i])
    /\ answers' = [answers EXCEPT ![v] = RemoveAt(@, i)]
    /\ UNCHANGED <<lists, server, page, asked, calls, bounds, mine>>

LoadLost(v) ==
    /\ asked[v] > 0 /\ Event
    /\ asked' = [asked EXCEPT ![v] = @ - 1] /\ excused' = excused \cup {v}
    /\ UNCHANGED <<lists, server, page, shown, answers, calls, mine>>

Room(v) == v \in lists /\ asked[v] + Len(answers[v]) < MaxLoads

\* The timer of updatePendingPoll.
Tick ==
    /\ adminPollInterval = "running" /\ Room("pending") /\ Ask(Once({"pending"}))
    /\ UNCHANGED <<lists, server, page, shown, answers, calls, bounds, mine, excused>>

OpenBackups ==
    /\ Clicked /\ Room("backups") /\ Ask(Once({"backups"}))
    /\ UNCHANGED <<lists, server, page, shown, answers, calls, mine, excused>>

\* Another filter or page of the log is a content of its own, fixed by the request.
loadSystemLog ==
    /\ Clicked /\ Room("log") /\ currentRole = "admin"
    /\ now' = Bumped({"log"}) /\ mine' = [mine EXCEPT !["log"] = now'["log"]]
    /\ answers' = [answers EXCEPT !["log"] = Append(@, now'["log"])]
    /\ UNCHANGED <<lists, role, mode, page, shown, asked, calls, excused>>

Click(op) ==
    /\ Clicked /\ op \notin {"settings", "mode"}
    /\ op = "approve" => "pending" \in lists /\ shown["pending"] > 0
    /\ op # "approve" => currentRole = "admin" /\ Changes(op) \cap lists # {}
    /\ op \in {"role", "delete"} /\ "users" \in lists => shown["users"] > 0
    /\ op \in {"invite", "uninvite"} => currentRegMode = "invite_only"
    /\ op = "backup" => \A n \in DOMAIN calls : calls[n].op # "backup"
    /\ calls' = Append(calls, Call(op, "undefined"))
    /\ UNCHANGED <<lists, server, page, shown, asked, answers, mine, excused>>

\* The slider is moved, and let go.
setRegistrationMode(m) ==
    /\ Clicked /\ currentRole = "admin" /\ m # slider
    /\ slider' = m /\ calls' = Append(calls, Call("mode", m))
    /\ UNCHANGED <<lists, server, currentRole, currentRegMode, adminPollInterval, shown, asked,
                   answers, mine, excused>>

Next ==
    \/ \E n \in DOMAIN calls :
          Serve(n) \/ SettingsReplied(n) \/ setRegistrationModeReplied(n) \/ Replied(n) \/ Lost(n)
    \/ \E v \in lists :
          \/ ServeLoad(v) \/ LoadLost(v)
          \/ \E i \in DOMAIN answers[v] : Draw(v, i)
    \/ \E V \in {{"pending"}, {"pending", "users", "preferences"}, {"users"},
                 {"users", "preferences"}, {"invites"}, {"backups"}} : Elsewhere(V \cap lists)
    \/ \E r \in {"admin", "moderator", "user"} : RoleElsewhere(r)
    \/ \E op \in Ops : Click(op)
    \/ \E m \in REG_MODES : setRegistrationMode(m) \/ ModeElsewhere(m)
    \/ Tick \/ OpenBackups \/ loadSystemLog

Spec == Init /\ [][Next]_vars

-----------------------------------------------------------------------------
IsQuiet(v) ==
    /\ \A n \in DOMAIN calls : calls[n].op # "settings" /\ v \notin Changes(calls[n].op)
    /\ v \in lists => asked[v] = 0 /\ answers[v] = <<>>

(* A list that nothing is under way about shows every change that the page *)
(* itself has made, in whatever order its loads were answered and drawn,   *)
(* and the log shows the filter and page chosen last: except when an older *)
(* answer was drawn last, a request was lost or refused, or what was       *)
(* changed is one of the preferences (setUserRole, deleteUser,             *)
(* generateInviteLink, deleteInvite, triggerBackup, deleteBackup, their    *)
(* loads, loadSystemLog).                                                  *)
OwnChangesAreShown ==
    \A v \in lists : IsQuiet(v) /\ v \notin excused => shown[v] >= mine[v]

(* When no change of the mode is under way, the slider says what the mode  *)
(* is and the page acts on it, unless another admin changed it last, a     *)
(* change was lost or refused, or the replies to two of them came the      *)
(* other way round (loadAdminSettings, setRegistrationMode,                *)
(* updateRegModeSlider).                                                   *)
ModeIsShown ==
    IsQuiet("mode") /\ "mode" \notin excused /\ now["mode"] = mine["mode"] =>
        slider = mode /\ currentRegMode = mode

(* The users who wait are asked for exactly while the page takes it that   *)
(* there are such, by one timer, however the replies to changes of the     *)
(* mode come, those without a mode included (updatePendingPoll).           *)
PollFollows == (adminPollInterval = "running") = (currentRegMode = "approval_required")

\* Whatever the page changed: the lists, the mode, and the poll that goes with it.
ChangesAreShown == OwnChangesAreShown /\ ModeIsShown /\ PollFollows
=============================================================================
