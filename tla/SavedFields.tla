---------------------------- MODULE SavedFields -----------------------------
(***************************************************************************)
(* The fields of the settings page and of the admin page that are saved as *)
(* they are changed, frontend/src/settings.js, admin.js and                *)
(* theme-manager.js.  They share no state, so there is one here, of any    *)
(* kind and on either page:                                                *)
(*                                                                         *)
(*   "input"   nickname, status, color; server name, backups: what is      *)
(*             typed is sent, and nothing is done about the reply          *)
(*   "theme"   a card of a list, previewed when it is clicked; the list is *)
(*             drawn again when the reply is good                          *)
(*   "type"    the same without a preview (the room type of DMs)           *)
(*   "scheme"  light or dark: applied and marked at once                   *)
(*                                                                         *)
(* Cards and schemes are compared with the variable current (that is,      *)
(* currentThemeName, currentDefaultTheme, currentDmRoomType or             *)
(* currentColorScheme), which replies write, too.  Left out: the trimming  *)
(* of text, and the server list, which is in the browser only.             *)
(***************************************************************************)
EXTENDS Naturals, Sequences, SequencesExt

CONSTANTS
    Values,
    None,           \* no value: a list that could not be drawn
    MaxCalls,       \* bound: what is edited or clicked
    MaxEvents       \* bound: what others change, and what gets lost

VARIABLES
    kind, page,
    saved,          \* the server's value
    phase,          \* "loading" the value, "listing" the themes, or "ready"
    loaded,         \* the answer to the load, None as long as it is not served
    shown,          \* the field, or the card or button that is marked
    current,        \* what the next choice is compared with
    preview,        \* the theme that is applied, and cached for the next page
    redraws,        \* loads of the list that will draw it again
    calls,          \* the requests that save, in order
    wanted,         \* history: what was chosen last
    clicks, events,
    excused         \* what a known way has left wrong: "shown", "preview", "choice"

bounds == <<clicks, events>>
vars == <<kind, page, saved, phase, loaded, shown, current, preview, redraws, calls, wanted,
          bounds, excused>>

Kinds == {"input", "theme", "type", "scheme"}
All == {"shown", "preview", "choice"}
IsList == kind \in {"theme", "type"}

TypeOK ==
    /\ kind \in Kinds /\ page \in {"settings", "admin"}
    /\ saved \in Values /\ phase \in {"loading", "listing", "ready"}
    /\ loaded \in Values \cup {None} /\ shown \in Values \cup {None}
    /\ current \in Values \cup {None} /\ preview \in Values
    /\ redraws \in Nat
    /\ calls \in Seq([v : Values, at : {"sent", "ok", "refused"}, calm : BOOLEAN])
    /\ wanted \in Values /\ excused \subseteq All
    /\ clicks \in 0 .. MaxCalls /\ events \in 0 .. MaxEvents

\* The theme has been applied before (loadTheme).
Init ==
    /\ kind \in Kinds /\ page \in {"settings", "admin"}
    /\ kind = "scheme" => page = "settings"
    /\ kind = "type" => page = "admin"
    /\ saved \in Values /\ preview = saved /\ wanted = saved
    /\ phase = "loading" /\ loaded = None /\ shown = None
    /\ IF kind = "scheme" THEN current \in Values ELSE current = None
    /\ redraws = 0 /\ calls = <<>> /\ excused = {}
    /\ clicks = 0 /\ events = 0

Event == events < MaxEvents /\ events' = events + 1 /\ UNCHANGED clicks
Clicked == clicks < MaxCalls /\ clicks' = clicks + 1 /\ UNCHANGED events

\* Nothing can be said of the outcome of the calls under way.
Unclear == [n \in DOMAIN calls |-> [calls[n] EXCEPT !.calm = FALSE]]

\* Another value is being saved.
Rivals(v) == {n \in DOMAIN calls : calls[n].v # v}

-----------------------------------------------------------------------------
(* The server, and other tabs or admins.                                   *)

ServeLoad ==
    /\ phase = "loading" /\ loaded = None /\ loaded' = saved
    /\ UNCHANGED <<kind, page, saved, phase, shown, current, preview, redraws, calls, wanted,
                   bounds, excused>>

Serve(n) ==
    /\ calls[n].at = "sent"
    /\ \/ saved' = calls[n].v /\ calls' = [calls EXCEPT ![n].at = "ok"]
       \/ UNCHANGED saved /\ calls' = [calls EXCEPT ![n].at = "refused"]
    /\ UNCHANGED <<kind, page, phase, loaded, shown, current, preview, redraws, wanted, bounds,
                   excused>>

SavedElsewhere(v) ==
    /\ Event /\ v # saved /\ saved' = v
    /\ calls' = Unclear /\ excused' = All
    /\ UNCHANGED <<kind, page, phase, loaded, shown, current, preview, redraws, wanted>>

-----------------------------------------------------------------------------
(* The page is loaded.                                                     *)

\* What was typed meanwhile is overwritten, on the admin page after it was sent.
Loaded ==
    /\ phase = "loading" /\ loaded # None
    /\ phase' = IF page = "settings" \/ IsList THEN "listing" ELSE "ready"
    /\ current' = loaded
    /\ shown' = IF IsList THEN shown ELSE loaded
    /\ excused' = IF IsList THEN excused
                  ELSE excused \cup (IF loaded # saved \/ calls # <<>> THEN {"shown"} ELSE {})
                               \cup (IF loaded # wanted THEN {"choice"} ELSE {})
    /\ calls' = Unclear
    /\ UNCHANGED <<kind, page, saved, loaded, preview, redraws, wanted, bounds>>

\* The settings page goes on without; a list of the admin page is not drawn at all.
LoadLost ==
    /\ phase = "loading" /\ page = "settings" /\ Event
    /\ phase' = "listing" /\ excused' = All
    /\ UNCHANGED <<kind, page, saved, loaded, shown, current, preview, redraws, calls, wanted>>

\* The list of themes is there: the cards are drawn, and listeners are set.
Listed ==
    /\ phase = "listing" /\ phase' = "ready"
    /\ shown' = IF IsList THEN current ELSE shown
    /\ UNCHANGED <<kind, page, saved, loaded, current, preview, redraws, calls, wanted, bounds,
                   excused>>

\* There is no list to choose from.
ListFails ==
    /\ phase = "listing" /\ Event /\ phase' = "ready"
    /\ excused' = IF IsList THEN excused \cup {"shown"} ELSE excused
    /\ UNCHANGED <<kind, page, saved, loaded, shown, current, preview, redraws, calls, wanted>>

-----------------------------------------------------------------------------
(* Edits and clicks.                                                       *)

\* Two saves of different values under way may be served and answered in any order.
Send(v) ==
    /\ calls' = Append(IF Rivals(v) = {} THEN calls ELSE Unclear,
                       [v |-> v, at |-> "sent", calm |-> Rivals(v) = {}])
    /\ excused' = IF Rivals(v) = {} THEN excused ELSE All

\* updateUserNickname, updateUserStatus, updateUserColor; updateServerName,
\* saveBackupConfig, updateUserColorAdmin.  Clearing a field sends it twice.  On the
\* settings page nobody listens before the themes are there.
Edit(v) ==
    /\ kind = "input" /\ Clicked /\ shown' = v /\ wanted' = v
    /\ IF page = "admin" \/ phase = "ready"
       THEN Send(v)
       ELSE excused' = excused \cup {"choice", "shown"} /\ UNCHANGED calls
    /\ UNCHANGED <<kind, page, saved, phase, loaded, current, preview, redraws>>

\* A choice of what seems to be saved already ends there, whatever is being saved.
Skip(v) ==
    /\ calls' = IF Rivals(v) = {} THEN calls ELSE Unclear
    /\ excused' = IF Rivals(v) = {} THEN excused ELSE excused \cup {"choice"}

\* selectTheme, selectDefaultTheme.
selectTheme(v) ==
    /\ kind = "theme" /\ phase = "ready" /\ shown # None /\ Clicked
    /\ wanted' = v
    /\ IF v = current THEN Skip(v) /\ UNCHANGED preview ELSE Send(v) /\ preview' = v
    /\ UNCHANGED <<kind, page, saved, phase, loaded, shown, current, redraws>>

selectDmRoomType(v) ==
    /\ kind = "type" /\ phase = "ready" /\ shown # None /\ Clicked
    /\ wanted' = v
    /\ IF v = current THEN Skip(v) ELSE Send(v)
    /\ UNCHANGED <<kind, page, saved, phase, loaded, shown, current, preview, redraws>>

selectColorScheme(v) ==
    /\ kind = "scheme" /\ phase = "ready" /\ Clicked
    /\ wanted' = v
    /\ IF v = current THEN Skip(v) /\ UNCHANGED <<shown, current>>
       ELSE Send(v) /\ shown' = v /\ current' = v
    /\ UNCHANGED <<kind, page, saved, phase, loaded, preview, redraws>>

-----------------------------------------------------------------------------
(* Replies.                                                                *)

Finish(n) == calls' = RemoveAt(calls, n)

\* Mutant of Saved: the list is drawn before the variable is set.
SavedLate(n) ==
    /\ calls[n].at = "ok" /\ Finish(n)
    /\ current' = IF IsList THEN calls[n].v ELSE current
    /\ shown' = IF IsList THEN current ELSE shown
    /\ excused' = IF calls[n].calm THEN {} ELSE excused
    /\ UNCHANGED <<kind, page, saved, phase, loaded, preview, redraws, wanted, bounds>>

Saved(n) ==
    /\ calls[n].at = "ok" /\ Finish(n)
    /\ current' = IF IsList THEN calls[n].v ELSE current
    /\ redraws' = IF IsList THEN redraws + 1 ELSE redraws
    /\ excused' = IF calls[n].calm THEN {} ELSE excused
    /\ UNCHANGED <<kind, page, saved, phase, loaded, shown, preview, wanted, bounds>>

\* An alert at best: the field, the scheme and the preview stay.
Refused(n) ==
    /\ calls[n].at = "refused" /\ Finish(n)
    /\ excused' = IF IsList THEN excused \cup {"preview", "choice"} ELSE All
    /\ UNCHANGED <<kind, page, saved, phase, loaded, shown, current, preview, redraws, wanted,
                   bounds>>

Lost(n) ==
    /\ Event /\ Finish(n) /\ excused' = All
    /\ UNCHANGED <<kind, page, saved, phase, loaded, shown, current, preview, redraws, wanted>>

\* loadThemeList, loadAdminThemeList, loadDmRoomTypeList: what is marked is what is
\* current when the list is there.
Redraw ==
    /\ redraws > 0 /\ redraws' = redraws - 1 /\ shown' = current
    /\ UNCHANGED <<kind, page, saved, phase, loaded, current, preview, calls, wanted, bounds,
                   excused>>

\* fetchAvailableThemes fails: no theme is shown; the list of room types stays as it is.
RedrawFails ==
    /\ redraws > 0 /\ Event /\ redraws' = redraws - 1
    /\ shown' = IF kind = "theme" THEN None ELSE shown
    /\ excused' = excused \cup {"shown"}
    /\ UNCHANGED <<kind, page, saved, phase, loaded, current, preview, calls, wanted>>

Next ==
    \/ ServeLoad \/ Loaded \/ LoadLost \/ Listed \/ ListFails \/ Redraw \/ RedrawFails
    \/ \E n \in DOMAIN calls : Serve(n) \/ Saved(n) \/ Refused(n) \/ Lost(n)
    \/ \E v \in Values :
          \/ Edit(v) \/ selectTheme(v) \/ selectDmRoomType(v) \/ selectColorScheme(v)
          \/ SavedElsewhere(v)

Spec == Init /\ [][Next]_vars

-----------------------------------------------------------------------------
AtRest == phase = "ready" /\ calls = <<>> /\ redraws = 0

(* A page at rest shows what is saved, except after another tab or admin   *)
(* has saved something, two values were being saved at once, a request was *)
(* lost, a value that the page does not take back was refused, or it was   *)
(* typed while the page was loading (all the handlers of the fields).      *)
ShownIsSaved == AtRest /\ "shown" \notin excused => shown = saved

(* The theme that a page at rest has applied, and left for the next page   *)
(* to begin with, is the one that is saved, with the same exceptions, a    *)
(* refusal among them (selectTheme, selectDefaultTheme, loadThemeCSS).     *)
PreviewIsSaved ==
    AtRest /\ kind = "theme" /\ "preview" \notin excused => preview = saved

(* What was chosen last is what is saved, with the same exceptions and one *)
(* more: the value that the page began with was chosen again while another *)
(* one was being saved, and was skipped (selectTheme, selectColorScheme,   *)
(* selectDmRoomType, selectDefaultTheme).                                  *)
LastChoiceIsSaved == AtRest /\ "choice" \notin excused => saved = wanted

\* What was chosen is saved, applied and shown.
ChoicesAreSaved == ShownIsSaved /\ PreviewIsSaved /\ LastChoiceIsSaved
=============================================================================
