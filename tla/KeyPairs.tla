----------------------------- MODULE KeyPairs -------------------------------
(***************************************************************************)
(* The key pair of one user: frontend/src/enroll-passkey.js, login.js,     *)
(* key-recovery.js and the session check of app.js, on several browsers,   *)
(* against the user's row and the two endpoints of auth/routes.py that     *)
(* store and return it.                                                    *)
(*                                                                         *)
(* A tab is where its script waits: for the user, for a request, which may *)
(* fail, or for IndexedDB.  What the tabs of a browser share is read and   *)
(* written between two such places.                                        *)
(*                                                                         *)
(* The server compares public keys as text.  exportKey sorts the members   *)
(* of a key, while the pages put kty first when they build the text from a *)
(* private key: the two texts of a pair differ (the seed data of the       *)
(* backend shows the first).  The PRF output is one per passkey, the same  *)
(* on every browser that has it; a passphrase is right or wrong.           *)
(***************************************************************************)
EXTENDS Naturals

CONSTANTS
    Tabs, Browsers,
    BrowserOf,  \* [tab]: the browser it is a tab of
    Prf,        \* the browsers whose authenticator returns a PRF output
    MaxUses,    \* bound: what the user and the administrator do
    MaxFails    \* bound: requests that fail

ASSUME KeyPairsAssumption ==
    /\ BrowserOf \in [Tabs -> Browsers] /\ Prf \subseteq Browsers
    /\ MaxUses \in Nat /\ MaxFails \in Nat

Pairs == Nat \ {0}    \* in the order they are generated
None == 0

Exported(p) == [pair |-> p, sorted |-> TRUE]    \* the text exportKey gives
Rebuilt(p) == [pair |-> p, sorted |-> FALSE]    \* the text of { kty, n, e, ... }
NoText == Exported(None)

VARIABLES
    status,     \* users.status ("none": there is no row)
    registered, \* users.encryption_public_key
    prfBackup,  \* users.encrypted_private_key: the pair it unwraps to
    passBackup, \* users.passphrase_encrypted_private_key, likewise
    stored,     \* [browser]: the private key in IndexedDB
    session,    \* [browser]: localStorage has a session token
    uploaded,   \* [browser]: localStorage has prf_backup_uploaded
    warning,    \* [browser]: localStorage has e2e_key_regenerated
    at,         \* [tab]: where its script is
    back,       \* [tab]: where it goes on when the request it waits for fails
    held,       \* [tab]: the private key its script has in hand
    told,       \* history: [browser]: the warning was displayed
    excused,    \* history: [browser]: its pair may be another by a known way
    quiet,      \* history: [browser]: its pair was replaced, the warning lost
    drawn, uses, fails  \* how many pairs, uses and failures there were

row == <<status, registered, prfBackup, passBackup>>
browser == <<stored, session, uploaded, warning>>
tab == <<at, back, held>>
history == <<told, excused, quiet>>
vars == <<row, browser, tab, history, drawn, uses, fails>>

Rest == {"closed", "enrol", "ready", "form", "recovery", "chat"}
Posting == {"enrolling", "enrolUpload", "upload", "report", "post"}
Asking == {"enrolLogin", "login", "ask", "check", "app", "askBackup"}
Working == {"enrolStore", "enrolPending", "enrolDone", "signedIn", "export",
            "unwrapped", "fresh", "loadKey"}
Moving == Posting \cup Asking \cup Working

OrNone(S) == S \cup {None}

TypeOK ==
    /\ status \in {"none", "pending", "active"}
    /\ registered \in [pair : OrNone(Pairs), sorted : BOOLEAN]
    /\ prfBackup \in OrNone(Pairs) /\ passBackup \in OrNone(Pairs)
    /\ stored \in [Browsers -> OrNone(Pairs)]
    /\ session \in [Browsers -> BOOLEAN] /\ uploaded \in [Browsers -> BOOLEAN]
    /\ warning \in [Browsers -> BOOLEAN]
    /\ at \in [Tabs -> Rest \cup Moving] /\ back \in [Tabs -> Rest \cup Moving]
    /\ held \in [Tabs -> OrNone(Pairs)]
    /\ told \in [Browsers -> BOOLEAN] /\ excused \in [Browsers -> BOOLEAN]
    /\ quiet \in [Browsers -> BOOLEAN]
    /\ drawn \in OrNone(Pairs) /\ uses \in 0 .. MaxUses /\ fails \in 0 .. MaxFails

\* No account yet, or one made through the interface, where the keys are optional.
Init ==
    /\ status \in {"none", "active"}
    /\ registered = NoText /\ prfBackup = None /\ passBackup = None
    /\ stored = [b \in Browsers |-> None]
    /\ session = [b \in Browsers |-> FALSE]
    /\ uploaded = session /\ warning = session
    /\ at = [t \in Tabs |-> "closed"] /\ back = at
    /\ held = [t \in Tabs |-> None]
    /\ told = session /\ excused = session /\ quiet = session
    /\ drawn = 0 /\ uses = 0 /\ fails = 0

-----------------------------------------------------------------------------
(* The server.                                                             *)

\* Mutant of Accepts: any public key is taken.
AcceptsAny(text) == status = "active"

Accepts(text) == status = "active" /\ registered \in {NoText, text}

\* A refusal (401, 409) changes nothing, and no page looks at the answer.
store_encryption_key(text, prf) ==
    /\ registered' = IF Accepts(text) THEN text ELSE registered
    /\ prfBackup' = IF Accepts(text) /\ prf # None THEN prf ELSE prfBackup
    /\ UNCHANGED <<status, passBackup>>

\* The answer to the owner is 200; otherwise (401, 404) the pages take it for nothing.
get_encryption_key == status = "active" /\ registered # NoText

complete_registration(p) ==
    /\ IF status = "none" THEN status' \in {"pending", "active"} ELSE UNCHANGED status
    /\ registered' = IF status = "none" THEN Exported(p) ELSE registered
    /\ passBackup' = IF status = "none" THEN p ELSE passBackup
    /\ UNCHANGED prfBackup

\* What the request that t waits for makes of the row.
Serve(t) ==
    LET b == BrowserOf[t] IN
    \/ at[t] = "enrolling" /\ complete_registration(held[t])
    \/ at[t] = "enrolUpload" /\ store_encryption_key(Rebuilt(held[t]), held[t])
    \/ at[t] = "report" /\ store_encryption_key(Rebuilt(held[t]), None)
    \/ at[t] = "post" /\ store_encryption_key(Exported(held[t]),
                            IF b \in Prf /\ back[t] # "recovery" THEN held[t] ELSE None)
    \* The public and the private key come from two reads of IndexedDB.
    \/ at[t] = "upload" /\ \E p \in {held[t], stored[b]} :
                              store_encryption_key(Rebuilt(held[t]), p)

-----------------------------------------------------------------------------
(* Helpers for the pages.                                                  *)

Go(t, place, onFailure) ==
    /\ at' = [at EXCEPT ![t] = place]
    /\ back' = [back EXCEPT ![t] = onFailure]

Set(f, t) == f' = [f EXCEPT ![BrowserOf[t]] = TRUE]
Clear(f, t) == f' = [f EXCEPT ![BrowserOf[t]] = FALSE]

\* initializeChatView, after the warning was shown.
EnterChat(t) ==
    /\ Go(t, "chat", "chat")
    /\ IF warning[BrowserOf[t]] THEN Set(told, t) /\ Clear(warning, t)
                                ELSE UNCHANGED <<told, warning>>

-----------------------------------------------------------------------------
(* Enrolment: enroll-passkey.js.                                           *)

Use == uses < MaxUses /\ uses' = uses + 1

Enrol(t) ==
    /\ at[t] = "enrol" /\ Use
    /\ Go(t, "enrolling", "enrol")
    /\ drawn' = drawn + 1
    /\ held' = [held EXCEPT ![t] = drawn + 1]
    /\ UNCHANGED <<row, browser, history, fails>>

Enrolled(t) ==
    /\ at[t] = "enrolling" /\ Serve(t)
    /\ Go(t, CASE status # "none" -> "enrol"
               [] status = "none" /\ status' = "pending" -> "enrolPending"
               [] OTHER -> "enrolStore", "enrol")
    /\ UNCHANGED <<browser, held, history, drawn, uses, fails>>

EnrolStore(t) ==
    /\ at[t] \in {"enrolStore", "enrolPending"}
    /\ stored' = [stored EXCEPT ![BrowserOf[t]] = held[t]]
    /\ Go(t, IF at[t] = "enrolStore" THEN "enrolLogin" ELSE "enrol", "enrol")
    /\ UNCHANGED <<row, session, uploaded, warning, held, history, drawn, uses, fails>>

\* A refused login goes to app.html without a session.
EnrolLogin(t) ==
    /\ at[t] = "enrolLogin"
    /\ IF status # "active" THEN Go(t, "app", "login")
       ELSE Go(t, IF BrowserOf[t] \in Prf THEN "enrolUpload" ELSE "enrolDone", "enrolDone")
    /\ UNCHANGED <<row, browser, held, history, drawn, uses, fails>>

EnrolUpload(t) ==
    /\ at[t] = "enrolUpload" /\ Serve(t)
    /\ Go(t, "enrolDone", "enrolDone")
    /\ UNCHANGED <<browser, held, history, drawn, uses, fails>>

EnrolDone(t) ==
    /\ at[t] = "enrolDone"
    /\ Set(session, t)
    /\ Go(t, "app", "login")
    /\ UNCHANGED <<row, stored, uploaded, warning, held, history, drawn, uses, fails>>

-----------------------------------------------------------------------------
(* The login page: login.js, and key-recovery.js.                          *)

\* checkSession of login.js.
CheckSession(t) ==
    LET b == BrowserOf[t] IN
    /\ at[t] = "login"
    /\ IF session[b] /\ status = "active"
       THEN Go(t, "app", "login") /\ UNCHANGED session
       ELSE Go(t, "ready", "ready") /\ Clear(session, t)
    /\ UNCHANGED <<row, stored, uploaded, warning, held, history, drawn, uses, fails>>

\* The challenge, the passkey and login/complete.
Login(t) ==
    /\ at[t] = "ready" /\ status = "active" /\ Use
    /\ Set(session, t)
    /\ Go(t, "signedIn", "app")
    /\ UNCHANGED <<row, stored, uploaded, warning, held, history, drawn, fails>>

SignedIn(t) ==
    LET b == BrowserOf[t] IN
    /\ at[t] = "signedIn"
    /\ CASE stored[b] = None -> Go(t, "ask", "app")
         [] stored[b] # None /\ b \in Prf /\ ~uploaded[b] -> Go(t, "check", "app")
         [] OTHER -> Go(t, "app", "login")
    /\ UNCHANGED <<row, browser, held, history, drawn, uses, fails>>

CheckBackup(t) ==
    /\ at[t] = "check"
    /\ IF get_encryption_key /\ prfBackup = None
       THEN Go(t, "export", "app") /\ UNCHANGED uploaded
       ELSE Go(t, "app", "login") /\ Set(uploaded, t)
    /\ UNCHANGED <<row, stored, session, warning, held, history, drawn, uses, fails>>

Export(t) ==
    /\ at[t] = "export"
    /\ held' = [held EXCEPT ![t] = stored[BrowserOf[t]]]
    /\ Go(t, "upload", "app")
    /\ UNCHANGED <<row, browser, history, drawn, uses, fails>>

Upload(t) ==
    /\ at[t] = "upload" /\ Serve(t)
    /\ Go(t, "app", "login")
    /\ Set(uploaded, t)
    /\ UNCHANGED <<stored, session, warning, held, history, drawn, uses, fails>>

\* Mutant of OffersForm: only where the passkey has no PRF output.
OffersFormWithoutPrf(b) == get_encryption_key /\ passBackup # None /\ b \notin Prf

OffersForm(b) == get_encryption_key /\ passBackup # None

AskServer(t) ==
    LET b == BrowserOf[t]
        unwraps == get_encryption_key /\ prfBackup # None /\ b \in Prf
    IN
    /\ at[t] = "ask"
    /\ CASE unwraps -> Go(t, "unwrapped", IF OffersForm(b) THEN "form" ELSE "fresh")
         [] ~unwraps /\ OffersForm(b) -> Go(t, "form", "form")
         [] OTHER -> Go(t, "fresh", "app")
    /\ held' = [held EXCEPT ![t] = IF unwraps THEN prfBackup ELSE None]
    \* The server has no backup for this browser.
    /\ IF unwraps \/ (get_encryption_key /\ passBackup # None)
       THEN UNCHANGED excused ELSE Set(excused, t)
    /\ UNCHANGED <<row, browser, told, quiet, drawn, uses, fails>>

\* The right passphrase; after a wrong one the form stays as it is.
Recover(t) ==
    /\ at[t] \in {"form", "recovery"} /\ Use
    /\ get_encryption_key /\ passBackup # None
    /\ held' = [held EXCEPT ![t] = passBackup]
    /\ Go(t, "unwrapped", at[t])
    /\ UNCHANGED <<row, browser, history, drawn, fails>>

StoreRecovered(t) ==
    /\ at[t] = "unwrapped"
    /\ stored' = [stored EXCEPT ![BrowserOf[t]] = held[t]]
    /\ Go(t, "report", back[t])
    /\ UNCHANGED <<row, session, uploaded, warning, held, history, drawn, uses, fails>>

Report(t) ==
    /\ at[t] = "report" /\ Serve(t)
    /\ Go(t, "app", "login")
    /\ UNCHANGED <<browser, held, history, drawn, uses, fails>>

Skip(t) ==
    /\ at[t] \in {"form", "recovery"} /\ Use
    /\ Go(t, "fresh", at[t])
    /\ Set(excused, t)
    /\ UNCHANGED <<row, browser, held, told, quiet, drawn, fails>>

StoreFresh(t) ==
    /\ at[t] = "fresh"
    /\ drawn' = drawn + 1
    /\ held' = [held EXCEPT ![t] = drawn + 1]
    /\ stored' = [stored EXCEPT ![BrowserOf[t]] = drawn + 1]
    /\ Go(t, "post", back[t])
    /\ UNCHANGED <<row, session, uploaded, warning, history, uses, fails>>

\* Mutant of Warned: the warning waits for a public key that was accepted.
WarnedIfAccepted(t) ==
    IF Accepts(Exported(held[t])) THEN Set(warning, t) ELSE UNCHANGED warning

Warned(t) == Set(warning, t)

PostFresh(t) ==
    /\ at[t] = "post" /\ Serve(t)
    /\ Warned(t)
    /\ Go(t, "app", "login")
    /\ UNCHANGED <<stored, session, uploaded, held, history, drawn, uses, fails>>

-----------------------------------------------------------------------------
(* checkSession and logout of app.js.                                      *)

OpenApp(t) ==
    LET b == BrowserOf[t] IN
    /\ at[t] = "app"
    /\ IF session[b] /\ status = "active"
       THEN Go(t, "loadKey", "login") /\ UNCHANGED session
       ELSE Go(t, "login", "ready") /\ Clear(session, t)
    /\ UNCHANGED <<row, stored, uploaded, warning, held, history, drawn, uses, fails>>

LoadKey(t) ==
    /\ at[t] = "loadKey"
    /\ held' = [held EXCEPT ![t] = stored[BrowserOf[t]]]
    /\ IF held'[t] # None THEN EnterChat(t)
       ELSE Go(t, "askBackup", "chat") /\ UNCHANGED <<told, warning>>
    /\ UNCHANGED <<row, stored, session, uploaded, excused, quiet, drawn, uses, fails>>

\* Mutant of Redirect: the session is kept.
RedirectSignedIn(t) == Go(t, "login", "ready") /\ UNCHANGED session

\* The session is cleared, for the login page would send the user back.
Redirect(t) == Go(t, "login", "ready") /\ Clear(session, t)

AskBackup(t) ==
    /\ at[t] = "askBackup"
    /\ IF get_encryption_key /\ (passBackup # None \/ prfBackup # None)
       THEN Redirect(t) /\ UNCHANGED <<told, warning, excused>>
       ELSE EnterChat(t) /\ Set(excused, t) /\ UNCHANGED session
    /\ UNCHANGED <<row, stored, uploaded, held, quiet, drawn, uses, fails>>

logout(t) ==
    /\ at[t] = "chat" /\ Use
    /\ Clear(session, t)
    /\ Go(t, "login", "ready")
    /\ UNCHANGED <<row, stored, uploaded, warning, held, history, drawn, fails>>

-----------------------------------------------------------------------------
(* Failures, and what users and administrators do at any moment.           *)

\* The request that t waits for fails; it may have been served before that.
RequestFails(t) ==
    /\ fails < MaxFails /\ fails' = fails + 1
    /\ at[t] \in Posting \cup Asking
    /\ Serve(t) \/ UNCHANGED row
    /\ IF back[t] = "chat" THEN EnterChat(t)
       ELSE Go(t, back[t], IF back[t] = "app" THEN "login" ELSE "app")
            /\ UNCHANGED <<told, warning>>
    /\ Set(excused, t)
    /\ IF at[t] = "post" THEN Set(quiet, t) ELSE UNCHANGED quiet
    /\ UNCHANGED <<stored, session, uploaded, held, drawn, uses>>

\* The tab is closed or shows another page, in the middle of a request or not.
Open(t, page) ==
    LET b == BrowserOf[t] IN
    /\ Use
    /\ Serve(t) \/ UNCHANGED row
    /\ IF page = "recovery" /\ ~session[b] THEN Go(t, "login", "ready")
       ELSE Go(t, page, IF page = "app" THEN "login" ELSE "ready")
    /\ held' = [held EXCEPT ![t] = None]
    /\ IF at[t] = "post" THEN Set(quiet, t) ELSE UNCHANGED quiet
    /\ UNCHANGED <<browser, told, excused, drawn, fails>>

\* The browser's storage is cleared: IndexedDB alone, or all of it.
Forget(b, all) ==
    /\ Use
    /\ stored' = [stored EXCEPT ![b] = None]
    /\ session' = [session EXCEPT ![b] = @ /\ ~all]
    /\ uploaded' = [uploaded EXCEPT ![b] = @ /\ ~all]
    /\ warning' = [warning EXCEPT ![b] = @ /\ ~all]
    /\ quiet' = [quiet EXCEPT ![b] = @ \/ (all /\ warning[b])]
    /\ UNCHANGED <<row, tab, told, excused, drawn, fails>>

Approve ==
    /\ status = "pending" /\ Use
    /\ status' = "active"
    /\ UNCHANGED <<registered, prfBackup, passBackup, browser, tab, history, drawn, fails>>

\* The account is rejected or deleted; its name is free again.  What the
\* browsers have of it stays.
Remove ==
    LET left == {b \in Browsers : \/ stored[b] # None
                                  \/ \E t \in Tabs : /\ BrowserOf[t] = b
                                                     /\ at[t] \notin {"closed", "enrol"}} IN
    /\ status # "none" /\ Use
    /\ status' = "none" /\ registered' = NoText
    /\ prfBackup' = None /\ passBackup' = None
    /\ excused' = [b \in Browsers |-> excused[b] \/ b \in left]
    /\ quiet' = [b \in Browsers |-> quiet[b] \/ b \in left]
    /\ UNCHANGED <<browser, tab, told, drawn, fails>>

-----------------------------------------------------------------------------
Script(t) ==
    \/ Enrolled(t) \/ EnrolStore(t) \/ EnrolLogin(t) \/ EnrolUpload(t) \/ EnrolDone(t)
    \/ CheckSession(t) \/ SignedIn(t) \/ CheckBackup(t) \/ Export(t) \/ Upload(t)
    \/ AskServer(t) \/ StoreRecovered(t) \/ Report(t) \/ StoreFresh(t) \/ PostFresh(t)
    \/ OpenApp(t) \/ LoadKey(t) \/ AskBackup(t)

Next ==
    \/ \E t \in Tabs :
         \/ Script(t) \/ RequestFails(t)
         \/ Enrol(t) \/ Login(t) \/ Recover(t) \/ Skip(t) \/ logout(t)
         \/ \E page \in {"closed", "enrol", "login", "recovery", "app"} : Open(t, page)
    \/ \E b \in Browsers, all \in BOOLEAN : Forget(b, all)
    \/ Approve \/ Remove

Spec == Init /\ [][Next]_vars

\* A request is answered and IndexedDB is read in the end.
FairSpec == Spec /\ \A t \in Tabs : WF_vars(Script(t))

-----------------------------------------------------------------------------
\* A backup on the server, whatever browser made it, unwraps to the private key
\* of the public key registered there.
BackupsOpen ==
    {prfBackup, passBackup} \subseteq {None, registered.pair}

\* A page in the chat has the private key of the registered public key, unless the
\* user skipped the recovery, a request failed, the server had no backup for the
\* browser, or the account is another one under the same name.
ChatHasThePair ==
    \A t \in Tabs : at[t] = "chat" /\ registered # NoText /\ held[t] # registered.pair
                    => excused[BrowserOf[t]]

\* Who is in the chat with a private key that is not the registered one was warned,
\* or will be by the next page, unless the page that was about to is gone.
StrangersAreWarned ==
    \A t \in Tabs :
       at[t] = "chat" /\ registered # NoText /\ held[t] \notin {None, registered.pair}
       => \/ told[BrowserOf[t]] \/ warning[BrowserOf[t]] \/ quiet[BrowserOf[t]]
          \/ \E u \in Tabs : BrowserOf[u] = BrowserOf[t] /\ at[u] = "post"

\* A page comes to rest: login and chat do not send a user back and forth.
PagesComeToRest == \A t \in Tabs : at[t] \in Moving ~> at[t] \in Rest
=============================================================================
