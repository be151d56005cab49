------------------------------ MODULE Accounts ------------------------------
(***************************************************************************)
(* Accounts: registration (backend/skrib/auth), administration of users    *)
(* (users), invites and the registration mode (server), over the tables    *)
(* users, challenges, invite_tokens and settings.                          *)
(*                                                                         *)
(* The handlers are coroutines without an await before their last write,   *)
(* so each runs in one go, with two exceptions that are steps of their     *)
(* own: the dependency that authorizes an administrator's call runs in a   *)
(* thread before the handler does (Authorize), and update_user awaits a    *)
(* broadcast between its permission check and the change of a role when    *)
(* the same request changes the profile (SlowBroadcast).                   *)
(*                                                                         *)
(* A registration is identified by its step-1 token, which is random: the  *)
(* token stands for the enrollment page that was opened with it, for the   *)
(* passkey made there and for the approval code given to it.               *)
(***************************************************************************)
EXTENDS Integers, FiniteSets

CONSTANTS
    Names,          \* usernames
    Tokens,         \* registrations begun
    Invites,        \* invite tokens
    NoOne, NoPage, NoInvite, NoAccount, Idle,
    Gone,           \* the row of a deleted invite
    MaxCalls,       \* how many administrators' calls are under way at once
    SlowBroadcast   \* whether update_user may be suspended in its broadcast

Modes == {"closed", "invite_only", "approval_required", "open"}
Ranks == {"user", "moderator", "admin"}

Account == [status : {"pending", "active"}, role : Ranks, passkey : Tokens]
Page == [name : Names, invite : Invites \cup {NoInvite}]
Invite == [by : Names, used_by : Names \cup {NoOne}]
Call ==
    [op : {"approve", "reject"}, token : Tokens]
    \cup [op : {"delete"}, name : Names]
    \cup [op : {"role"}, name : Names, role : Ranks]
    \cup [op : {"mode"}, mode : Modes]
    \cup [op : {"invite", "uninvite"}, invite : Invites]

ASSUME AccountsAssumption ==
    /\ NoOne \notin Names
    /\ NoInvite \notin Invites \cup Invite
    /\ Gone \notin Invite \cup {NoInvite}
    /\ NoPage \notin Page
    /\ NoAccount \notin Account
    /\ Idle \notin Call
    /\ MaxCalls \in Nat
    /\ SlowBroadcast \in BOOLEAN

VARIABLES
    users,          \* [name]: the row of table users
    mode,           \* settings.registration_mode
    invite_tokens,  \* [invite]: its row
    pages,          \* [token]: the enrollment page opened with it
    tokens,         \* the step-1 tokens the table challenges still has
    challenges,     \* the registrations that have a live WebAuthn challenge
    calls           \* [name]: his authorized call that has not run yet

vars == <<users, mode, invite_tokens, pages, tokens, challenges, calls>>

TypeOK ==
    /\ users \in [Names -> Account \cup {NoAccount}]
    /\ mode \in Modes
    /\ invite_tokens \in [Invites -> Invite \cup {NoInvite, Gone}]
    /\ pages \in [Tokens -> Page \cup {NoPage}]
    /\ tokens \subseteq Tokens
    /\ challenges \subseteq Tokens
    /\ calls \in [Names -> Call \cup {Idle}]

Init ==
    /\ users = [n \in Names |-> NoAccount]
    /\ mode \in Modes
    /\ invite_tokens = [i \in Invites |-> NoInvite]
    /\ pages = [t \in Tokens |-> NoPage]
    /\ tokens = {}
    /\ challenges = {}
    /\ calls = [n \in Names |-> Idle]

Active(n) == users[n] # NoAccount /\ users[n].status = "active"
IsAdmin(n) == Active(n) /\ users[n].role = "admin"

-----------------------------------------------------------------------------
(* Registration.                                                           *)

validate_invite_token(i) ==
    i # NoInvite /\ invite_tokens[i] \in Invite /\ invite_tokens[i].used_by = NoOne

is_registration_allowed(i) ==
    \/ mode \in {"approval_required", "open"}
    \/ mode = "invite_only" /\ validate_invite_token(i)

\* POST /auth/register, the only place that asks whether registration is allowed.
\* Any invite that was made may come with it, in every mode.
Register(t, n, i) ==
    /\ pages[t] = NoPage
    /\ i # NoInvite => invite_tokens[i] # NoInvite
    /\ is_registration_allowed(i)
    /\ users[n] = NoAccount
    /\ pages' = [pages EXCEPT ![t] = [name |-> n, invite |-> i]]
    /\ tokens' = tokens \cup {t}
    /\ UNCHANGED <<users, mode, invite_tokens, challenges, calls>>

\* GET /auth/register/begin: a challenge bound to the token.
BeginRegistration(t) ==
    /\ t \in tokens
    /\ challenges' = challenges \cup {t}
    /\ UNCHANGED <<users, mode, invite_tokens, pages, tokens, calls>>

\* Five minutes have passed, for the token or for the challenge.
ExpireToken(t) ==
    /\ t \in tokens
    /\ tokens' = tokens \ {t}
    /\ UNCHANGED <<users, mode, invite_tokens, pages, challenges, calls>>

ExpireChallenge(t) ==
    /\ t \in challenges
    /\ challenges' = challenges \ {t}
    /\ UNCHANGED <<users, mode, invite_tokens, pages, tokens, calls>>

\* create_pending_user: role and status of a new account.
FirstUser == ~\E n \in Names : Active(n)
ByInvite(t) == ~FirstUser /\ mode = "invite_only" /\ pages[t].invite # NoInvite

NewAccount(t) ==
    [status |-> IF FirstUser \/ mode = "open" \/ ByInvite(t) THEN "active" ELSE "pending",
     role |-> IF FirstUser THEN "admin" ELSE "user",
     passkey |-> t]

\* consume_invite_token: nothing happens when the invite is used or gone.
ConsumeInvite(t) ==
    LET i == pages[t].invite IN
    invite_tokens' = IF validate_invite_token(i)
                     THEN [invite_tokens EXCEPT ![i].used_by = pages[t].name]
                     ELSE invite_tokens

\* POST /auth/register/complete up to the INSERT: the challenge is consumed, and
\* an invite that lets somebody in.
Verified(t) ==
    /\ t \in tokens \cap challenges
    /\ challenges' = challenges \ {t}
    /\ IF ByInvite(t) THEN ConsumeInvite(t) ELSE UNCHANGED invite_tokens
    /\ UNCHANGED <<mode, pages, calls>>

\* Mutant of InsertUser: INSERT OR REPLACE.
InsertOrReplaceUser(t) == users' = [users EXCEPT ![pages[t].name] = NewAccount(t)]

InsertUser(t) ==
    /\ users[pages[t].name] = NoAccount
    /\ users' = [users EXCEPT ![pages[t].name] = NewAccount(t)]

CompleteRegistration(t) ==
    /\ Verified(t)
    /\ InsertUser(t)
    /\ tokens' = tokens \ {t}

\* The INSERT raises: the name has been taken meanwhile, or the database cannot.
CompleteInsertFails(t) ==
    /\ Verified(t)
    /\ UNCHANGED <<users, tokens>>

\* The account is committed, then the deletion of the token raises.
CompleteTokenStays(t) ==
    /\ Verified(t)
    /\ InsertUser(t)
    /\ UNCHANGED tokens

-----------------------------------------------------------------------------
(* Administration.  First the dependency (require_moderator, require_admin) *)
(* looks at the caller, in a thread; then the event loop runs the handler.  *)

Authorize(a, call) ==
    /\ calls[a] = Idle
    /\ Cardinality({n \in Names : calls[n] # Idle}) < MaxCalls
    /\ call.op # "role"
    /\ Active(a)
    /\ \/ users[a].role = "admin"
       \/ users[a].role = "moderator" /\ call.op \in {"approve", "reject"}
    /\ calls' = [calls EXCEPT ![a] = call]
    /\ UNCHANGED <<users, mode, invite_tokens, pages, tokens, challenges>>

\* The handler of call [op, ...] runs.
Run(a, op) ==
    /\ calls[a] # Idle /\ calls[a].op = op
    /\ calls' = [calls EXCEPT ![a] = Idle]
    /\ UNCHANGED <<pages, tokens, challenges>>

\* Mutant of Awaits: the approval code is not compared.
AwaitsAny(n, t) == users[n] # NoAccount /\ users[n].status = "pending"

\* The pending account an approval code was given to.
Awaits(n, t) ==
    users[n] # NoAccount /\ users[n].status = "pending" /\ users[n].passkey = t

approve_user(a) ==
    /\ Run(a, "approve")
    /\ users' = [n \in Names |->
                    IF Awaits(n, calls[a].token)
                    THEN [users[n] EXCEPT !.status = "active",
                                          !.role = IF FirstUser THEN "admin" ELSE "user"]
                    ELSE users[n]]
    /\ UNCHANGED <<mode, invite_tokens>>

reject_user(a) ==
    /\ Run(a, "reject")
    /\ users' = [n \in Names |->
                    IF Awaits(n, calls[a].token) THEN NoAccount ELSE users[n]]
    /\ UNCHANGED <<mode, invite_tokens>>

\* Mutant of LastAdmin: nobody is.
LastAdminNever(n) == FALSE

\* The last admin is not deleted ...
LastAdmin(n) == IsAdmin(n) /\ \A m \in Names : IsAdmin(m) => m = n

\* ... nor, the DELETE raising, anybody whom another table refers to: an invite
\* he made, or a room (which this module does not have).
revoke_user_access(a) ==
    /\ Run(a, "delete")
    /\ \/ /\ ~LastAdmin(calls[a].name)
          /\ \A i \in Invites :
                invite_tokens[i] \in Invite => invite_tokens[i].by # calls[a].name
          /\ users' = [users EXCEPT ![calls[a].name] = NoAccount]
       \/ UNCHANGED users
    /\ UNCHANGED <<mode, invite_tokens>>

set_registration_mode(a) ==
    /\ Run(a, "mode")
    /\ mode' = calls[a].mode
    /\ UNCHANGED <<users, invite_tokens>>

\* A random token, so one that was never made; its maker must still exist.
create_invite_token(a) ==
    LET i == calls[a].invite IN
    /\ Run(a, "invite")
    /\ invite_tokens' = IF invite_tokens[i] = NoInvite /\ users[a] # NoAccount
                        THEN [invite_tokens EXCEPT ![i] = [by |-> a, used_by |-> NoOne]]
                        ELSE invite_tokens
    /\ UNCHANGED <<users, mode>>

delete_invite_token(a) ==
    LET i == calls[a].invite IN
    /\ Run(a, "uninvite")
    /\ invite_tokens' = IF invite_tokens[i] \in Invite
                        THEN [invite_tokens EXCEPT ![i] = Gone] ELSE invite_tokens
    /\ UNCHANGED <<users, mode>>

\* update_user looks at the caller's role itself; nobody changes his own.
CanSetRole(a, n) == IsAdmin(a) /\ n # a /\ users[n] # NoAccount

set_user_role(n, role) ==
    users' = IF users[n] = NoAccount THEN users ELSE [users EXCEPT ![n].role = role]

\* A PATCH with a role and no profile field.
UpdateRole(a, n, role) ==
    /\ CanSetRole(a, n)
    /\ set_user_role(n, role)
    /\ UNCHANGED <<mode, invite_tokens, pages, tokens, challenges, calls>>

\* A PATCH with both: the profile's change is broadcast first ...
UpdateProfileFirst(a, n, role) ==
    /\ SlowBroadcast
    /\ calls[a] = Idle
    /\ Cardinality({m \in Names : calls[m] # Idle}) < MaxCalls
    /\ CanSetRole(a, n)
    /\ calls' = [calls EXCEPT ![a] = [op |-> "role", name |-> n, role |-> role]]
    /\ UNCHANGED <<users, mode, invite_tokens, pages, tokens, challenges>>

\* ... then the role is set, without another look at the caller.
UpdateRoleAfter(a) ==
    /\ Run(a, "role")
    /\ set_user_role(calls[a].name, calls[a].role)
    /\ UNCHANGED <<mode, invite_tokens>>

-----------------------------------------------------------------------------
RegistrationStep(t) ==
    \/ \E n \in Names, i \in Invites \cup {NoInvite} : Register(t, n, i)
    \/ BeginRegistration(t)
    \/ ExpireToken(t) \/ ExpireChallenge(t)
    \/ CompleteRegistration(t)
    \/ CompleteInsertFails(t) \/ CompleteTokenStays(t)

AdminStep(a) ==
    \/ \E call \in Call : Authorize(a, call)
    \/ approve_user(a) \/ reject_user(a) \/ revoke_user_access(a)
    \/ set_registration_mode(a)
    \/ create_invite_token(a) \/ delete_invite_token(a)
    \/ \E n \in Names, role \in Ranks :
          UpdateRole(a, n, role) \/ UpdateProfileFirst(a, n, role)
    \/ UpdateRoleAfter(a)

Next ==
    \/ \E t \in Tokens : RegistrationStep(t)
    \/ \E a \in Names : AdminStep(a)

Spec == Init /\ [][Next]_vars
-----------------------------------------------------------------------------
(* Properties.                                                             *)

\* docs/users.md:82: "The system prevents deleting or demoting the last admin."
\* The handlers see to it in three ways: the first account is an admin, an admin
\* cannot change his own role, and revoke_user_access counts.  It holds unless
\* update_user is suspended between its check and the change.
AdminRemains == (\E n \in Names : Active(n)) => \E n \in Names : IsAdmin(n)

\* And that is the only way to be left without one: calls authorized earlier,
\* deletions, rejections and first users in any order do not lose the last admin.
OnlyLateRoleLosesAdmin ==
    [][AdminRemains /\ ~AdminRemains' => \E a \in Names : UpdateRoleAfter(a)]_vars

\* Two pages may hold tokens for one name, which was free when both registered:
\* the second never takes over the account of the first.  An account keeps its
\* passkey for as long as it exists.
AccountKeepsPasskey ==
    [][\A n \in Names :
          users[n] # NoAccount /\ users'[n] # NoAccount
          => users'[n].passkey = users[n].passkey]_vars

\* Once there is an active account, another becomes active only in a mode that
\* lets it in, or when a call to approve that very registration runs: an approval
\* code is worth nothing for a later registration of the same name.
ActivationIsDecided ==
    [][\A n \in Names :
          ~Active(n) /\ users'[n] # NoAccount /\ users'[n].status = "active"
          => \/ FirstUser
             \/ mode = "open"
             \/ mode = "invite_only" /\ pages[users'[n].passkey].invite # NoInvite
             \/ \E a \in Names :
                   calls[a] = [op |-> "approve", token |-> users'[n].passkey]]_vars
=============================================================================
