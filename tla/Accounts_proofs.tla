-------------------------- MODULE Accounts_proofs ---------------------------
(***************************************************************************)
(* Proofs about Accounts: its types, that an account keeps its passkey,    *)
(* that activation is decided and, as long as update_user does not suspend *)
(* between its check and the change of a role, that an admin remains.      *)
(***************************************************************************)
EXTENDS Accounts, TLAPS

\* Whoever holds a token got a page with it.
PagesOpen == \A t \in tokens : pages[t] \in Page

\* Only a slow broadcast leaves a change of role under way.
NoRoleUnderWay ==
    ~SlowBroadcast => \A a \in Names : calls[a] # Idle => calls[a].op # "role"

Inv == TypeOK /\ PagesOpen /\ NoRoleUnderWay

-----------------------------------------------------------------------------
(* What one step does to the accounts.                                     *)

LEMMA NewAccountType ==
  ASSUME TypeOK, NEW t \in Tokens
  PROVE  NewAccount(t) \in Account
BY DEF NewAccount, Account, Ranks

\* A page's name is a name.
LEMMA PageName ==
  ASSUME TypeOK, PagesOpen, NEW t \in tokens
  PROVE  t \in Tokens /\ pages[t].name \in Names
                      /\ pages[t].invite \in Invites \cup {NoInvite}
BY DEF TypeOK, PagesOpen, Page

LEMMA InitInv == Init => Inv
BY DEF Init, Inv, TypeOK, PagesOpen, NoRoleUnderWay

LEMMA RegistrationInv ==
  ASSUME Inv, NEW t \in Tokens, RegistrationStep(t)
  PROVE  Inv'
<1> USE AccountsAssumption DEF Inv, TypeOK, PagesOpen, NoRoleUnderWay
<1>1. ASSUME NEW n \in Names, NEW i \in Invites \cup {NoInvite}, Register(t, n, i)
      PROVE  Inv'
  <2>1. [name |-> n, invite |-> i] \in Page
    BY DEF Page
  <2> QED BY <1>1, <2>1 DEF Register
<1>2. CASE BeginRegistration(t)
  BY <1>2 DEF BeginRegistration
<1>3. CASE ExpireToken(t) \/ ExpireChallenge(t)
  BY <1>3 DEF ExpireToken, ExpireChallenge
<1>4. ASSUME Verified(t)
      PROVE  invite_tokens' \in [Invites -> Invite \cup {NoInvite, Gone}]
  <2>1. CASE UNCHANGED invite_tokens
    BY <2>1
  <2>2. CASE ConsumeInvite(t)
    <3>1. pages[t].name \in Names /\ pages[t].invite \in Invites \cup {NoInvite}
      BY <1>4, PageName DEF Verified
    <3> QED BY <2>2, <3>1 DEF ConsumeInvite, validate_invite_token, Invite
  <2> QED BY <1>4, <2>1, <2>2 DEF Verified
<1>5. ASSUME Verified(t), InsertUser(t)
      PROVE  users' \in [Names -> Account \cup {NoAccount}]
  BY <1>5, NewAccountType DEF InsertUser
<1>6. CASE CompleteRegistration(t)
  BY <1>6, <1>4, <1>5 DEF CompleteRegistration, Verified
<1>7. CASE CompleteInsertFails(t)
  BY <1>7, <1>4 DEF CompleteInsertFails, Verified
<1>8. CASE CompleteTokenStays(t)
  BY <1>8, <1>4, <1>5 DEF CompleteTokenStays, Verified
<1> QED BY <1>1, <1>2, <1>3, <1>6, <1>7, <1>8 DEF RegistrationStep

LEMMA AdminInv ==
  ASSUME Inv, NEW a \in Names, AdminStep(a)
  PROVE  Inv'
<1> USE AccountsAssumption DEF Inv, TypeOK, PagesOpen, NoRoleUnderWay
<1>1. ASSUME NEW call \in Call, Authorize(a, call) PROVE Inv'
  BY <1>1 DEF Authorize
\* What every handler leaves alone, and the caller's free hand.
<1>2. ASSUME NEW op, Run(a, op)
      PROVE  /\ pages' = pages /\ tokens' = tokens /\ challenges' = challenges
             /\ calls' \in [Names -> Call \cup {Idle}]
             /\ NoRoleUnderWay'
  BY <1>2 DEF Run
<1>3. CASE approve_user(a)
  <2>1. users' \in [Names -> Account \cup {NoAccount}]
    <3>1. ASSUME NEW n \in Names, users[n] \in Account, NEW role \in Ranks
          PROVE  [users[n] EXCEPT !.status = "active", !.role = role] \in Account
      BY <3>1 DEF Account
    <3>2. (IF FirstUser THEN "admin" ELSE "user") \in Ranks
      BY DEF Ranks
    <3>3. ASSUME NEW n \in Names, Awaits(n, calls[a].token) PROVE users[n] \in Account
      BY <3>3 DEF Awaits
    <3> DEFINE role == IF FirstUser THEN "admin" ELSE "user"
    <3> HIDE DEF role
    <3>4. ASSUME NEW n \in Names, Awaits(n, calls[a].token)
          PROVE  [users[n] EXCEPT !.status = "active", !.role = role] \in Account
      BY <3>1, <3>2, <3>3, <3>4 DEF role
    <3>5. users' = [n \in Names |->
                      IF Awaits(n, calls[a].token)
                      THEN [users[n] EXCEPT !.status = "active", !.role = role]
                      ELSE users[n]]
      BY <1>3 DEF approve_user, role
    <3> QED BY <3>4, <3>5
  <2> QED BY <1>3, <2>1, <1>2 DEF approve_user
<1>4. CASE reject_user(a)
  <2>1. users' \in [Names -> Account \cup {NoAccount}]
    BY <1>4 DEF reject_user
  <2> QED BY <1>4, <2>1, <1>2 DEF reject_user
<1>5. CASE revoke_user_access(a)
  <2>1. users' \in [Names -> Account \cup {NoAccount}]
    BY <1>5 DEF revoke_user_access
  <2> QED BY <1>5, <2>1, <1>2 DEF revoke_user_access
<1>6. CASE set_registration_mode(a)
  <2>1. calls[a].mode \in Modes
    BY <1>6 DEF set_registration_mode, Run, Call
  <2> QED BY <1>6, <2>1, <1>2 DEF set_registration_mode
<1>7. CASE create_invite_token(a)
  <2>1. invite_tokens' \in [Invites -> Invite \cup {NoInvite, Gone}]
    BY <1>7 DEF create_invite_token, Invite
  <2> QED BY <1>7, <2>1, <1>2 DEF create_invite_token
<1>8. CASE delete_invite_token(a)
  <2>1. invite_tokens' \in [Invites -> Invite \cup {NoInvite, Gone}]
    BY <1>8 DEF delete_invite_token
  <2> QED BY <1>8, <2>1, <1>2 DEF delete_invite_token
<1>9. ASSUME NEW n \in Names, NEW role \in Ranks, set_user_role(n, role)
      PROVE  users' \in [Names -> Account \cup {NoAccount}]
  <2>1. users[n] # NoAccount => [users[n] EXCEPT !.role = role] \in Account
    BY DEF Account
  <2> QED BY <1>9, <2>1 DEF set_user_role
<1>10. ASSUME NEW n \in Names, NEW role \in Ranks, UpdateRole(a, n, role) PROVE Inv'
  BY <1>10, <1>9 DEF UpdateRole
<1>11. ASSUME NEW n \in Names, NEW role \in Ranks, UpdateProfileFirst(a, n, role)
       PROVE  Inv'
  <2>1. [op |-> "role", name |-> n, role |-> role] \in Call
    BY DEF Call
  <2> QED BY <1>11, <2>1 DEF UpdateProfileFirst
<1>12. CASE UpdateRoleAfter(a)
  <2>1. calls[a].name \in Names /\ calls[a].role \in Ranks
    BY <1>12 DEF UpdateRoleAfter, Run, Call
  <2> QED BY <1>12, <2>1, <1>9, <1>2 DEF UpdateRoleAfter
<1> QED BY <1>1, <1>3, <1>4, <1>5, <1>6, <1>7, <1>8, <1>10, <1>11, <1>12 DEF AdminStep

LEMMA InvStep == Inv /\ [Next]_vars => Inv'
<1> SUFFICES ASSUME Inv, [Next]_vars PROVE Inv'
  OBVIOUS
<1>1. CASE UNCHANGED vars
  BY <1>1 DEF vars, Inv, TypeOK, PagesOpen, NoRoleUnderWay
<1>2. CASE Next
  BY <1>2, RegistrationInv, AdminInv DEF Next
<1> QED BY <1>1, <1>2

LEMMA Invariance == Spec => []Inv
BY InitInv, InvStep, PTL DEF Spec

\* The types, for any names, registrations, invites and bound on calls.
THEOREM AccountTypes == Spec => []TypeOK
<1>1. Inv => TypeOK
  BY DEF Inv
<1> QED BY <1>1, Invariance, PTL
-----------------------------------------------------------------------------
(* An admin remains.                                                       *)

LEMMA RegistrationKeepsAdmin ==
  ASSUME Inv, AdminRemains, NEW t \in Tokens, RegistrationStep(t)
  PROVE  AdminRemains'
<1> USE DEF AdminRemains, Active, IsAdmin
<1>1. CASE UNCHANGED users
  BY <1>1
<1>2. ASSUME Verified(t), InsertUser(t) PROVE AdminRemains'
  <2> DEFINE n == pages[t].name
  <2>1. n \in Names
    BY <1>2, PageName DEF Verified, Inv
  <2>2. users' = [users EXCEPT ![n] = NewAccount(t)] /\ users[n] = NoAccount
    BY <1>2 DEF InsertUser
  <2>3. CASE FirstUser
    \* Nobody was active: the newcomer is the admin.
    <3>1. NewAccount(t).role = "admin" /\ NewAccount(t).status = "active"
      BY <2>3 DEF NewAccount
    <3>2. NewAccount(t) # NoAccount
      BY NewAccountType, AccountsAssumption DEF Inv
    <3>3. users'[n] = NewAccount(t)
      BY <2>1, <2>2 DEF Inv, TypeOK
    <3> QED BY <2>1, <3>1, <3>2, <3>3
  <2>4. CASE ~FirstUser
    <3>1. PICK m \in Names : IsAdmin(m)
      BY <2>4 DEF FirstUser
    <3>2. m # n /\ users'[m] = users[m]
      BY <2>1, <2>2, <3>1 DEF Inv, TypeOK
    <3> QED BY <3>1, <3>2
  <2> QED BY <2>3, <2>4
<1> QED BY <1>1, <1>2
        DEF RegistrationStep, Register, BeginRegistration, ExpireToken, ExpireChallenge,
            CompleteRegistration, CompleteInsertFails, CompleteTokenStays

\* Whoever keeps an admin keeps the invariant.
LEMMA AdminKept ==
  ASSUME NEW m \in Names, IsAdmin(m)'
  PROVE  AdminRemains'
BY DEF AdminRemains

LEMMA AdminKeepsAdmin ==
  ASSUME Inv, AdminRemains, NEW a \in Names, AdminStep(a)
  PROVE  AdminRemains' \/ UpdateRoleAfter(a)
<1> USE DEF AdminRemains, Active, IsAdmin
<1>1. CASE UNCHANGED users
  BY <1>1
<1>2. CASE approve_user(a)
  <2> DEFINE t == calls[a].token
  <2>1. CASE \A n \in Names : ~Awaits(n, t)
    <3>1. \A n \in Names : users'[n] = users[n]
      BY <1>2, <2>1 DEF approve_user
    <3> QED BY <3>1
  <2>2. ASSUME NEW n \in Names, Awaits(n, t), FirstUser PROVE AdminRemains'
    <3>1. users[n] \in Account
      BY <2>2 DEF Awaits, Inv, TypeOK
    <3>2. users'[n] = [users[n] EXCEPT !.status = "active", !.role = "admin"]
      BY <1>2, <2>2 DEF approve_user
    <3>3. users'[n] \in Account /\ users'[n].status = "active" /\ users'[n].role = "admin"
      BY <3>1, <3>2 DEF Account, Ranks
    <3> QED BY <3>3, AccountsAssumption
  <2>3. CASE ~FirstUser
    <3>1. PICK m \in Names : IsAdmin(m)
      BY <2>3 DEF FirstUser
    <3>2. ~Awaits(m, t)
      BY <3>1 DEF Awaits
    <3>3. users'[m] = users[m]
      BY <1>2, <3>2 DEF approve_user
    <3> QED BY <3>1, <3>3
  <2> QED BY <2>1, <2>2, <2>3
<1>3. CASE reject_user(a)
  <2> DEFINE t == calls[a].token
  <2>1. \A n \in Names : Active(n) => users'[n] = users[n]
    BY <1>3 DEF reject_user, Awaits
  <2>2. \A n \in Names : Active(n)' => Active(n)
    BY <1>3 DEF reject_user
  <2> QED BY <2>1, <2>2
<1>4. CASE revoke_user_access(a)
  <2> DEFINE n == calls[a].name
  <2>1. CASE UNCHANGED users
    BY <2>1
  <2>2. CASE ~LastAdmin(n) /\ users' = [users EXCEPT ![n] = NoAccount]
    <3>1. \A m \in Names : Active(m)' => Active(m)
      BY <2>2 DEF Inv, TypeOK
    <3>2. ASSUME NEW m \in Names, IsAdmin(m), m # n PROVE AdminRemains'
      BY <2>2, <3>2 DEF Inv, TypeOK
    <3>3. CASE IsAdmin(n)
      \* He was not the last one.
      BY <2>2, <3>2, <3>3 DEF LastAdmin
    <3>4. CASE ~IsAdmin(n)
      BY <3>1, <3>2, <3>4
    <3> QED BY <3>3, <3>4
  <2> QED BY <1>4, <2>1, <2>2 DEF revoke_user_access
<1>5. ASSUME NEW n \in Names, NEW role \in Ranks, UpdateRole(a, n, role)
      PROVE  AdminRemains'
  \* The caller is an admin and not the one who is changed.
  BY <1>5 DEF UpdateRole, CanSetRole, set_user_role, Inv, TypeOK
<1> QED BY <1>1, <1>2, <1>3, <1>4, <1>5
        DEF AdminStep, Authorize, set_registration_mode, create_invite_token,
            delete_invite_token, UpdateProfileFirst

\* The last admin is lost only when a suspended handler changes a role.
LEMMA AdminStaysUnlessLate ==
  ASSUME Inv, AdminRemains, [Next]_vars, \A a \in Names : ~UpdateRoleAfter(a)
  PROVE  AdminRemains'
<1>1. CASE UNCHANGED vars
  BY <1>1 DEF vars, AdminRemains, Active, IsAdmin
<1>2. CASE Next
  BY <1>2, RegistrationKeepsAdmin, AdminKeepsAdmin DEF Next
<1> QED BY <1>1, <1>2

\* Whatever is authorized and run in whatever order, only the second half of a
\* suspended update_user can leave the server without an admin.
THEOREM AdminLostOnlyLate == Spec => OnlyLateRoleLosesAdmin
<1>1. Inv /\ [Next]_vars
      => [AdminRemains /\ ~AdminRemains' => \E a \in Names : UpdateRoleAfter(a)]_vars
  BY AdminStaysUnlessLate
<1> QED BY <1>1, Invariance, PTL DEF Spec, OnlyLateRoleLosesAdmin

\* Unless a handler is suspended between check and change, there is an admin for
\* as long as there is an active account.
THEOREM LastAdminStays ==
  ASSUME ~SlowBroadcast
  PROVE  Spec => []AdminRemains
<1>1. Init => AdminRemains
  BY DEF Init, AdminRemains, Active
<1>2. Inv /\ AdminRemains /\ [Next]_vars => AdminRemains'
  <2> SUFFICES ASSUME Inv, AdminRemains, [Next]_vars PROVE AdminRemains'
    OBVIOUS
  <2>1. \A a \in Names : ~UpdateRoleAfter(a)
    BY DEF UpdateRoleAfter, Run, Inv, NoRoleUnderWay
  <2> QED BY <2>1, AdminStaysUnlessLate
<1> QED BY <1>1, <1>2, Invariance, PTL DEF Spec
-----------------------------------------------------------------------------
(* What becomes of one account.                                            *)

\* What a step may do to an account: make one where there was none, delete it,
\* change its role, or approve it.
Made(n) == \E t \in Tokens : users[n] = NoAccount /\ n = pages[t].name /\ users'[n] = NewAccount(t)
RoleSet(n) ==
    users[n] # NoAccount /\ \E role \in Ranks : users'[n] = [users[n] EXCEPT !.role = role]
Approved(n) ==
    \E a \in Names :
       /\ calls[a] # Idle /\ calls[a].op = "approve"
       /\ Awaits(n, calls[a].token)
       /\ \E role \in Ranks :
             users'[n] = [users[n] EXCEPT !.status = "active", !.role = role]

LEMMA AccountStep ==
  ASSUME Inv, [Next]_vars, NEW n \in Names
  PROVE  \/ users'[n] = users[n] \/ users'[n] = NoAccount
         \/ Made(n) \/ RoleSet(n) \/ Approved(n)
<1>1. CASE UNCHANGED users
  BY <1>1
<1>2. ASSUME NEW t \in Tokens, Verified(t), InsertUser(t)
      PROVE  users'[n] = users[n] \/ Made(n)
  BY <1>2 DEF InsertUser, Made, Inv, TypeOK
<1>3. ASSUME NEW a \in Names, approve_user(a)
      PROVE  users'[n] = users[n] \/ Approved(n)
  <2>1. CASE ~Awaits(n, calls[a].token)
    BY <1>3, <2>1 DEF approve_user
  <2>2. CASE Awaits(n, calls[a].token)
    <3> DEFINE role == IF FirstUser THEN "admin" ELSE "user"
    <3>1. role \in Ranks
      BY DEF Ranks
    <3>2. users'[n] = [users[n] EXCEPT !.status = "active", !.role = role]
      BY <1>3, <2>2 DEF approve_user
    <3>3. calls[a] # Idle /\ calls[a].op = "approve"
      BY <1>3 DEF approve_user, Run
    <3> HIDE DEF role
    <3> QED BY <2>2, <3>1, <3>2, <3>3 DEF Approved
  <2> QED BY <2>1, <2>2
<1>4. ASSUME NEW a \in Names, reject_user(a)
      PROVE  users'[n] = users[n] \/ users'[n] = NoAccount
  BY <1>4 DEF reject_user
<1>5. ASSUME NEW a \in Names, revoke_user_access(a)
      PROVE  users'[n] = users[n] \/ users'[n] = NoAccount
  BY <1>5 DEF revoke_user_access, Inv, TypeOK
<1>6. ASSUME NEW m \in Names, NEW role \in Ranks, set_user_role(m, role)
      PROVE  users'[n] = users[n] \/ RoleSet(n)
  BY <1>6 DEF set_user_role, RoleSet, Inv, TypeOK
<1>7. ASSUME NEW a \in Names, UpdateRoleAfter(a)
      PROVE  users'[n] = users[n] \/ RoleSet(n)
  <2>1. calls[a].name \in Names /\ calls[a].role \in Ranks
    BY <1>7, AccountsAssumption DEF UpdateRoleAfter, Run, Call, Inv, TypeOK
  <2> QED BY <1>6, <1>7, <2>1 DEF UpdateRoleAfter
<1>8. ASSUME NEW t \in Tokens, RegistrationStep(t)
      PROVE  users'[n] = users[n] \/ Made(n)
  BY <1>2, <1>8
     DEF RegistrationStep, Register, BeginRegistration, ExpireToken, ExpireChallenge,
         CompleteRegistration, CompleteInsertFails, CompleteTokenStays
<1>9. ASSUME NEW a \in Names, AdminStep(a)
      PROVE  users'[n] = users[n] \/ users'[n] = NoAccount \/ RoleSet(n) \/ Approved(n)
  BY <1>3, <1>4, <1>5, <1>6, <1>7, <1>9
     DEF AdminStep, Authorize, set_registration_mode, create_invite_token,
         delete_invite_token, UpdateRole, UpdateProfileFirst
<1> QED BY <1>1, <1>8, <1>9 DEF Next, vars

\* A second registration never takes over the account of the first.
THEOREM PasskeyStays == Spec => AccountKeepsPasskey
<1>1. ASSUME Inv, [Next]_vars, NEW n \in Names,
             users[n] # NoAccount, users'[n] # NoAccount
      PROVE  users'[n].passkey = users[n].passkey
  <2>1. users[n] \in Account
    BY <1>1 DEF Inv, TypeOK
  <2>2. CASE users'[n] = users[n]
    BY <2>2
  <2>3. CASE RoleSet(n) \/ Approved(n)
    BY <2>1, <2>3 DEF RoleSet, Approved, Account
  <2> QED BY <1>1, <2>2, <2>3, AccountStep DEF Made
<1>2. Inv /\ [Next]_vars
      => [\A n \in Names :
            users[n] # NoAccount /\ users'[n] # NoAccount
            => users'[n].passkey = users[n].passkey]_vars
  BY <1>1
<1> QED BY <1>2, Invariance, PTL DEF Spec, AccountKeepsPasskey

\* An account becomes active as the first one, by the mode it was made in, by an
\* invite, or by an approval of that registration.
THEOREM ActivationNeedsDecision == Spec => ActivationIsDecided
<1> DEFINE Decided(n) ==
      \/ FirstUser
      \/ mode = "open"
      \/ mode = "invite_only" /\ pages[users'[n].passkey].invite # NoInvite
      \/ \E a \in Names :
            calls[a] = [op |-> "approve", token |-> users'[n].passkey]
<1>1. ASSUME Inv, [Next]_vars, NEW n \in Names,
             ~Active(n), users'[n] # NoAccount, users'[n].status = "active"
      PROVE  Decided(n)
  <2>1. users[n] \in Account \cup {NoAccount}
    BY <1>1 DEF Inv, TypeOK
  <2>2. CASE users'[n] = users[n] \/ RoleSet(n)
    BY <1>1, <2>1, <2>2 DEF RoleSet, Active, Account
  <2>3. CASE Made(n)
    BY <1>1, <2>3 DEF Made, NewAccount, ByInvite
  <2>4. CASE Approved(n)
    <3>1. PICK a \in Names :
             /\ calls[a] # Idle /\ calls[a].op = "approve"
             /\ Awaits(n, calls[a].token)
             /\ \E role \in Ranks :
                   users'[n] = [users[n] EXCEPT !.status = "active", !.role = role]
      BY <2>4 DEF Approved
    <3>2. users'[n].passkey = calls[a].token
      BY <2>1, <3>1 DEF Awaits, Account
    <3>3. calls[a] \in [op : {"approve", "reject"}, token : Tokens]
      BY <1>1, <3>1, AccountsAssumption DEF Inv, TypeOK, Call
    <3>4. calls[a] = [op |-> "approve", token |-> users'[n].passkey]
      BY <3>1, <3>2, <3>3
    <3> QED BY <3>4
  <2> QED BY <1>1, <2>2, <2>3, <2>4, AccountStep
<1>2. Inv /\ [Next]_vars
      => [\A n \in Names :
            ~Active(n) /\ users'[n] # NoAccount /\ users'[n].status = "active"
            => Decided(n)]_vars
  BY <1>1
<1> QED BY <1>2, Invariance, PTL DEF Spec, ActivationIsDecided
=============================================================================
