--------------------------- MODULE KeyPairs_proofs ---------------------------
(***************************************************************************)
(* Proofs about module KeyPairs, for any browsers and tabs, any number of  *)
(* failing requests, and accounts that come and go: a backup on the server *)
(* unwraps to the registered pair (KeysInv), and whoever has another pair  *)
(* than the registered one has it by a known way and is warned (PairInv).  *)
(***************************************************************************)
EXTENDS KeyPairs, TLAPS

USE KeyPairsAssumption DEF OrNone, Pairs, None, NoText, Exported, Rebuilt

\* An account that was made without keys and has got none yet.
Bare == status = "active" /\ registered = NoText

\* Where a page is only if there was a public key when it came there.
Keyed == {"enrolStore", "enrolPending", "enrolLogin", "enrolUpload", "enrolDone",
          "export", "upload", "unwrapped", "report"}

\* Where a page goes on when a request fails.
Backs == {"closed", "enrol", "enrolDone", "login", "ready", "app", "form", "recovery",
          "fresh", "chat"}

(* No text of a key that was rebuilt gets registered: the pages that post  *)
(* one are not there before there is another.                              *)
RowInv ==
    /\ registered.sorted
    /\ status = "none" \/ Bare => prfBackup = None /\ passBackup = None
    /\ status = "none" => registered = NoText
    /\ status = "pending" => registered # NoText
    /\ BackupsOpen

TabInv ==
    \A t \in Tabs :
       /\ at[t] = "enrolling" => held[t] # None
       /\ at[t] \in Keyed => ~Bare
       /\ back[t] \in Backs
       /\ back[t] = "enrolDone" => at[t] \in {"enrolUpload", "enrolDone"}

KeysInv == TypeOK /\ RowInv /\ TabInv

RowTypes ==
    /\ status \in {"none", "pending", "active"}
    /\ registered \in [pair : OrNone(Pairs), sorted : BOOLEAN]
    /\ prfBackup \in OrNone(Pairs) /\ passBackup \in OrNone(Pairs)

TabTypes ==
    /\ at \in [Tabs -> Rest \cup Moving] /\ back \in [Tabs -> Rest \cup Moving]
    /\ held \in [Tabs -> OrNone(Pairs)]

BrowserTypes ==
    /\ stored \in [Browsers -> OrNone(Pairs)]
    /\ session \in [Browsers -> BOOLEAN] /\ uploaded \in [Browsers -> BOOLEAN]
    /\ warning \in [Browsers -> BOOLEAN]

HistoryTypes ==
    /\ told \in [Browsers -> BOOLEAN] /\ excused \in [Browsers -> BOOLEAN]
    /\ quiet \in [Browsers -> BOOLEAN]

CountTypes == drawn \in OrNone(Pairs) /\ uses \in 0 .. MaxUses /\ fails \in 0 .. MaxFails

LEMMA TypeParts ==
    TypeOK <=> RowTypes /\ TabTypes /\ BrowserTypes /\ HistoryTypes /\ CountTypes
  BY DEF TypeOK, RowTypes, TabTypes, BrowserTypes, HistoryTypes, CountTypes

LEMMA InitKeys == Init => KeysInv
<1> SUFFICES ASSUME Init PROVE KeysInv
  OBVIOUS
<1>1. TypeOK
  BY DEF Init, TypeOK, Rest, Moving
<1>2. RowInv
  BY DEF Init, RowInv, Bare, BackupsOpen
<1>3. TabInv
  BY DEF Init, TabInv, Keyed, Backs
<1> QED
  BY <1>1, <1>2, <1>3 DEF KeysInv

-----------------------------------------------------------------------------
(* The server.                                                             *)

\* What requests do to the row, in a state of the invariant.
RowStep(t) ==
    /\ RowTypes' /\ RowInv'
    /\ Bare' => Bare
    /\ status # "none" => status' # "none"
    /\ at[t] = "enrolling" => ~Bare' \/ UNCHANGED row

LEMMA Posts ==
    ASSUME KeysInv, NEW t \in Tabs, Serve(t)
    PROVE  RowStep(t)
<1> USE DEF KeysInv, RowStep, RowTypes, RowInv, BackupsOpen, Bare
<1>1. RowTypes /\ TabTypes /\ BrowserTypes
  BY TypeParts
<1>2. CASE at[t] = "enrolling"
  <2>1. held[t] # None /\ held[t] \in Pairs
    BY <1>1, <1>2 DEF TabInv, TabTypes
  <2>2. complete_registration(held[t])
    BY <1>2 DEF Serve
  <2> QED
    BY <1>1, <2>1, <2>2, <1>2 DEF complete_registration, row
<1>3. ASSUME NEW p, store_encryption_key(Rebuilt(held[t]), p), at[t] \in Keyed
      PROVE  RowStep(t)
  <2>1. ~Accepts(Rebuilt(held[t]))
    BY <1>3 DEF Accepts, TabInv
  <2> QED
    BY <1>1, <1>3, <2>1 DEF store_encryption_key, Keyed
<1>4. CASE at[t] = "post"
  <2>1. PICK p \in {None, held[t]} : store_encryption_key(Exported(held[t]), p)
    BY <1>4 DEF Serve
  <2>2. held[t] \in OrNone(Pairs)
    BY <1>1 DEF TabTypes
  <2> QED
    BY <1>1, <1>4, <2>1, <2>2 DEF store_encryption_key, Accepts
<1> QED
  BY <1>2, <1>3, <1>4 DEF Serve, Keyed

LEMMA RowStays ==
    ASSUME KeysInv, NEW t \in Tabs, UNCHANGED row
    PROVE  RowStep(t)
  BY DEF KeysInv, TypeOK, RowStep, RowTypes, RowInv, BackupsOpen, Bare, row

-----------------------------------------------------------------------------
(* The pages.                                                              *)

\* Where a tab goes, and the key it has in hand there.
Goes(t, p, q) ==
    /\ Go(t, p, q)
    /\ p \in Rest \cup Moving /\ q \in Backs
    /\ q = "enrolDone" => p \in {"enrolUpload", "enrolDone"}
    /\ p \in Keyed => ~Bare'
    /\ p = "enrolling" => held'[t] # None
    /\ \E k \in OrNone(Pairs) : held' = [held EXCEPT ![t] = k]

LEMMA Moves ==
    ASSUME KeysInv, NEW t \in Tabs, RowStep(t), NEW p, NEW q, Goes(t, p, q)
    PROVE  TabInv' /\ TabTypes'
<1> USE DEF Go, Goes
<1>1. TabTypes
  BY TypeParts DEF KeysInv
<1>2. q \in Rest \cup Moving
  BY DEF Backs, Rest, Moving, Asking, Working
<1>3. TabTypes'
  BY <1>1, <1>2 DEF TabTypes
<1>4. ASSUME NEW u \in Tabs, u # t
      PROVE  at'[u] = at[u] /\ back'[u] = back[u] /\ held'[u] = held[u]
  BY <1>1, <1>4 DEF TabTypes
<1>5. at'[t] = p /\ back'[t] = q
  BY <1>1 DEF TabTypes
<1>6. Bare' => Bare
  BY DEF RowStep
<1>7. ASSUME NEW u \in Tabs
      PROVE  /\ at'[u] = "enrolling" => held'[u] # None
             /\ at'[u] \in Keyed => ~Bare'
             /\ back'[u] \in Backs
             /\ back'[u] = "enrolDone" => at'[u] \in {"enrolUpload", "enrolDone"}
  <2> HIDE DEF Go, Goes
  <2>1. CASE u = t
    BY <1>5, <2>1 DEF Goes
  <2>2. CASE u # t
    BY <1>4, <1>6, <2>2 DEF KeysInv, TabInv
  <2> QED
    BY <2>1, <2>2
<1>8. TabInv'
  BY <1>7 DEF TabInv
<1> QED
  BY <1>3, <1>8

\* A tab that goes on with the key it has.
LEMMA Keeps ==
    ASSUME KeysInv, NEW t \in Tabs, UNCHANGED held
    PROVE  \E k \in OrNone(Pairs) : held' = [held EXCEPT ![t] = k]
<1>1. held \in [Tabs -> OrNone(Pairs)]
  BY DEF KeysInv, TypeOK
<1>2. held' = [held EXCEPT ![t] = held[t]]
  BY <1>1
<1> QED
  BY <1>1, <1>2

LEMMA Closes ==
    ASSUME KeysInv, NEW t \in Tabs, RowStep(t), NEW p, NEW q, Goes(t, p, q),
           BrowserTypes', HistoryTypes', CountTypes'
    PROVE  KeysInv'
<1>1. TabInv' /\ TabTypes'
  BY Moves
<1> QED
  BY <1>1 DEF KeysInv, RowStep, TypeOK, RowTypes, TabTypes, BrowserTypes, HistoryTypes,
              CountTypes

\* What the tabs of a browser share, and the history, are flags of browsers.
LEMMA Flags ==
    ASSUME NEW t \in Tabs, NEW f \in [Browsers -> BOOLEAN], NEW g,
           \/ g = [f EXCEPT ![BrowserOf[t]] = TRUE]
           \/ g = [f EXCEPT ![BrowserOf[t]] = FALSE]
           \/ g = f
    PROVE  g \in [Browsers -> BOOLEAN]
  OBVIOUS

\* Only a registration that made the row goes on to store the pair.
LEMMA EnrolledGoes ==
    ASSUME NEW t \in Tabs, Enrolled(t)
    PROVE  \E p \in {"enrol", "enrolPending", "enrolStore"} :
              Go(t, p, "enrol") /\ (p # "enrol" => status = "none")
<1> DEFINE place == CASE status # "none" -> "enrol"
                      [] status = "none" /\ status' = "pending" -> "enrolPending"
                      [] OTHER -> "enrolStore"
<1>1. Go(t, place, "enrol")
  BY DEF Enrolled
<1>2. /\ place \in {"enrol", "enrolPending", "enrolStore"}
      /\ place # "enrol" => status = "none"
  OBVIOUS
<1> HIDE DEF place
<1> QED
  BY <1>1, <1>2

LEMMA EnrolKeeps ==
    ASSUME KeysInv, NEW t \in Tabs,
           Enrol(t) \/ Enrolled(t) \/ EnrolStore(t) \/ EnrolLogin(t) \/ EnrolUpload(t)
                    \/ EnrolDone(t)
    PROVE  KeysInv'
<1> USE DEF KeysInv
<1>0. RowTypes /\ TabTypes /\ BrowserTypes /\ HistoryTypes /\ CountTypes
  BY TypeParts
<1>1. CASE Enrol(t)
  <2>1. RowStep(t)
    BY <1>1, RowStays DEF Enrol
  <2>2. Goes(t, "enrolling", "enrol")
    <3>1. drawn + 1 \in Pairs /\ held' = [held EXCEPT ![t] = drawn + 1]
      BY <1>0, <1>1 DEF Enrol, CountTypes
    <3>2. held'[t] # None
      BY <1>0, <3>1 DEF TabTypes
    <3>3. Go(t, "enrolling", "enrol")
      BY <1>1 DEF Enrol
    <3> QED
      BY <3>1, <3>2, <3>3 DEF Goes, Moving, Posting, Backs, Keyed
  <2>3. BrowserTypes' /\ HistoryTypes' /\ CountTypes'
    BY <1>0, <1>1 DEF Enrol, Use, browser, history, BrowserTypes, HistoryTypes, CountTypes
  <2> QED
    BY <2>1, <2>2, <2>3, Closes
<1>2. CASE Enrolled(t)
  <2>1. RowStep(t)
    BY <1>2, Posts DEF Enrolled
  <2>2. PICK p \in {"enrol", "enrolPending", "enrolStore"} :
           Go(t, p, "enrol") /\ (p # "enrol" => status = "none")
    BY <1>2, EnrolledGoes
  <2>3. status = "none" => ~Bare'
    BY <1>2, <2>1 DEF Enrolled, RowStep, Bare, row
  <2>6. Goes(t, p, "enrol")
    BY <1>2, <2>2, <2>3, Keeps DEF Enrolled, Goes, Rest, Moving, Working, Backs, Keyed
  <2>7. BrowserTypes' /\ HistoryTypes' /\ CountTypes'
    BY <1>0, <1>2 DEF Enrolled, browser, history, BrowserTypes, HistoryTypes, CountTypes
  <2> QED
    BY <2>1, <2>6, <2>7, Closes
<1>3. CASE EnrolStore(t)
  <2>1. RowStep(t)
    BY <1>3, RowStays DEF EnrolStore
  <2>2. PICK p \in {"enrolLogin", "enrol"} : Go(t, p, "enrol")
    BY <1>3 DEF EnrolStore
  <2>3. ~Bare /\ ~Bare'
    BY <1>3, <2>1 DEF EnrolStore, TabInv, Keyed, RowStep
  <2>4. Goes(t, p, "enrol")
    BY <1>3, <2>2, <2>3, Keeps DEF EnrolStore, Goes, Rest, Moving, Asking, Backs
  <2>5. BrowserTypes' /\ HistoryTypes' /\ CountTypes'
    BY <1>0, <1>3 DEF EnrolStore, history, BrowserTypes, HistoryTypes, CountTypes, TabTypes
  <2> QED
    BY <2>1, <2>4, <2>5, Closes
<1>4. CASE EnrolLogin(t)
  <2>1. RowStep(t)
    BY <1>4, RowStays DEF EnrolLogin
  <2>2. PICK p \in {"app", "enrolUpload", "enrolDone"}, q \in {"login", "enrolDone"} :
           Go(t, p, q) /\ (q = "enrolDone" => p # "app")
    BY <1>4 DEF EnrolLogin
  <2>3. ~Bare /\ ~Bare'
    BY <1>4, <2>1 DEF EnrolLogin, TabInv, Keyed, RowStep
  <2>4. Goes(t, p, q)
    BY <1>4, <2>2, <2>3, Keeps DEF EnrolLogin, Goes, Rest, Moving, Asking, Posting, Working,
                                   Backs
  <2>5. BrowserTypes' /\ HistoryTypes' /\ CountTypes'
    BY <1>0, <1>4 DEF EnrolLogin, browser, history, BrowserTypes, HistoryTypes, CountTypes
  <2> QED
    BY <2>1, <2>4, <2>5, Closes
<1>5. CASE EnrolUpload(t)
  <2>1. RowStep(t)
    BY <1>5, Posts DEF EnrolUpload
  <2>3. ~Bare /\ ~Bare'
    BY <1>5, <2>1 DEF EnrolUpload, TabInv, Keyed, RowStep
  <2>4. Goes(t, "enrolDone", "enrolDone")
    BY <1>5, <2>3, Keeps DEF EnrolUpload, Goes, Rest, Moving, Working, Backs
  <2>5. BrowserTypes' /\ HistoryTypes' /\ CountTypes'
    BY <1>0, <1>5 DEF EnrolUpload, browser, history, BrowserTypes, HistoryTypes, CountTypes
  <2> QED
    BY <2>1, <2>4, <2>5, Closes
<1>6. CASE EnrolDone(t)
  <2>1. RowStep(t)
    BY <1>6, RowStays DEF EnrolDone
  <2>4. Goes(t, "app", "login")
    BY <1>6, Keeps DEF EnrolDone, Goes, Rest, Moving, Asking, Backs, Keyed
  <2>5. BrowserTypes' /\ HistoryTypes' /\ CountTypes'
    BY <1>0, <1>6 DEF EnrolDone, Set, history, BrowserTypes, HistoryTypes, CountTypes
  <2> QED
    BY <2>1, <2>4, <2>5, Closes
<1> QED
  BY <1>1, <1>2, <1>3, <1>4, <1>5, <1>6

LEMMA LoginKeeps ==
    ASSUME KeysInv, NEW t \in Tabs,
           CheckSession(t) \/ Login(t) \/ SignedIn(t) \/ CheckBackup(t) \/ Export(t)
                           \/ Upload(t)
    PROVE  KeysInv'
<1> USE DEF KeysInv
<1>0. RowTypes /\ TabTypes /\ BrowserTypes /\ HistoryTypes /\ CountTypes
  BY TypeParts
<1>1. CASE CheckSession(t)
  <2>1. RowStep(t)
    BY <1>1, RowStays DEF CheckSession
  <2>2. PICK p \in {"app", "ready"}, q \in {"login", "ready"} : Go(t, p, q)
    BY <1>1 DEF CheckSession
  <2>3. Goes(t, p, q)
    BY <1>1, <2>2, Keeps DEF CheckSession, Goes, Rest, Moving, Asking, Backs, Keyed
  <2>4. BrowserTypes' /\ HistoryTypes' /\ CountTypes'
    BY <1>0, <1>1 DEF CheckSession, Clear, history, BrowserTypes, HistoryTypes, CountTypes
  <2> QED
    BY <2>1, <2>3, <2>4, Closes
<1>2. CASE Login(t)
  <2>1. RowStep(t)
    BY <1>2, RowStays DEF Login
  <2>3. Goes(t, "signedIn", "app")
    BY <1>2, Keeps DEF Login, Goes, Moving, Working, Backs, Keyed
  <2>4. BrowserTypes' /\ HistoryTypes' /\ CountTypes'
    BY <1>0, <1>2 DEF Login, Use, Set, history, BrowserTypes, HistoryTypes, CountTypes
  <2> QED
    BY <2>1, <2>3, <2>4, Closes
<1>3. CASE SignedIn(t)
  <2>1. RowStep(t)
    BY <1>3, RowStays DEF SignedIn
  <2>2. PICK p \in {"ask", "check", "app"}, q \in {"app", "login"} : Go(t, p, q)
    BY <1>3 DEF SignedIn
  <2>3. Goes(t, p, q)
    BY <1>3, <2>2, Keeps DEF SignedIn, Goes, Moving, Asking, Backs, Keyed
  <2>4. BrowserTypes' /\ HistoryTypes' /\ CountTypes'
    BY <1>0, <1>3 DEF SignedIn, browser, history, BrowserTypes, HistoryTypes, CountTypes
  <2> QED
    BY <2>1, <2>3, <2>4, Closes
<1>4. CASE CheckBackup(t)
  <2>1. RowStep(t)
    BY <1>4, RowStays DEF CheckBackup
  <2>2. PICK p \in {"export", "app"}, q \in {"app", "login"} :
           Go(t, p, q) /\ (p = "export" => registered # NoText)
    BY <1>4 DEF CheckBackup, get_encryption_key
  <2>3. p = "export" => ~Bare'
    BY <2>1, <2>2 DEF RowStep, Bare
  <2>4. Goes(t, p, q)
    BY <1>4, <2>2, <2>3, Keeps DEF CheckBackup, Goes, Moving, Asking, Working, Backs, Keyed
  <2>5. BrowserTypes' /\ HistoryTypes' /\ CountTypes'
    BY <1>0, <1>4 DEF CheckBackup, Set, history, BrowserTypes, HistoryTypes, CountTypes
  <2> QED
    BY <2>1, <2>4, <2>5, Closes
<1>5. CASE Export(t)
  <2>1. RowStep(t)
    BY <1>5, RowStays DEF Export
  <2>2. stored[BrowserOf[t]] \in OrNone(Pairs)
    BY <1>0 DEF BrowserTypes
  <2>3. ~Bare /\ ~Bare'
    BY <1>5, <2>1 DEF Export, TabInv, Keyed, RowStep
  <2>4. Goes(t, "upload", "app")
    BY <1>5, <2>2, <2>3 DEF Export, Goes, Moving, Posting, Backs
  <2>5. BrowserTypes' /\ HistoryTypes' /\ CountTypes'
    BY <1>0, <1>5 DEF Export, browser, history, BrowserTypes, HistoryTypes, CountTypes
  <2> QED
    BY <2>1, <2>4, <2>5, Closes
<1>6. CASE Upload(t)
  <2>1. RowStep(t)
    BY <1>6, Posts DEF Upload
  <2>4. Goes(t, "app", "login")
    BY <1>6, Keeps DEF Upload, Goes, Moving, Asking, Backs, Keyed
  <2>5. BrowserTypes' /\ HistoryTypes' /\ CountTypes'
    BY <1>0, <1>6 DEF Upload, Set, history, BrowserTypes, HistoryTypes, CountTypes
  <2> QED
    BY <2>1, <2>4, <2>5, Closes
<1> QED
  BY <1>1, <1>2, <1>3, <1>4, <1>5, <1>6

LEMMA RecoveryKeeps ==
    ASSUME KeysInv, NEW t \in Tabs,
           AskServer(t) \/ Recover(t) \/ StoreRecovered(t) \/ Report(t) \/ Skip(t)
                        \/ StoreFresh(t) \/ PostFresh(t)
    PROVE  KeysInv'
<1> USE DEF KeysInv
<1>0. RowTypes /\ TabTypes /\ BrowserTypes /\ HistoryTypes /\ CountTypes
  BY TypeParts
<1>1. CASE AskServer(t)
  <2>1. RowStep(t)
    BY <1>1, RowStays DEF AskServer
  <2>2. PICK p \in {"unwrapped", "form", "fresh"}, q \in {"form", "fresh", "app"} :
           Go(t, p, q) /\ (p = "unwrapped" => registered # NoText)
    BY <1>1 DEF AskServer, get_encryption_key
  <2>3. \E k \in OrNone(Pairs) : held' = [held EXCEPT ![t] = k]
    BY <1>0, <1>1 DEF AskServer, RowTypes
  <2>4. p = "unwrapped" => ~Bare'
    BY <2>1, <2>2 DEF RowStep, Bare
  <2>5. Goes(t, p, q)
    BY <2>2, <2>3, <2>4 DEF Goes, Rest, Moving, Working, Backs, Keyed
  <2>6. BrowserTypes' /\ HistoryTypes' /\ CountTypes'
    <3>1. excused' \in [Browsers -> BOOLEAN]
      BY <1>0, <1>1 DEF AskServer, Set, HistoryTypes
    <3> QED
      BY <1>0, <1>1, <3>1 DEF AskServer, browser, BrowserTypes, HistoryTypes, CountTypes
  <2> QED
    BY <2>1, <2>5, <2>6, Closes
<1>2. CASE Recover(t)
  <2>1. RowStep(t)
    BY <1>2, RowStays DEF Recover
  <2>2. PICK q \in {"form", "recovery"} : Go(t, "unwrapped", q)
    BY <1>2 DEF Recover
  <2>3. ~Bare'
    BY <1>2, <2>1 DEF Recover, get_encryption_key, RowStep, Bare
  <2>4. Goes(t, "unwrapped", q)
    BY <1>0, <1>2, <2>2, <2>3 DEF Recover, RowTypes, Goes, Moving, Working, Backs
  <2>5. BrowserTypes' /\ HistoryTypes' /\ CountTypes'
    BY <1>0, <1>2 DEF Recover, Use, browser, history, BrowserTypes, HistoryTypes, CountTypes
  <2> QED
    BY <2>1, <2>4, <2>5, Closes
<1>3. CASE StoreRecovered(t)
  <2>1. RowStep(t)
    BY <1>3, RowStays DEF StoreRecovered
  <2>2. ~Bare /\ ~Bare'
    BY <1>3, <2>1 DEF StoreRecovered, TabInv, Keyed, RowStep
  <2>3. back[t] \in Backs /\ back[t] # "enrolDone"
    BY <1>3 DEF StoreRecovered, TabInv
  <2>4. Goes(t, "report", back[t])
    BY <1>3, <2>2, <2>3, Keeps DEF StoreRecovered, Goes, Moving, Posting
  <2>5. BrowserTypes' /\ HistoryTypes' /\ CountTypes'
    BY <1>0, <1>3 DEF StoreRecovered, history, BrowserTypes, HistoryTypes, CountTypes, TabTypes
  <2> QED
    BY <2>1, <2>4, <2>5, Closes
<1>4. CASE Report(t)
  <2>1. RowStep(t)
    BY <1>4, Posts DEF Report
  <2>4. Goes(t, "app", "login")
    BY <1>4, Keeps DEF Report, Goes, Moving, Asking, Backs, Keyed
  <2>5. BrowserTypes' /\ HistoryTypes' /\ CountTypes'
    BY <1>0, <1>4 DEF Report, browser, history, BrowserTypes, HistoryTypes, CountTypes
  <2> QED
    BY <2>1, <2>4, <2>5, Closes
<1>5. CASE Skip(t)
  <2>1. RowStep(t)
    BY <1>5, RowStays DEF Skip
  <2>2. PICK q \in {"form", "recovery"} : Go(t, "fresh", q)
    BY <1>5 DEF Skip
  <2>4. Goes(t, "fresh", q)
    BY <1>5, <2>2, Keeps DEF Skip, Goes, Moving, Working, Backs, Keyed
  <2>5. BrowserTypes' /\ HistoryTypes' /\ CountTypes'
    BY <1>0, <1>5 DEF Skip, Use, Set, browser, BrowserTypes, HistoryTypes, CountTypes
  <2> QED
    BY <2>1, <2>4, <2>5, Closes
<1>6. CASE StoreFresh(t)
  <2>1. RowStep(t)
    BY <1>6, RowStays DEF StoreFresh
  <2>2. back[t] \in Backs /\ back[t] # "enrolDone"
    BY <1>6 DEF StoreFresh, TabInv
  <2>3. drawn + 1 \in Pairs /\ held' = [held EXCEPT ![t] = drawn + 1]
    BY <1>0, <1>6 DEF StoreFresh, CountTypes
  <2>4. Goes(t, "post", back[t])
    BY <1>6, <2>2, <2>3 DEF StoreFresh, Goes, Moving, Posting, Keyed
  <2>5. BrowserTypes' /\ HistoryTypes' /\ CountTypes'
    BY <1>0, <1>6, <2>3 DEF StoreFresh, history, BrowserTypes, HistoryTypes, CountTypes
  <2> QED
    BY <2>1, <2>4, <2>5, Closes
<1>7. CASE PostFresh(t)
  <2>1. RowStep(t)
    BY <1>7, Posts DEF PostFresh
  <2>4. Goes(t, "app", "login")
    BY <1>7, Keeps DEF PostFresh, Goes, Moving, Asking, Backs, Keyed
  <2>5. BrowserTypes' /\ HistoryTypes' /\ CountTypes'
    BY <1>0, <1>7 DEF PostFresh, Warned, Set, history, BrowserTypes, HistoryTypes, CountTypes
  <2> QED
    BY <2>1, <2>4, <2>5, Closes
<1> QED
  BY <1>1, <1>2, <1>3, <1>4, <1>5, <1>6, <1>7

\* initializeChatView with the warning.
LEMMA Enters ==
    ASSUME KeysInv, NEW t \in Tabs, EnterChat(t)
    PROVE  /\ Go(t, "chat", "chat")
           /\ told' \in [Browsers -> BOOLEAN] /\ warning' \in [Browsers -> BOOLEAN]
  BY DEF KeysInv, TypeOK, EnterChat, Set, Clear

LEMMA AppKeeps ==
    ASSUME KeysInv, NEW t \in Tabs,
           \/ OpenApp(t) \/ LoadKey(t) \/ AskBackup(t) \/ logout(t) \/ RequestFails(t)
           \/ \E page \in {"closed", "enrol", "login", "recovery", "app"} : Open(t, page)
    PROVE  KeysInv'
<1> USE DEF KeysInv
<1>0. RowTypes /\ TabTypes /\ BrowserTypes /\ HistoryTypes /\ CountTypes
  BY TypeParts
<1>1. CASE OpenApp(t)
  <2>1. RowStep(t)
    BY <1>1, RowStays DEF OpenApp
  <2>2. PICK p \in {"loadKey", "login"}, q \in {"login", "ready"} : Go(t, p, q)
    BY <1>1 DEF OpenApp
  <2>3. Goes(t, p, q)
    BY <1>1, <2>2, Keeps DEF OpenApp, Goes, Rest, Moving, Asking, Working, Backs, Keyed
  <2>4. BrowserTypes' /\ HistoryTypes' /\ CountTypes'
    BY <1>0, <1>1 DEF OpenApp, Clear, history, BrowserTypes, HistoryTypes, CountTypes
  <2> QED
    BY <2>1, <2>3, <2>4, Closes
<1>2. CASE LoadKey(t)
  <2>1. RowStep(t)
    BY <1>2, RowStays DEF LoadKey
  <2>2. PICK p \in {"chat", "askBackup"} :
           /\ Go(t, p, "chat")
           /\ told' \in [Browsers -> BOOLEAN] /\ warning' \in [Browsers -> BOOLEAN]
    BY <1>0, <1>2, Enters DEF LoadKey, BrowserTypes, HistoryTypes
  <2>3. stored[BrowserOf[t]] \in OrNone(Pairs)
    BY <1>0 DEF BrowserTypes
  <2>4. Goes(t, p, "chat")
    BY <1>2, <2>2, <2>3 DEF LoadKey, Goes, Rest, Moving, Asking, Backs, Keyed
  <2>5. BrowserTypes' /\ HistoryTypes' /\ CountTypes'
    BY <1>0, <1>2, <2>2 DEF LoadKey, BrowserTypes, HistoryTypes, CountTypes
  <2> QED
    BY <2>1, <2>4, <2>5, Closes
<1>3. CASE AskBackup(t)
  <2>1. RowStep(t)
    BY <1>3, RowStays DEF AskBackup
  <2>2. PICK p \in {"chat", "login"}, q \in {"chat", "ready"} : Go(t, p, q)
    BY <1>3, Enters DEF AskBackup, Redirect
  <2>3. Goes(t, p, q)
    BY <1>3, <2>2, Keeps DEF AskBackup, Goes, Rest, Moving, Asking, Backs, Keyed
  <2>4. /\ session' \in [Browsers -> BOOLEAN] /\ excused' \in [Browsers -> BOOLEAN]
        /\ told' \in [Browsers -> BOOLEAN] /\ warning' \in [Browsers -> BOOLEAN]
    BY <1>0, <1>3, Enters DEF AskBackup, Redirect, Set, Clear, BrowserTypes, HistoryTypes
  <2>5. BrowserTypes' /\ HistoryTypes' /\ CountTypes'
    BY <1>0, <1>3, <2>4 DEF AskBackup, BrowserTypes, HistoryTypes, CountTypes
  <2> QED
    BY <2>1, <2>3, <2>5, Closes
<1>4. CASE logout(t)
  <2>1. RowStep(t)
    BY <1>4, RowStays DEF logout
  <2>3. Goes(t, "login", "ready")
    BY <1>4, Keeps DEF logout, Goes, Rest, Moving, Asking, Backs, Keyed
  <2>4. BrowserTypes' /\ HistoryTypes' /\ CountTypes'
    BY <1>0, <1>4 DEF logout, Use, Clear, history, BrowserTypes, HistoryTypes, CountTypes
  <2> QED
    BY <2>1, <2>3, <2>4, Closes
<1>5. CASE RequestFails(t)
  <2>1. RowStep(t)
    BY <1>5, Posts, RowStays DEF RequestFails
  <2>2. back[t] \in Backs /\ (back[t] = "enrolDone" => ~Bare')
    BY <1>5, <2>1 DEF RequestFails, TabInv, Asking, Posting, Keyed, RowStep
  <2>3. PICK q \in {"chat", "login", "app"} : Go(t, back[t], q)
    BY <1>5, Enters DEF RequestFails
  <2>4. Goes(t, back[t], q)
    BY <1>5, <2>2, <2>3, Keeps DEF RequestFails, Goes, Rest, Moving, Asking, Working, Backs,
                                   Keyed
  <2>5. /\ told' \in [Browsers -> BOOLEAN] /\ warning' \in [Browsers -> BOOLEAN]
        /\ excused' \in [Browsers -> BOOLEAN] /\ quiet' \in [Browsers -> BOOLEAN]
    BY <1>0, <1>5, Enters DEF RequestFails, Set, BrowserTypes, HistoryTypes
  <2>6. BrowserTypes' /\ HistoryTypes' /\ CountTypes'
    BY <1>0, <1>5, <2>5 DEF RequestFails, BrowserTypes, HistoryTypes, CountTypes
  <2> QED
    BY <2>1, <2>4, <2>6, Closes
<1>6. ASSUME NEW page \in {"closed", "enrol", "login", "recovery", "app"}, Open(t, page)
      PROVE  KeysInv'
  <2>1. RowStep(t)
    BY <1>6, Posts, RowStays DEF Open
  <2>2. PICK p \in {"closed", "enrol", "login", "recovery", "app"}, q \in {"login", "ready"} :
           Go(t, p, q)
    BY <1>6 DEF Open
  <2>5. \E k \in OrNone(Pairs) : held' = [held EXCEPT ![t] = k]
    BY <1>6 DEF Open
  <2>3. Goes(t, p, q)
    BY <2>2, <2>5 DEF Goes, Rest, Moving, Asking, Backs, Keyed
  <2>6. quiet' \in [Browsers -> BOOLEAN]
    BY <1>0, <1>6 DEF Open, Set, HistoryTypes
  <2>7. Use /\ UNCHANGED <<browser, told, excused, drawn, fails>>
    BY <1>6 DEF Open
  <2>4. BrowserTypes' /\ HistoryTypes' /\ CountTypes'
    BY <1>0, <2>6, <2>7 DEF Use, browser, BrowserTypes, HistoryTypes, CountTypes
  <2> QED
    BY <2>1, <2>3, <2>4, Closes
<1> QED
  BY <1>1, <1>2, <1>3, <1>4, <1>5, <1>6

\* What is done to the row, or to a browser, without a page.
LEMMA OthersKeep ==
    ASSUME KeysInv,
           \/ \E b \in Browsers, all \in BOOLEAN : Forget(b, all)
           \/ Approve \/ Remove
    PROVE  KeysInv'
<1> USE DEF KeysInv
<1>1. ASSUME NEW b \in Browsers, NEW all \in BOOLEAN, Forget(b, all)
      PROVE  KeysInv'
  <2>1. TypeOK'
    BY <1>1 DEF Forget, Use, row, tab, TypeOK
  <2>2. RowInv' /\ TabInv'
    BY <1>1 DEF Forget, row, tab, RowInv, TabInv, BackupsOpen, Bare
  <2> QED
    BY <2>1, <2>2
<1>2. CASE Approve
  <2>1. TypeOK'
    BY <1>2 DEF Approve, Use, browser, tab, history, TypeOK
  <2>2. ~Bare'
    BY <1>2 DEF Approve, Bare, RowInv
  <2>3. RowInv'
    BY <1>2, <2>2 DEF Approve, RowInv, BackupsOpen
  <2>4. TabInv'
    BY <1>2, <2>2 DEF Approve, tab, TabInv
  <2> QED
    BY <2>1, <2>3, <2>4
<1>3. CASE Remove
  <2>1. TypeOK'
    BY <1>3 DEF Remove, Use, browser, tab, TypeOK
  <2>2. ~Bare' /\ RowInv'
    BY <1>3 DEF Remove, Bare, RowInv, BackupsOpen
  <2>4. TabInv'
    BY <1>3, <2>2 DEF Remove, tab, TabInv
  <2> QED
    BY <2>1, <2>2, <2>4
<1> QED
  BY <1>1, <1>2, <1>3

LEMMA KeysStep ==
    ASSUME KeysInv, [Next]_vars
    PROVE  KeysInv'
<1>1. CASE UNCHANGED vars
  BY <1>1 DEF vars, row, browser, tab, history, KeysInv, TypeOK, RowInv, TabInv, BackupsOpen,
              Bare
<1>2. CASE Next
  BY <1>2, EnrolKeeps, LoginKeeps, RecoveryKeeps, AppKeeps, OthersKeep DEF Next, Script
<1> QED
  BY <1>1, <1>2

-----------------------------------------------------------------------------
LEMMA KeysInvariant == Spec => []KeysInv
  BY InitKeys, KeysStep, PTL DEF Spec

\* The state of the row, the browsers and their tabs keeps its types.
THEOREM KeyPairsTypes == Spec => []TypeOK
<1>1. KeysInv => TypeOK
  BY DEF KeysInv
<1> QED
  BY <1>1, KeysInvariant, PTL

\* A backup on the server unwraps to the registered pair: for any browsers, tabs and
\* authenticators, any number of failing requests, and accounts that are removed and
\* made again while pages of the old one are still open.
THEOREM BackupsStayOpen == Spec => []BackupsOpen
<1>1. KeysInv => BackupsOpen
  BY DEF KeysInv, RowInv
<1> QED
  BY <1>1, KeysInvariant, PTL

-----------------------------------------------------------------------------
(* The pairs of the browsers.                                              *)

\* The pair that is registered, or none.
Owned(k) == k \in {None, registered.pair}

\* The browser has shown the warning, will, or would have.
Warns(b) ==
    \/ told[b] \/ warning[b] \/ quiet[b]
    \/ \E u \in Tabs : BrowserOf[u] = b /\ at[u] = "post"

Known(b, k) == Owned(k) \/ (excused[b] /\ Warns(b))

\* Where a page has a pair in hand that it will store, or chats with.
Holding == {"enrolStore", "enrolPending", "unwrapped", "report", "askBackup", "chat"}

(* Every pair that a browser has, or that a page is about to give it, is   *)
(* registered, or it is known why not.                                     *)
PairInv ==
    /\ \A b \in Browsers : Known(b, stored[b])
    /\ \A t \in Tabs :
          /\ at[t] \in Holding => Known(BrowserOf[t], held[t])
          /\ at[t] \in {"fresh", "post"} => excused[BrowserOf[t]]
          /\ at[t] = "chat" /\ held[t] = None => excused[BrowserOf[t]]
          /\ back[t] = "chat" => at[t] \in {"askBackup", "chat"}

LEMMA InitPairs == Init => PairInv
  BY DEF Init, PairInv, Known, Owned, Holding

\* A step after which what was known still is.
Recalls(t) ==
    /\ \A k : Owned(k) => k \in {None, registered'.pair}
    /\ \A b \in Browsers :
          /\ told[b] => told'[b]
          /\ quiet[b] => quiet'[b]
          /\ excused[b] => excused'[b]
          /\ warning[b] => warning'[b] \/ told'[b]
    /\ at[t] = "post" => warning'[BrowserOf[t]] \/ quiet'[BrowserOf[t]]

\* What a tab's step must show of the pair in its hands and of that in its browser.
Accounts(t, p, q) ==
    /\ \A k \in OrNone(Pairs), b \in Browsers :
          stored'[b] = k /\ stored[b] # k => Known(b, k)'
    /\ \A k \in OrNone(Pairs) : p \in Holding /\ held'[t] = k => Known(BrowserOf[t], k)'
    /\ p \in {"fresh", "post"} => excused'[BrowserOf[t]]
    /\ p = "chat" /\ held'[t] = None => excused'[BrowserOf[t]]
    /\ q = "chat" => p \in {"askBackup", "chat"}

LEMMA Recall ==
    ASSUME KeysInv, NEW t \in Tabs, NEW p, NEW q, Go(t, p, q), Recalls(t),
           NEW b \in Browsers, NEW k, Known(b, k)
    PROVE  Known(b, k)'
<1>1. at \in [Tabs -> Rest \cup Moving]
  BY DEF KeysInv, TypeOK
<1>2. Owned(k) => Owned(k)'
  BY DEF Recalls, Owned
<1>3. Warns(b) => Warns(b)'
  <2>1. CASE told[b] \/ warning[b] \/ quiet[b]
    BY <2>1 DEF Recalls, Warns
  <2>2. ASSUME NEW u \in Tabs, BrowserOf[u] = b, at[u] = "post"
        PROVE  Warns(b)'
    <3>1. CASE u = t
      BY <2>2, <3>1 DEF Recalls, Warns
    <3>2. CASE u # t
      BY <1>1, <2>2, <3>2 DEF Go, Warns
    <3> QED
      BY <3>1, <3>2
  <2> QED
    BY <2>1, <2>2 DEF Warns
<1> QED
  BY <1>2, <1>3 DEF Known, Recalls

LEMMA PairMoves ==
    ASSUME KeysInv, KeysInv', PairInv, NEW t \in Tabs, NEW p, NEW q, Go(t, p, q),
           Recalls(t), Accounts(t, p, q), \A u \in Tabs : u # t => held'[u] = held[u]
    PROVE  PairInv'
<1>1. /\ at \in [Tabs -> Rest \cup Moving] /\ back \in [Tabs -> Rest \cup Moving]
      /\ held \in [Tabs -> OrNone(Pairs)] /\ stored \in [Browsers -> OrNone(Pairs)]
  BY DEF KeysInv, TypeOK
<1>2. held' \in [Tabs -> OrNone(Pairs)] /\ stored' \in [Browsers -> OrNone(Pairs)]
  BY DEF KeysInv, TypeOK
<1>3. \A b \in Browsers : \A k : Known(b, k) => Known(b, k)'
  BY Recall
<1>4. ASSUME NEW b \in Browsers PROVE Known(b, stored[b])'
  <2>1. PICK k \in OrNone(Pairs) : stored'[b] = k
    BY <1>2
  <2>2. Known(b, k)'
    BY <1>3, <2>1 DEF Accounts, PairInv
  <2> QED
    BY <2>1, <2>2 DEF Known, Owned, Warns
<1>5. ASSUME NEW u \in Tabs
      PROVE  /\ at'[u] \in Holding => Known(BrowserOf[u], held[u])'
             /\ at'[u] \in {"fresh", "post"} => excused'[BrowserOf[u]]
             /\ at'[u] = "chat" /\ held'[u] = None => excused'[BrowserOf[u]]
             /\ back'[u] = "chat" => at'[u] \in {"askBackup", "chat"}
  <2>1. PICK k \in OrNone(Pairs) : held'[u] = k
    BY <1>2
  <2>2. Known(BrowserOf[u], held[u])' <=> Known(BrowserOf[u], k)'
    BY <2>1 DEF Known, Owned, Warns
  <2>3. CASE u = t
    <3>1. at'[t] = p /\ back'[t] = q
      BY <1>1 DEF Go
    <3> QED
      BY <2>1, <2>2, <2>3, <3>1 DEF Accounts
  <2>4. CASE u # t
    <3>1. at'[u] = at[u] /\ back'[u] = back[u] /\ held[u] = k
      BY <1>1, <2>1, <2>4 DEF Go
    <3> QED
      BY <1>3, <2>1, <2>2, <3>1 DEF PairInv, Recalls
  <2> QED
    BY <2>3, <2>4
<1> QED
  BY <1>4, <1>5 DEF PairInv

\* No request takes the registered pair from the row.
LEMMA Owners ==
    ASSUME KeysInv, NEW t \in Tabs, Serve(t) \/ UNCHANGED row
    PROVE  \A k : Owned(k) => k \in {None, registered'.pair}
<1> USE DEF Owned
<1>1. CASE UNCHANGED row
  BY <1>1 DEF row
<1>2. ASSUME NEW text \in [pair : OrNone(Pairs), sorted : BOOLEAN], NEW k,
             store_encryption_key(text, k)
      PROVE  registered.pair \in {None, registered'.pair}
  BY <1>2 DEF store_encryption_key, Accepts
<1>3. ASSUME NEW k, complete_registration(k)
      PROVE  registered.pair \in {None, registered'.pair}
  BY <1>3 DEF complete_registration, KeysInv, RowInv
<1>4. held[t] \in OrNone(Pairs)
  BY DEF KeysInv, TypeOK
<1>5. CASE Serve(t)
  <2>1. /\ Rebuilt(held[t]) \in [pair : OrNone(Pairs), sorted : BOOLEAN]
        /\ Exported(held[t]) \in [pair : OrNone(Pairs), sorted : BOOLEAN]
    BY <1>4
  <2> QED
    BY <1>2, <1>3, <1>5, <2>1 DEF Serve
<1> QED
  BY <1>1, <1>5

LEMMA Calm ==
    ASSUME KeysInv, NEW t \in Tabs, Serve(t) \/ UNCHANGED row, at[t] # "post",
           UNCHANGED <<told, quiet, warning>>, excused' = excused \/ Set(excused, t)
    PROVE  Recalls(t)
<1>1. excused \in [Browsers -> BOOLEAN] /\ BrowserOf[t] \in Browsers
  BY DEF KeysInv, TypeOK
<1>2. \A b \in Browsers : excused[b] => excused'[b]
  BY <1>1 DEF Set
<1> QED
  BY <1>2, Owners DEF Recalls

LEMMA Entering ==
    ASSUME KeysInv, NEW t \in Tabs, EnterChat(t), NEW b \in Browsers
    PROVE  (told[b] => told'[b]) /\ (warning[b] => warning'[b] \/ told'[b])
<1>1. told \in [Browsers -> BOOLEAN] /\ BrowserOf[t] \in Browsers
  BY DEF KeysInv, TypeOK
<1> QED
  BY <1>1 DEF EnterChat, Set, Clear, KeysInv, TypeOK

\* A step of a page that does not touch a pair.
LEMMA Plain ==
    ASSUME KeysInv, KeysInv', PairInv, NEW t \in Tabs, NEW p, NEW q, Go(t, p, q), Recalls(t),
           p \notin Holding \cup {"fresh", "post"}, q # "chat", UNCHANGED <<stored, held>>
    PROVE  PairInv'
<1>1. Accounts(t, p, q)
  BY DEF Accounts, Holding
<1> QED
  BY <1>1, PairMoves

LEMMA PairsOfPlain ==
    ASSUME KeysInv, KeysInv', PairInv, NEW t \in Tabs,
           \/ EnrolLogin(t) \/ EnrolUpload(t) \/ EnrolDone(t) \/ CheckSession(t) \/ Login(t)
           \/ SignedIn(t) \/ CheckBackup(t) \/ Upload(t) \/ Report(t) \/ OpenApp(t)
           \/ logout(t)
    PROVE  PairInv'
<1> USE DEF history, browser, row, Holding
<1>1. CASE EnrolLogin(t)
  <2>1. PICK p \in {"app", "enrolUpload", "enrolDone"}, q \in {"login", "enrolDone"} :
           Go(t, p, q)
    BY <1>1 DEF EnrolLogin
  <2> QED
    BY <1>1, <2>1, Calm, Plain DEF EnrolLogin
<1>2. CASE EnrolUpload(t)
  BY <1>2, Calm, Plain DEF EnrolUpload
<1>3. CASE EnrolDone(t)
  BY <1>3, Calm, Plain DEF EnrolDone
<1>4. CASE CheckSession(t)
  <2>1. PICK p \in {"app", "ready"}, q \in {"login", "ready"} : Go(t, p, q)
    BY <1>4 DEF CheckSession
  <2> QED
    BY <1>4, <2>1, Calm, Plain DEF CheckSession
<1>5. CASE Login(t)
  BY <1>5, Calm, Plain DEF Login
<1>6. CASE SignedIn(t)
  <2>1. PICK p \in {"ask", "check", "app"}, q \in {"app", "login"} : Go(t, p, q)
    BY <1>6 DEF SignedIn
  <2> QED
    BY <1>6, <2>1, Calm, Plain DEF SignedIn
<1>7. CASE CheckBackup(t)
  <2>1. PICK p \in {"export", "app"}, q \in {"app", "login"} : Go(t, p, q)
    BY <1>7 DEF CheckBackup
  <2> QED
    BY <1>7, <2>1, Calm, Plain DEF CheckBackup
<1>8. CASE Upload(t)
  BY <1>8, Calm, Plain DEF Upload
<1>9. CASE Report(t)
  BY <1>9, Calm, Plain DEF Report
<1>10. CASE OpenApp(t)
  <2>1. PICK p \in {"loadKey", "login"}, q \in {"login", "ready"} : Go(t, p, q)
    BY <1>10 DEF OpenApp
  <2> QED
    BY <1>10, <2>1, Calm, Plain DEF OpenApp
<1>11. CASE logout(t)
  BY <1>11, Calm, Plain DEF logout
<1> QED
  BY <1>1, <1>2, <1>3, <1>4, <1>5, <1>6, <1>7, <1>8, <1>9, <1>10, <1>11

\* The pair in a tab's hands, where only this tab's changes.
LEMMA Hands ==
    ASSUME KeysInv, NEW t \in Tabs, NEW k, held' = [held EXCEPT ![t] = k]
    PROVE  held'[t] = k /\ \A u \in Tabs : u # t => held'[u] = held[u]
  BY DEF KeysInv, TypeOK

LEMMA PairsOfEnrolment ==
    ASSUME KeysInv, KeysInv', PairInv, NEW t \in Tabs, Enrol(t) \/ Enrolled(t) \/ EnrolStore(t)
    PROVE  PairInv'
<1> USE DEF history, browser, row, Holding
<1>1. CASE Enrol(t)
  <2>1. Recalls(t) /\ Go(t, "enrolling", "enrol")
    BY <1>1, Calm DEF Enrol
  <2>2. Accounts(t, "enrolling", "enrol")
    BY <1>1 DEF Enrol, Accounts
  <2>3. \A u \in Tabs : u # t => held'[u] = held[u]
    BY <1>1, Hands DEF Enrol
  <2> QED
    BY <2>1, <2>2, <2>3, PairMoves
<1>2. CASE Enrolled(t)
  <2>1. PICK p \in {"enrol", "enrolPending", "enrolStore"} :
           Go(t, p, "enrol") /\ (p # "enrol" => status = "none")
    BY <1>2, EnrolledGoes
  <2>2. Recalls(t)
    BY <1>2, Calm DEF Enrolled
  <2>3. status = "none" => registered' = Exported(held[t])
    BY <1>2 DEF Enrolled, Serve, complete_registration
  <2>4. Accounts(t, p, "enrol")
    BY <1>2, <2>1, <2>3 DEF Enrolled, Accounts, Known, Owned
  <2> QED
    BY <1>2, <2>1, <2>2, <2>4, PairMoves DEF Enrolled
<1>3. CASE EnrolStore(t)
  <2>1. PICK p \in {"enrolLogin", "enrol"} : Go(t, p, "enrol")
    BY <1>3 DEF EnrolStore
  <2>2. Recalls(t)
    BY <1>3, Calm DEF EnrolStore
  <2>3. Known(BrowserOf[t], held[t])'
    <3>1. Known(BrowserOf[t], held[t])
      BY <1>3 DEF EnrolStore, PairInv
    <3>2. \A k : Known(BrowserOf[t], k) => Known(BrowserOf[t], k)'
      BY <2>1, <2>2, Recall
    <3> QED
      BY <1>3, <3>1, <3>2 DEF EnrolStore, Known, Owned, Warns
  <2>4. /\ stored \in [Browsers -> OrNone(Pairs)]
        /\ stored' = [stored EXCEPT ![BrowserOf[t]] = held'[t]]
    BY <1>3 DEF EnrolStore, KeysInv, TypeOK
  <2>5. Accounts(t, p, "enrol")
    BY <2>1, <2>3, <2>4 DEF Accounts, Known, Owned, Warns
  <2> QED
    BY <1>3, <2>1, <2>2, <2>5, PairMoves DEF EnrolStore
<1> QED
  BY <1>1, <1>2, <1>3

LEMMA PairsOfRecovery ==
    ASSUME KeysInv, KeysInv', PairInv, NEW t \in Tabs,
           Export(t) \/ AskServer(t) \/ Recover(t) \/ StoreRecovered(t) \/ Skip(t)
                     \/ StoreFresh(t) \/ PostFresh(t)
    PROVE  PairInv'
<1> USE DEF history, browser, row, Holding
<1>1. CASE Export(t)
  <2>1. Recalls(t) /\ Go(t, "upload", "app")
    BY <1>1, Calm DEF Export
  <2>2. Accounts(t, "upload", "app")
    BY <1>1 DEF Export, Accounts
  <2> QED
    BY <1>1, <2>1, <2>2, Hands, PairMoves DEF Export
<1>2. CASE AskServer(t)
  <2>1. PICK p \in {"unwrapped", "form", "fresh"}, q \in {"form", "fresh", "app"} :
           /\ Go(t, p, q)
           /\ p = "unwrapped" => held' = [held EXCEPT ![t] = prfBackup]
           /\ p = "fresh" => Set(excused, t)
    BY <1>2 DEF AskServer, OffersForm
  <2>2. excused' = excused \/ Set(excused, t)
    BY <1>2 DEF AskServer
  <2>3. Recalls(t)
    BY <1>2, <2>2, Calm DEF AskServer
  <2>4. p = "unwrapped" => \A k : held'[t] = k => Known(BrowserOf[t], k)'
    BY <1>2, <2>1, Hands DEF AskServer, KeysInv, RowInv, BackupsOpen, Known, Owned
  <2>5. p = "fresh" => excused'[BrowserOf[t]]
    BY <2>1 DEF Set, KeysInv, TypeOK
  <2>6. Accounts(t, p, q)
    BY <1>2, <2>1, <2>4, <2>5 DEF AskServer, Accounts
  <2>7. \A u \in Tabs : u # t => held'[u] = held[u]
    BY <1>2, Hands DEF AskServer
  <2> QED
    BY <2>1, <2>3, <2>6, <2>7, PairMoves
<1>3. CASE Recover(t)
  <2>1. PICK q \in {"form", "recovery"} : Go(t, "unwrapped", q)
    BY <1>3 DEF Recover
  <2>2. Recalls(t)
    BY <1>3, Calm DEF Recover
  <2>3. \A k : held'[t] = k => Known(BrowserOf[t], k)'
    BY <1>3, Hands DEF Recover, KeysInv, RowInv, BackupsOpen, Known, Owned
  <2>4. Accounts(t, "unwrapped", q)
    BY <1>3, <2>1, <2>3 DEF Recover, Accounts
  <2> QED
    BY <1>3, <2>1, <2>2, <2>4, Hands, PairMoves DEF Recover
<1>4. CASE StoreRecovered(t)
  <2>1. Go(t, "report", back[t]) /\ back[t] # "chat"
    BY <1>4 DEF StoreRecovered, PairInv
  <2>2. Recalls(t)
    BY <1>4, Calm DEF StoreRecovered
  <2>3. Known(BrowserOf[t], held[t])'
    <3>1. Known(BrowserOf[t], held[t])
      BY <1>4 DEF StoreRecovered, PairInv
    <3>2. \A k : Known(BrowserOf[t], k) => Known(BrowserOf[t], k)'
      BY <2>1, <2>2, Recall
    <3> QED
      BY <1>4, <3>1, <3>2 DEF StoreRecovered, Known, Owned, Warns
  <2>4. /\ stored \in [Browsers -> OrNone(Pairs)]
        /\ stored' = [stored EXCEPT ![BrowserOf[t]] = held'[t]]
    BY <1>4 DEF StoreRecovered, KeysInv, TypeOK
  <2>5. Accounts(t, "report", back[t])
    BY <2>1, <2>3, <2>4 DEF Accounts, Known, Owned, Warns
  <2> QED
    BY <1>4, <2>1, <2>2, <2>5, PairMoves DEF StoreRecovered
<1>5. CASE Skip(t)
  <2>1. PICK q \in {"form", "recovery"} : Go(t, "fresh", q)
    BY <1>5 DEF Skip
  <2>2. Recalls(t)
    BY <1>5, Calm DEF Skip
  <2>3. excused'[BrowserOf[t]]
    BY <1>5 DEF Skip, Set, KeysInv, TypeOK
  <2>4. Accounts(t, "fresh", q)
    BY <1>5, <2>1, <2>3 DEF Skip, Accounts
  <2> QED
    BY <1>5, <2>1, <2>2, <2>4, PairMoves DEF Skip
<1>6. CASE StoreFresh(t)
  <2>1. Go(t, "post", back[t]) /\ back[t] # "chat"
    BY <1>6 DEF StoreFresh, PairInv
  <2>2. Recalls(t)
    BY <1>6, Calm DEF StoreFresh
  <2>3. excused'[BrowserOf[t]]
    BY <1>6 DEF StoreFresh, PairInv
  <2>4. at'[t] = "post"
    BY <2>1 DEF Go, KeysInv, TypeOK
  <2>5. \A k : Known(BrowserOf[t], k)'
    BY <2>3, <2>4 DEF Known, Warns
  <2>6. \A b \in Browsers : b # BrowserOf[t] => stored'[b] = stored[b]
    BY <1>6 DEF StoreFresh, KeysInv, TypeOK
  <2>7. Accounts(t, "post", back[t])
    BY <2>1, <2>3, <2>5, <2>6 DEF Accounts
  <2> QED
    BY <1>6, <2>1, <2>2, <2>7, Hands, PairMoves DEF StoreFresh
<1>7. CASE PostFresh(t)
  <2>1. warning'[BrowserOf[t]] /\ \A b \in Browsers : warning[b] => warning'[b]
    BY <1>7 DEF PostFresh, Warned, Set, KeysInv, TypeOK
  <2>2. Recalls(t)
    BY <1>7, <2>1, Owners DEF PostFresh, Recalls
  <2> QED
    BY <1>7, <2>2, Plain DEF PostFresh
<1> QED
  BY <1>1, <1>2, <1>3, <1>4, <1>5, <1>6, <1>7

LEMMA PairsOfApp ==
    ASSUME KeysInv, KeysInv', PairInv, NEW t \in Tabs,
           \/ LoadKey(t) \/ AskBackup(t) \/ RequestFails(t)
           \/ \E page \in {"closed", "enrol", "login", "recovery", "app"} : Open(t, page)
    PROVE  PairInv'
<1> USE DEF history, browser, row, Holding
<1>0. /\ \A b \in Browsers : EnterChat(t) => (told[b] => told'[b])
                               /\ (warning[b] => warning'[b] \/ told'[b])
      /\ excused \in [Browsers -> BOOLEAN] /\ quiet \in [Browsers -> BOOLEAN]
      /\ BrowserOf[t] \in Browsers
  BY Entering DEF KeysInv, TypeOK
<1>1. CASE LoadKey(t)
  <2>1. held'[t] = stored[BrowserOf[t]] /\ \A u \in Tabs : u # t => held'[u] = held[u]
    BY <1>1, Hands DEF LoadKey
  <2>2. PICK p \in {"chat", "askBackup"} : Go(t, p, "chat") /\ (p = "chat" => held'[t] # None)
    BY <1>1 DEF LoadKey, EnterChat
  <2>3. Recalls(t)
    BY <1>0, <1>1, Owners DEF LoadKey, Recalls
  <2>4. Known(BrowserOf[t], stored[BrowserOf[t]])
    BY <1>0 DEF PairInv
  <2>5. \A k : held'[t] = k => Known(BrowserOf[t], k)'
    BY <1>0, <2>1, <2>2, <2>3, <2>4, Recall
  <2>6. Accounts(t, p, "chat")
    BY <1>1, <2>2, <2>5 DEF LoadKey, Accounts
  <2> QED
    BY <2>1, <2>2, <2>3, <2>6, PairMoves
<1>2. CASE AskBackup(t)
  <2>1. CASE Redirect(t) /\ UNCHANGED <<told, warning, excused>>
    <3>1. Recalls(t)
      BY <1>2, <2>1, Calm DEF AskBackup
    <3> QED
      BY <1>2, <2>1, <3>1, Plain DEF AskBackup, Redirect
  <2>2. CASE EnterChat(t) /\ Set(excused, t)
    <3>1. \A b \in Browsers : excused[b] => excused'[b]
      BY <1>0, <2>2 DEF Set
    <3>2. Recalls(t) /\ Go(t, "chat", "chat")
      BY <1>0, <1>2, <2>2, <3>1, Owners DEF AskBackup, Recalls, EnterChat
    <3>3. Known(BrowserOf[t], held[t])
      BY <1>2 DEF AskBackup, PairInv
    <3>4. \A k : held'[t] = k => Known(BrowserOf[t], k)'
      BY <1>0, <1>2, <3>2, <3>3, Recall DEF AskBackup
    <3>5. excused'[BrowserOf[t]]
      BY <1>0, <2>2 DEF Set
    <3>6. Accounts(t, "chat", "chat")
      BY <1>2, <3>4, <3>5 DEF AskBackup, Accounts
    <3> QED
      BY <1>2, <3>2, <3>6, PairMoves DEF AskBackup
  <2> QED
    BY <1>2, <2>1, <2>2 DEF AskBackup
<1>3. CASE RequestFails(t)
  <2>1. /\ excused'[BrowserOf[t]] /\ \A b \in Browsers : excused[b] => excused'[b]
        /\ \A b \in Browsers : quiet[b] => quiet'[b]
        /\ at[t] = "post" => quiet'[BrowserOf[t]]
    BY <1>0, <1>3 DEF RequestFails, Set
  <2>2. EnterChat(t) \/ UNCHANGED <<told, warning>>
    BY <1>3 DEF RequestFails
  <2>3. Recalls(t)
    <3>1. \A k : Owned(k) => k \in {None, registered'.pair}
      BY <1>3, Owners DEF RequestFails
    <3> QED
      BY <1>0, <2>1, <2>2, <3>1 DEF Recalls
  <2>4. PICK q \in {"chat", "login", "app"} :
           Go(t, back[t], q) /\ (q = "chat" => back[t] = "chat")
    BY <1>3 DEF RequestFails, EnterChat
  <2>5. back[t] \in Backs /\ (back[t] = "chat" => at[t] = "askBackup")
    BY <1>3 DEF RequestFails, Posting, Asking, KeysInv, TabInv, PairInv
  <2>6. back[t] = "chat" => \A k : held'[t] = k => Known(BrowserOf[t], k)'
    <3>1. back[t] = "chat" => Known(BrowserOf[t], held[t])
      BY <2>5 DEF PairInv
    <3> QED
      BY <1>0, <1>3, <2>3, <2>4, <3>1, Recall DEF RequestFails
  <2>7. Accounts(t, back[t], q)
    BY <1>3, <2>1, <2>4, <2>5, <2>6 DEF RequestFails, Accounts, Backs
  <2> QED
    BY <1>3, <2>3, <2>4, <2>7, PairMoves DEF RequestFails
<1>4. ASSUME NEW page \in {"closed", "enrol", "login", "recovery", "app"}, Open(t, page)
      PROVE  PairInv'
  <2>1. PICK p \in {"closed", "enrol", "login", "recovery", "app"}, q \in {"login", "ready"} :
           Go(t, p, q)
    BY <1>4 DEF Open
  <2>2. /\ \A b \in Browsers : quiet[b] => quiet'[b]
        /\ at[t] = "post" => quiet'[BrowserOf[t]]
    BY <1>0, <1>4 DEF Open, Set
  <2>3. Recalls(t)
    <3>1. \A k : Owned(k) => k \in {None, registered'.pair}
      BY <1>4, Owners DEF Open
    <3> QED
      BY <1>4, <2>2, <3>1 DEF Open, Recalls
  <2>4. Accounts(t, p, q)
    BY <1>4, <2>1 DEF Open, Accounts
  <2> QED
    BY <1>4, <2>1, <2>3, <2>4, Hands, PairMoves DEF Open
<1> QED
  BY <1>1, <1>2, <1>3, <1>4

LEMMA PairsOfOthers ==
    ASSUME KeysInv, KeysInv', PairInv,
           \/ \E b \in Browsers, all \in BOOLEAN : Forget(b, all)
           \/ Approve \/ Remove
    PROVE  PairInv'
<1> USE DEF row, tab, browser, history
<1>0. /\ \A t \in Tabs : BrowserOf[t] \in Browsers
      /\ stored \in [Browsers -> OrNone(Pairs)] /\ warning \in [Browsers -> BOOLEAN]
      /\ quiet \in [Browsers -> BOOLEAN] /\ excused \in [Browsers -> BOOLEAN]
  BY DEF KeysInv, TypeOK
<1>1. ASSUME NEW c \in Browsers, NEW all \in BOOLEAN, Forget(c, all)
      PROVE  PairInv'
  <2>1. \A b \in Browsers : (warning[b] \/ quiet[b] => warning'[b] \/ quiet'[b])
                              /\ stored'[b] \in {None, stored[b]}
    BY <1>0, <1>1 DEF Forget
  <2>2. \A b \in Browsers : \A k : Known(b, k) => Known(b, k)'
    BY <1>1, <2>1 DEF Forget, Known, Owned, Warns
  <2>3. \A b \in Browsers : Known(b, stored[b])'
    <3>1. \A b \in Browsers : Known(b, None)' /\ Known(b, stored[b])
      BY DEF Known, Owned, PairInv
    <3> QED
      BY <2>1, <2>2, <3>1 DEF Known, Owned, Warns
  <2>4. \A t \in Tabs : at'[t] \in Holding => Known(BrowserOf[t], held[t])'
    BY <1>0, <1>1, <2>2 DEF Forget, PairInv, Known, Owned, Warns
  <2> QED
    BY <1>1, <2>3, <2>4 DEF Forget, PairInv
<1>2. CASE Approve
  BY <1>2 DEF Approve, PairInv, Known, Owned, Warns
<1>3. CASE Remove
  <2>1. ASSUME NEW b \in Browsers,
               stored[b] # None
               \/ \E t \in Tabs : BrowserOf[t] = b /\ at[t] \notin {"closed", "enrol"}
        PROVE  excused'[b] /\ quiet'[b]
    BY <1>3, <2>1 DEF Remove
  <2>2. \A b \in Browsers : excused[b] => excused'[b]
    BY <1>3 DEF Remove
  <2>3. ASSUME NEW b \in Browsers PROVE Known(b, stored[b])'
    BY <1>3, <2>1 DEF Remove, Known, Owned, Warns
  <2>4. ASSUME NEW t \in Tabs, at[t] \in Holding PROVE Known(BrowserOf[t], held[t])'
    BY <1>0, <2>1, <2>4 DEF Holding, Known, Warns
  <2> QED
    BY <1>0, <1>3, <2>2, <2>3, <2>4 DEF Remove, PairInv
<1> QED
  BY <1>1, <1>2, <1>3

LEMMA PairsStep ==
    ASSUME KeysInv, KeysInv', PairInv, [Next]_vars
    PROVE  PairInv'
<1>1. CASE UNCHANGED vars
  BY <1>1 DEF vars, row, browser, tab, history, PairInv, Known, Owned, Warns
<1>2. CASE Next
  BY <1>2, PairsOfPlain, PairsOfEnrolment, PairsOfRecovery, PairsOfApp, PairsOfOthers
     DEF Next, Script
<1> QED
  BY <1>1, <1>2

LEMMA PairInvariant == Spec => []PairInv
  BY InitPairs, PairsStep, KeysInvariant, PTL DEF Spec

\* A page in the chat has the private key of the registered public key, or it is known
\* why not: for any browsers, tabs, failures and uses.
THEOREM TheChatHasThePair == Spec => []ChatHasThePair
<1>1. KeysInv /\ PairInv => ChatHasThePair
  BY DEF KeysInv, RowInv, TypeOK, PairInv, ChatHasThePair, Known, Owned, Holding
<1> QED
  BY <1>1, KeysInvariant, PairInvariant, PTL

\* A browser with another pair than the registered one shows the warning, will, or lost
\* it by a known way: for any browsers, tabs, failures and uses.
THEOREM StrangersWarned == Spec => []StrangersAreWarned
<1>1. PairInv => StrangersAreWarned
  BY DEF PairInv, StrangersAreWarned, Known, Owned, Warns, Holding
<1> QED
  BY <1>1, PairInvariant, PTL
=============================================================================
