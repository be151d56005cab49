----------------------------- MODULE Pages_proofs -----------------------------
(***************************************************************************)
(* Proofs about the pages of the frontend, for every number of sockets,    *)
(* users, values, clicks and events: the sockets of the chat page          *)
(* (PageSockets), and the three pages of forms that Pages has side by side *)
(* (SavedFields, AdminPage, RoomSettings).                                 *)
(*                                                                         *)
(* None of the invariants follows one request. Each says for a list or a   *)
(* field that what is shown is what the server has, or that something      *)
(* under way will make it so; what is excused is what the page was told,   *)
(* or did, that leaves no such thing under way.                            *)
(***************************************************************************)
EXTENDS PageSockets, Pages, SequencesExt, SequenceTheorems, TLAPS

(***************************************************************************)
(* The sockets of the chat page.                                           *)
(*                                                                         *)
(* Joining follows the current room to the bus: on an open socket that the *)
(* bus hears, the room is joined, or a selection of it or some onopen      *)
(* still waits for keys and will join it on whatever is ws by then. A wait *)
(* that belongs to another socket counts too, because every wait joins on  *)
(* ws: that is why the argument holds with the sockets that were replaced  *)
(* while they were closing.                                                *)
(***************************************************************************)

Heard(s) == IsOpen(s) /\ s \in known \ silent

Joining ==
    room # None /\ Heard(ws) => room \in joined[ws] \/ selects[room] > 0 \/ opening # {}

JoinInv ==
    /\ TypeOK
    /\ \A r \in Rooms : selects[r] <= selected
    /\ opening # {} => room # None
    /\ Joining

-----------------------------------------------------------------------------
LEMMA InitJoin == Init => JoinInv
<1> SUFFICES ASSUME Init PROVE JoinInv
  OBVIOUS
<1> USE PageSocketsAssumption DEF Init
<1>1. state \in [Sockets -> States]
  BY DEF States
<1>2. /\ ws \in OrNone(Sockets) /\ room \in OrNone(Rooms)
      /\ attempts \in 0 .. MaxReconnectAttempts
      /\ selected \in 0 .. MaxSelects /\ faults \in 0 .. MaxFaults
  BY DEF OrNone
<1>3. selects \in [Rooms -> 0 .. MaxSelects] /\ \A r \in Rooms : selects[r] <= selected
  OBVIOUS
<1>4. TypeOK
  BY <1>1, <1>2, <1>3 DEF TypeOK
<1> QED BY <1>3, <1>4 DEF JoinInv, Joining

\* What connectWebSocket leaves of the invariant: a new socket is not open yet.
LEMMA ConnectKeeps ==
    ASSUME JoinInv, NEW left \in BOOLEAN, connectWebSocket(left),
           UNCHANGED <<room, opening, selects, known, joined, silent>>
    PROVE  /\ state' \in [Sockets -> States] /\ ws' \in OrNone(Sockets)
           /\ timer' \in BOOLEAN
           /\ Joining'
<1> USE PageSocketsAssumption DEF JoinInv, TypeOK, OrNone, States
<1>1. CASE InProgress
  <2>1. UNCHANGED <<state, ws>> /\ timer' = left
    BY <1>1 DEF connectWebSocket
  <2> QED BY <2>1 DEF Joining, Heard, IsOpen
<1>2. CASE ~InProgress
  <2>1. PICK s \in Sockets : ws' = s /\ state' = [state EXCEPT ![s] = "connecting"]
    BY <1>2 DEF connectWebSocket
  <2>2. timer' = FALSE
    BY <1>2 DEF connectWebSocket
  <2>3. ~IsOpen(ws)'
    BY <2>1 DEF IsOpen
  <2> QED BY <2>1, <2>2, <2>3 DEF Joining, Heard
<1> QED BY <1>1, <1>2

\* What onclose leaves of it: no socket is that of the page.
LEMMA OncloseKeeps ==
    ASSUME JoinInv, NEW s \in Sockets, onclose(s)
    PROVE  /\ state' \in [Sockets -> States] /\ ws' = None /\ pinging' \in BOOLEAN
           /\ attempts' \in 0 .. MaxReconnectAttempts
           /\ timer' \in BOOLEAN /\ olderTimers' \in Nat
           /\ UNCHANGED <<room, opening, selects>>
           /\ Joining'
<1> USE PageSocketsAssumption DEF JoinInv, TypeOK
<1>1. state' \in [Sockets -> States] /\ ws' = None /\ pinging' \in BOOLEAN
  BY DEF onclose, States
<1>2. UNCHANGED <<room, opening, selects>>
  BY DEF onclose
<1>3. Joining'
  BY <1>1 DEF Joining, Heard, IsOpen
<1>4. CASE TriesAgain
  <2>1. attempts' = attempts + 1 /\ timer' = TRUE
    BY <1>4 DEF onclose
  <2>2. attempts' \in 0 .. MaxReconnectAttempts
    BY <1>4, <2>1 DEF TriesAgain
  <2>3. olderTimers' = olderTimers + (IF timer THEN 1 ELSE 0)
    BY <1>4 DEF onclose
  <2>4. PICK n \in {0, 1} : n = (IF timer THEN 1 ELSE 0)
    BY Zenon
  <2>5. olderTimers' = olderTimers + n
    BY <2>3, <2>4, Zenon
  <2>6. olderTimers' \in Nat
    BY <2>5
  <2> HIDE DEF JoinInv
  <2> QED BY <1>1, <1>2, <1>3, <2>1, <2>2, <2>6
<1>5. CASE ~TriesAgain
  <2>1. UNCHANGED <<attempts, timer, olderTimers>>
    BY <1>5 DEF onclose
  <2> QED BY <1>1, <1>2, <1>3, <2>1
<1> QED BY <1>4, <1>5

\* A join that is sent on ws, for the current room or for another one.
LEMMA SendJoinKeeps ==
    ASSUME JoinInv, NEW r \in Rooms, SendJoin(r), UNCHANGED <<state, ws, room, known, silent>>
    PROVE  /\ joined' \in [Sockets -> SUBSET Rooms]
           /\ Heard(ws) => /\ r \in joined'[ws]
                           /\ room \in joined[ws] => room \in joined'[ws]
BY PageSocketsAssumption
DEF JoinInv, TypeOK, OrNone, States, SendJoin, Arrives, Heard, IsOpen

LEMMA SocketStepKeeps ==
    ASSUME JoinInv, NEW s \in Sockets, SocketStep(s) \/ Breaks(s) \/ GoesSilent(s)
    PROVE  JoinInv'
<1> USE PageSocketsAssumption DEF JoinInv, TypeOK, OrNone, States
<1>1. CASE Opened(s)
  <2>1. opening' = IF room # None THEN opening \cup {s} ELSE opening
    BY <1>1 DEF Opened, Rejoins
  <2>2. Joining'
    BY <1>1, <2>1 DEF Opened, Joining
  <2>3. state' \in [Sockets -> States] /\ pinging' \in BOOLEAN
    BY <1>1 DEF Opened, startHeartbeat
  <2> QED BY <1>1, <2>1, <2>2, <2>3 DEF Opened
<1>2. CASE OpenedKeys(s)
  <2>1. room \in Rooms
    BY <1>2 DEF OpenedKeys
  <2>2. /\ joined' \in [Sockets -> SUBSET Rooms]
        /\ Heard(ws) => room \in joined'[ws]
    BY <1>2, <2>1, SendJoinKeeps DEF OpenedKeys
  <2> QED BY <1>2, <2>1, <2>2 DEF OpenedKeys, Joining, Heard, IsOpen
<1>3. CASE Closed(s)
  BY <1>3, OncloseKeeps DEF Closed, server
<1>4. CASE HeartbeatTimeout(s)
  BY <1>4 DEF HeartbeatTimeout, Forgotten, page, Joining, Heard, IsOpen
<1>5. CASE ClosedByServer(s)
  BY <1>5, OncloseKeeps DEF ClosedByServer, server
<1>6. CASE Vanished(s)
  BY <1>6 DEF Vanished, page, server, Joining, Heard, IsOpen
<1>7. CASE Breaks(s)
  <2>1. known' \subseteq Sockets /\ joined' \in [Sockets -> SUBSET Rooms]
    BY <1>7 DEF Breaks, Forgotten
  <2> QED BY <1>7, <2>1, OncloseKeeps DEF Breaks, Fault
<1>8. CASE GoesSilent(s)
  BY <1>8 DEF GoesSilent, page, server, Fault, Joining, Heard, IsOpen
<1> QED BY <1>1, <1>2, <1>3, <1>4, <1>5, <1>6, <1>7, <1>8 DEF SocketStep

LEMMA SelectionKeeps ==
    ASSUME JoinInv, NEW r \in Rooms, SelectRoom(r) \/ SelectKeys(r)
    PROVE  JoinInv'
<1> USE PageSocketsAssumption DEF JoinInv, TypeOK, OrNone, States
<1>1. CASE SelectRoom(r)
  <2>1. joined' \in [Sockets -> SUBSET Rooms]
    BY <1>1 DEF SelectRoom, SendLeave
  <2>2. selects' \in [Rooms -> 0 .. MaxSelects] /\ \A q \in Rooms : selects'[q] <= selected'
    BY <1>1 DEF SelectRoom
  <2>3. room' = r /\ selects'[r] > 0
    BY <1>1 DEF SelectRoom
  <2> QED BY <1>1, <2>1, <2>2, <2>3 DEF SelectRoom, Joining
<1>2. CASE SelectKeys(r)
  <2>1. /\ joined' \in [Sockets -> SUBSET Rooms]
        /\ Heard(ws) => /\ r \in joined'[ws]
                        /\ room \in joined[ws] => room \in joined'[ws]
    BY <1>2, SendJoinKeeps DEF SelectKeys
  <2>2. /\ selects' \in [Rooms -> 0 .. MaxSelects]
        /\ \A q \in Rooms : selects'[q] <= selected
        /\ \A q \in Rooms \ {r} : selects'[q] = selects[q]
    BY <1>2 DEF SelectKeys
  <2>3. Joining'
    BY <1>2, <2>1, <2>2 DEF SelectKeys, Joining, Heard, IsOpen
  <2> QED BY <1>2, <2>1, <2>2, <2>3 DEF SelectKeys
<1> QED BY <1>1, <1>2

LEMMA StepJoin == JoinInv /\ [Next]_vars => JoinInv'
<1> SUFFICES ASSUME JoinInv, [Next]_vars PROVE JoinInv'
  OBVIOUS
<1> USE PageSocketsAssumption DEF JoinInv, TypeOK, OrNone, States
<1>1. CASE UNCHANGED vars
  BY <1>1 DEF vars, page, server, Joining, Heard, IsOpen
<1>2. ASSUME NEW s \in Sockets, SocketStep(s) \/ Breaks(s) \/ GoesSilent(s) PROVE JoinInv'
  BY <1>2, SocketStepKeeps
<1>3. ASSUME NEW r \in Rooms, SelectRoom(r) \/ SelectKeys(r) PROVE JoinInv'
  BY <1>3, SelectionKeeps
<1>4. CASE TimerFires
  <2>1. PICK left \in BOOLEAN : connectWebSocket(left)
    BY <1>4 DEF TimerFires
  <2>2. olderTimers' \in Nat
    <3>1. CASE UNCHANGED olderTimers
      BY <3>1
    <3>2. CASE olderTimers > 0 /\ olderTimers' = olderTimers - 1
      BY <3>2
    <3> QED BY <1>4, <3>1, <3>2 DEF TimerFires
  <2>3. UNCHANGED <<room, attempts, pinging, opening, selects, known, joined, silent, replaced,
                    selected, faults>>
    BY <1>4 DEF TimerFires, server
  <2>4. /\ state' \in [Sockets -> States] /\ ws' \in OrNone(Sockets)
        /\ timer' \in BOOLEAN
        /\ Joining'
    BY <2>1, <2>3, ConnectKeeps
  <2> QED BY <2>2, <2>3, <2>4
<1>5. CASE Visible
  BY <1>5, ConnectKeeps DEF Visible, server
<1>6. CASE PongTimeout
  BY <1>6 DEF PongTimeout, server, Joining, Heard, IsOpen
<1> QED BY <1>1, <1>2, <1>3, <1>4, <1>5, <1>6 DEF Next

-----------------------------------------------------------------------------
\* What the variables hold, in every behaviour (frontend/src/app.js).
THEOREM TypeCorrect == Spec => []TypeOK
<1>1. JoinInv => TypeOK
  BY DEF JoinInv
<1> QED BY InitJoin, StepJoin, <1>1, PTL DEF Spec

\* However selections, reconnections, sockets that outlive their replacement, lost
\* connections and the waits for keys were interleaved: a page whose handlers have run
\* hears of the room it shows on the socket it has (selectRoom and onopen of app.js).
THEOREM RoomsAreJoined == Spec => []RoomIsJoined
<1>1. JoinInv => RoomIsJoined
  BY DEF JoinInv, TypeOK, Joining, RoomIsJoined, Quiet, Listening, Heard, IsOpen, OrNone
<1> QED BY InitJoin, StepJoin, <1>1, PTL DEF Spec

-----------------------------------------------------------------------------
(***************************************************************************)
(* Sequences of requests and answers: what the ways to change one do to    *)
(* the set of its elements.                                                *)
(***************************************************************************)

LEMMA RemoveAtElements ==
    ASSUME NEW S, NEW s \in Seq(S), NEW i \in DOMAIN s
    PROVE  /\ RemoveAt(s, i) \in Seq(S) /\ Len(RemoveAt(s, i)) = Len(s) - 1
           /\ \A j \in 1 .. Len(s) - 1 :
                 RemoveAt(s, i)[j] = s[IF j < i THEN j ELSE j + 1]
<1> DEFINE a == SubSeq(s, 1, i - 1)
           b == SubSeq(s, i + 1, Len(s))
<1>0. Len(s) \in Nat /\ i \in 1 .. Len(s)
  OBVIOUS
<1>1. /\ a \in Seq(S) /\ Len(a) = i - 1
      /\ \A j \in 1 .. i - 1 : a[j] = s[j]
  BY <1>0, SubSeqProperties
<1>2. /\ b \in Seq(S) /\ Len(b) = Len(s) - i
      /\ \A j \in 1 .. Len(s) - i : b[j] = s[i + j]
  BY <1>0, SubSeqProperties
<1>3. RemoveAt(s, i) = a \o b
  BY DEF RemoveAt
<1> HIDE DEF a, b
<1>4. /\ a \o b \in Seq(S) /\ Len(a \o b) = Len(a) + Len(b)
      /\ \A j \in 1 .. Len(a) + Len(b) : (a \o b)[j] = IF j <= Len(a) THEN a[j] ELSE b[j - Len(a)]
  BY <1>1, <1>2, ConcatProperties
<1>5. ASSUME NEW j \in 1 .. Len(s) - 1
      PROVE  (a \o b)[j] = s[IF j < i THEN j ELSE j + 1]
  <2>1. CASE j < i
    BY <1>0, <1>1, <1>2, <1>4, <2>1
  <2>2. CASE ~ (j < i)
    <3>1. j - (i - 1) \in 1 .. Len(s) - i /\ i + (j - (i - 1)) = j + 1
      BY <1>0, <2>2
    <3>2. (a \o b)[j] = b[j - (i - 1)]
      <4>1. j \in 1 .. Len(a) + Len(b) /\ ~ (j <= Len(a)) /\ Len(a) = i - 1
        BY <1>0, <1>1, <1>2, <2>2
      <4> QED BY <1>4, <4>1
    <3>3. b[j - (i - 1)] = s[j + 1]
      BY <1>2, <3>1
    <3> QED BY <2>2, <3>2, <3>3
  <2> QED BY <2>1, <2>2
<1> QED BY <1>0, <1>1, <1>2, <1>3, <1>4, <1>5

\* What the ways to change the requests under way, and the answers, do to the set of them.
LEMMA RemoveAtSet ==
    ASSUME NEW S, NEW s \in Seq(S), NEW n \in DOMAIN s
    PROVE  /\ RemoveAt(s, n) \in Seq(S) /\ s[n] \in S /\ s[n] \in ToSet(s)
           /\ ToSet(RemoveAt(s, n)) \subseteq ToSet(s)
           /\ ToSet(s) \ {s[n]} \subseteq ToSet(RemoveAt(s, n))
<1> DEFINE t == RemoveAt(s, n)
<1>1. /\ t \in Seq(S) /\ Len(t) = Len(s) - 1
      /\ \A j \in 1 .. Len(s) - 1 : t[j] = s[IF j < n THEN j ELSE j + 1]
  BY RemoveAtElements
<1> HIDE DEF t
<1>2. Len(s) \in Nat /\ n \in 1 .. Len(s) /\ DOMAIN s = 1 .. Len(s)
      /\ DOMAIN t = 1 .. Len(s) - 1
  BY <1>1
<1>3. ASSUME NEW c \in ToSet(t) PROVE c \in ToSet(s)
  <2>1. PICK j \in DOMAIN t : c = t[j]
    BY DEF ToSet
  <2>2. (IF j < n THEN j ELSE j + 1) \in DOMAIN s
    BY <1>2
  <2> QED BY <1>1, <1>2, <2>1, <2>2 DEF ToSet
<1>4. ASSUME NEW c \in ToSet(s), c # s[n] PROVE c \in ToSet(t)
  <2>1. PICK j \in DOMAIN s : c = s[j]
    BY DEF ToSet
  <2>2. CASE j < n
    BY <1>1, <1>2, <2>1, <2>2 DEF ToSet
  <2>3. CASE j > n
    <3>1. j - 1 \in 1 .. Len(s) - 1 /\ ~(j - 1 < n) /\ (j - 1) + 1 = j
      BY <1>2, <2>3
    <3>2. t[j - 1] = c
      BY <1>1, <2>1, <3>1
    <3> QED BY <1>2, <3>1, <3>2 DEF ToSet
  <2>4. j # n /\ j \in Nat /\ n \in Nat
    BY <1>2, <1>4, <2>1
  <2> QED BY <2>2, <2>3, <2>4
<1>5. s[n] \in S /\ s[n] \in ToSet(s)
  BY ElementOfSeq DEF ToSet
<1> QED BY <1>1, <1>3, <1>4, <1>5 DEF t

LEMMA AppendSet ==
    ASSUME NEW S, NEW s \in Seq(S), NEW c \in S
    PROVE  Append(s, c) \in Seq(S) /\ ToSet(Append(s, c)) = ToSet(s) \cup {c}
<1> DEFINE t == Append(s, c)
<1>1. /\ t \in Seq(S) /\ Len(t) = Len(s) + 1 /\ t[Len(s) + 1] = c
      /\ \A j \in 1 .. Len(s) : t[j] = s[j]
  BY AppendProperties
<1> HIDE DEF t
<1>2. DOMAIN s = 1 .. Len(s) /\ DOMAIN t = 1 .. Len(s) + 1 /\ Len(s) \in Nat
  BY <1>1
<1>3. DOMAIN t = DOMAIN s \cup {Len(s) + 1}
  BY <1>2
<1>4. ToSet(t) = ToSet(s) \cup {c}
  BY <1>1, <1>2, <1>3 DEF ToSet
<1> QED BY <1>1, <1>4 DEF t

LEMMA ExceptSet ==
    ASSUME NEW S, NEW s \in Seq(S), NEW n \in DOMAIN s, NEW c \in S
    PROVE  LET t == [s EXCEPT ![n] = c] IN
           /\ t \in Seq(S) /\ s[n] \in S /\ s[n] \in ToSet(s) /\ c \in ToSet(t)
           /\ ToSet(t) \subseteq ToSet(s) \cup {c} /\ ToSet(s) \ {s[n]} \subseteq ToSet(t)
<1> DEFINE t == [s EXCEPT ![n] = c]
<1>1. /\ t \in Seq(S) /\ DOMAIN t = DOMAIN s /\ t[n] = c
      /\ \A j \in DOMAIN s : j # n => t[j] = s[j]
  BY ExceptSeq
<1> HIDE DEF t
<1>2. /\ c \in ToSet(t) /\ ToSet(t) \subseteq ToSet(s) \cup {c}
      /\ ToSet(s) \ {s[n]} \subseteq ToSet(t) /\ s[n] \in ToSet(s)
  BY <1>1 DEF ToSet
<1>3. s[n] \in S
  BY ElementOfSeq
<1> QED BY <1>1, <1>2, <1>3 DEF t

-----------------------------------------------------------------------------
(***************************************************************************)
(* SavedFields. All requests under way that a saved choice may still come  *)
(* from carry the same value; a calm one carries the choice that was made  *)
(* last, and once it is answered that value is saved. What excuses a field *)
(* is a choice made elsewhere or lost, or another choice sent before the   *)
(* first was answered.                                                     *)
(***************************************************************************)

\* The calls that save a field and are under way.
Saves == ToSet(fCalls)

FieldCall == [v : Values, at : {"sent", "ok", "refused"}, calm : BOOLEAN]
InPlace == fKind \in {"input", "scheme"}

\* Of a call that nobody disturbed the outcome is known.
CalmSaves ==
    \A c \in Saves : c.calm =>
        /\ \A d \in Saves : d.v = c.v
        /\ fWanted = c.v
        /\ c.at = "ok" => fSaved = c.v
        /\ InPlace => fShown = c.v
        /\ fKind = "theme" => fPreview = c.v
        /\ fKind = "scheme" => fCurrent = c.v

SameSaves ==
    fExcused # SF!All =>
        \A c \in Saves :
            /\ \A d \in Saves : d.v = c.v
            /\ c.at = "ok" => fSaved = c.v

BeforeReady ==
    /\ fPhase # "ready" => Saves = {} \/ (fKind = "input" /\ fPage = "admin")
    /\ fPhase = "loading" \/ ~SF!IsList => fRedraws = 0

\* A list, the value it was loaded for and the card that it marks.
ListInv ==
    SF!IsList =>
        /\ ~({"shown", "choice"} \subseteq fExcused) =>
              /\ fPhase = "loading" /\ fLoaded # NoValue => fLoaded = fSaved
              /\ fPhase # "loading" => fCurrent = fSaved \/ \E c \in Saves : c.at = "ok"
        /\ fPhase = "ready" /\ fRedraws = 0 /\ "shown" \notin fExcused => fShown = fCurrent

\* x is what is being saved, or is saved.
Comes(x) ==
    /\ Saves = {} => x = fSaved
    /\ \A c \in Saves : c.v = x

ChoiceInv ==
    /\ InPlace /\ fPhase # "loading" /\ "shown" \notin fExcused => Comes(fShown)
    /\ fKind = "theme" /\ "preview" \notin fExcused => Comes(fPreview)
    /\ "choice" \notin fExcused => Comes(fWanted)
    /\ fKind = "scheme" /\ fPhase # "loading" /\ "choice" \notin fExcused => Comes(fCurrent)

FieldsInv ==
    SF!TypeOK /\ CalmSaves /\ SameSaves /\ BeforeReady /\ ListInv /\ ChoiceInv

-----------------------------------------------------------------------------
LEMMA Finished ==
    ASSUME fCalls \in Seq(FieldCall), NEW n \in DOMAIN fCalls, SF!Finish(n)
    PROVE  /\ fCalls' \in Seq(FieldCall) /\ fCalls[n] \in Saves
           /\ Saves' \subseteq Saves /\ Saves \ {fCalls[n]} \subseteq Saves'
BY RemoveAtSet DEF SF!Finish, SF!RemoveAt, RemoveAt, Saves

LEMMA Served ==
    ASSUME fCalls \in Seq(FieldCall), NEW n \in DOMAIN fCalls,
           NEW how \in {"ok", "refused"}, fCalls' = [fCalls EXCEPT ![n].at = how]
    PROVE  LET c == [fCalls[n] EXCEPT !.at = how] IN
           /\ fCalls' \in Seq(FieldCall) /\ c \in FieldCall
           /\ fCalls[n] \in FieldCall
           /\ c.at = how /\ c.v = fCalls[n].v /\ c.calm = fCalls[n].calm
           /\ fCalls[n] \in Saves /\ c \in Saves'
           /\ Saves' \subseteq Saves \cup {c} /\ Saves \ {fCalls[n]} \subseteq Saves'
<1> DEFINE c == [fCalls[n] EXCEPT !.at = how]
<1>1. /\ fCalls[n] \in FieldCall /\ c \in FieldCall
      /\ c.at = how /\ c.v = fCalls[n].v /\ c.calm = fCalls[n].calm
  <2>1. fCalls[n] \in FieldCall
    BY ElementOfSeq
  <2>2. how \in {"sent", "ok", "refused"}
    OBVIOUS
  <2> QED BY <2>1, <2>2 DEF FieldCall
<1>2. fCalls' = [fCalls EXCEPT ![n] = c]
  OBVIOUS
<1> HIDE DEF c
<1>3. /\ fCalls' \in Seq(FieldCall) /\ fCalls[n] \in Saves /\ c \in Saves'
      /\ Saves' \subseteq Saves \cup {c} /\ Saves \ {fCalls[n]} \subseteq Saves'
  <2>1. ToSet(fCalls') = Saves'
    BY DEF Saves
  <2>2. LET t == [fCalls EXCEPT ![n] = c] IN
           /\ t \in Seq(FieldCall) /\ fCalls[n] \in ToSet(fCalls) /\ c \in ToSet(t)
           /\ ToSet(t) \subseteq ToSet(fCalls) \cup {c}
           /\ ToSet(fCalls) \ {fCalls[n]} \subseteq ToSet(t)
    BY <1>1, ExceptSet
  <2> QED BY <1>2, <2>1, <2>2 DEF Saves
<1> QED BY <1>1, <1>3 DEF c

Blurred(c) == [c EXCEPT !.calm = FALSE]

LEMMA Blurs ==
    ASSUME fCalls \in Seq(FieldCall)
    PROVE  /\ SF!Unclear \in Seq(FieldCall)
           /\ \A c \in FieldCall : /\ Blurred(c) \in FieldCall /\ Blurred(c).v = c.v
                                   /\ Blurred(c).at = c.at /\ Blurred(c).calm = FALSE
           /\ ToSet(SF!Unclear) = {Blurred(c) : c \in Saves}
           /\ Saves \subseteq FieldCall
<1>1. \A c \in FieldCall : /\ Blurred(c) \in FieldCall /\ Blurred(c).v = c.v
                           /\ Blurred(c).at = c.at /\ Blurred(c).calm = FALSE
  BY DEF FieldCall, Blurred
<1>2. Saves \subseteq FieldCall
  BY DEF Saves, ToSet
<1>3. DOMAIN SF!Unclear = DOMAIN fCalls /\ \A n \in DOMAIN fCalls : SF!Unclear[n] = Blurred(fCalls[n])
  BY DEF SF!Unclear, Blurred
<1>4. SF!Unclear \in Seq(FieldCall)
  <2>1. DOMAIN fCalls = 1 .. Len(fCalls) /\ Len(fCalls) \in Nat
    OBVIOUS
  <2>2. SF!Unclear = [n \in 1 .. Len(fCalls) |-> Blurred(fCalls[n])]
    BY <2>1 DEF SF!Unclear, Blurred
  <2> QED BY <1>1, <2>1, <2>2, IsASeq
<1>5. ToSet(SF!Unclear) = {Blurred(c) : c \in Saves}
  BY <1>3 DEF Saves, ToSet
<1> QED BY <1>1, <1>2, <1>4, <1>5

-----------------------------------------------------------------------------
\* A call that has been answered is done with.
LEMMA SaveDone ==
    ASSUME FieldsInv, NEW n \in DOMAIN fCalls, SF!Saved(n) \/ SF!Refused(n) \/ SF!Lost(n)
    PROVE  FieldsInv'
<1> DEFINE d == fCalls[n]
<1>1. fCalls \in Seq(FieldCall)
  BY DEF FieldsInv, SF!TypeOK, FieldCall
<1>2. d \in FieldCall
  BY <1>1, ElementOfSeq
<1>3. /\ fCalls' \in Seq(FieldCall) /\ d \in Saves
      /\ Saves' \subseteq Saves /\ Saves \ {d} \subseteq Saves'
  <2>1. SF!Finish(n)
    BY DEF SF!Saved, SF!Refused, SF!Lost
  <2> QED BY <1>1, <2>1, Finished
<1>4. /\ UNCHANGED <<fKind, fPage, fSaved, fPhase, fLoaded, fShown, fPreview, fWanted>>
      /\ ~SF!IsList => fCurrent' = fCurrent
  BY DEF SF!Saved, SF!Refused, SF!Lost
<1>5. \/ d.at = "ok" /\ fExcused' = (IF d.calm THEN {} ELSE fExcused)
         /\ (SF!IsList => fCurrent' = d.v /\ fRedraws' = fRedraws + 1)
         /\ (~SF!IsList => fRedraws' = fRedraws)
         /\ UNCHANGED <<fClicks, fEvents>>
      \/ d.at = "refused" /\ UNCHANGED <<fCurrent, fRedraws>> /\ UNCHANGED <<fClicks, fEvents>>
         /\ fExcused' = IF SF!IsList THEN fExcused \cup {"preview", "choice"} ELSE SF!All
      \/ fExcused' = SF!All /\ UNCHANGED <<fCurrent, fRedraws>>
         /\ fEvents < FieldEvents /\ fEvents' = fEvents + 1 /\ UNCHANGED fClicks
  BY DEF SF!Saved, SF!Refused, SF!Lost, SF!Event, SF!bounds
<1> HIDE DEF d
<1>6. SF!TypeOK'
  <2>0. d.v \in Values
    BY <1>2 DEF FieldCall
  <2>1. fCurrent' \in Values \cup {NoValue} /\ fRedraws' \in Nat
    BY <1>4, <1>5, <2>0 DEF FieldsInv, SF!TypeOK
  <2>3. fExcused' \subseteq SF!All
    BY <1>5 DEF FieldsInv, SF!TypeOK, SF!All
  <2>2. fClicks' \in 0 .. FieldCalls /\ fEvents' \in 0 .. FieldEvents
    BY <1>5, SavedFieldsAssumption DEF FieldsInv, SF!TypeOK
  <2> QED BY <1>3, <1>4, <2>1, <2>2, <2>3 DEF FieldsInv, SF!TypeOK, FieldCall
<1>7. CalmSaves'
  BY <1>3, <1>4 DEF FieldsInv, CalmSaves, SF!IsList, InPlace
\* What is known of the other calls when a good answer does not leave all excused.
<1>8. d.at = "ok" /\ fExcused' # SF!All =>
         fSaved = d.v /\ \A c \in Saves : c.v = d.v
  BY <1>3, <1>5 DEF FieldsInv, CalmSaves, SameSaves, SF!All
<1>9. SameSaves'
  BY <1>3, <1>4, <1>5, <1>8 DEF FieldsInv, SameSaves, SF!All
<1>10. BeforeReady'
  BY <1>3, <1>4, <1>5 DEF FieldsInv, BeforeReady, SF!IsList
<1>11. ListInv'
  BY <1>3, <1>4, <1>5, <1>8 DEF FieldsInv, ListInv, BeforeReady, SF!IsList, SF!All, SF!TypeOK
<1>12. ChoiceInv'
  BY <1>3, <1>4, <1>5, <1>7, <1>8 DEF FieldsInv, ChoiceInv, Comes, InPlace, CalmSaves, SF!IsList, SF!All
<1> QED BY <1>6, <1>7, <1>9, <1>10, <1>11, <1>12 DEF FieldsInv

LEMMA SaveServed ==
    ASSUME FieldsInv, NEW n \in DOMAIN fCalls, SF!Serve(n)
    PROVE  FieldsInv'
<1>1. fCalls \in Seq(FieldCall)
  BY DEF FieldsInv, SF!TypeOK, FieldCall
<1>2. UNCHANGED <<fKind, fPage, fPhase, fLoaded, fShown, fCurrent, fPreview, fRedraws, fWanted,
                  fClicks, fEvents, fExcused>>
  BY DEF SF!Serve, SF!bounds
<1>3. PICK how \in {"ok", "refused"} :
         /\ fCalls' = [fCalls EXCEPT ![n].at = how] /\ fCalls[n].at = "sent"
         /\ fSaved' = IF how = "ok" THEN fCalls[n].v ELSE fSaved
  BY DEF SF!Serve
<1> DEFINE d == fCalls[n]
           c == [d EXCEPT !.at = how]
<1>4. /\ fCalls' \in Seq(FieldCall) /\ c \in FieldCall /\ d \in FieldCall
      /\ c.at = how /\ c.v = d.v /\ c.calm = d.calm /\ d \in Saves /\ c \in Saves'
      /\ Saves' \subseteq Saves \cup {c} /\ Saves \ {d} \subseteq Saves'
  BY <1>1, <1>3, Served
<1>5. d.at = "sent" /\ fSaved' = IF how = "ok" THEN d.v ELSE fSaved
  BY <1>3
<1> HIDE DEF d, c
<1>6. SF!TypeOK'
  <2>1. d.v \in Values
    BY <1>4 DEF FieldCall
  <2>2. fSaved' \in Values
    BY <1>5, <2>1 DEF FieldsInv, SF!TypeOK
  <2> QED BY <1>2, <1>4, <2>2 DEF FieldsInv, SF!TypeOK, FieldCall
<1>7. CalmSaves'
  BY <1>2, <1>4, <1>5 DEF FieldsInv, CalmSaves, InPlace
<1>8. SameSaves'
  BY <1>2, <1>4, <1>5 DEF FieldsInv, SameSaves
<1>9. BeforeReady'
  BY <1>2, <1>4 DEF FieldsInv, BeforeReady, SF!IsList
<1>10. ListInv'
  BY <1>2, <1>4, <1>5 DEF FieldsInv, ListInv, BeforeReady, SF!IsList
<1>11. ChoiceInv'
  BY <1>2, <1>4, <1>5 DEF FieldsInv, ChoiceInv, Comes, InPlace
<1> QED BY <1>6, <1>7, <1>8, <1>9, <1>10, <1>11 DEF FieldsInv

\* Nothing can be said of any value.
LEMMA AllExcused ==
    ASSUME SF!TypeOK', CalmSaves', BeforeReady', fExcused' = SF!All,
           fRedraws' = 0 \/ "shown" \in fExcused'
    PROVE  FieldsInv'
BY DEF FieldsInv, SameSaves, ListInv, ChoiceInv, SF!All

LEMMA SavedByOthers ==
    ASSUME FieldsInv, NEW v \in Values, SF!SavedElsewhere(v)
    PROVE  FieldsInv'
<1>1. fCalls \in Seq(FieldCall)
  BY DEF FieldsInv, SF!TypeOK, FieldCall
<1>2. /\ fCalls' \in Seq(FieldCall) /\ Saves' = {Blurred(c) : c \in Saves}
      /\ \A c \in Saves : Blurred(c).calm = FALSE
  BY <1>1, Blurs DEF SF!SavedElsewhere, Saves, ToSet
<1>3. SF!TypeOK'
  BY <1>2, SavedFieldsAssumption
  DEF FieldsInv, SF!TypeOK, SF!SavedElsewhere, SF!Event, SF!All, FieldCall
<1>4. CalmSaves' /\ BeforeReady'
  BY <1>2 DEF FieldsInv, BeforeReady, SF!IsList, CalmSaves, SF!SavedElsewhere
<1> QED BY <1>3, <1>4, AllExcused DEF SF!SavedElsewhere, SF!All

\* A value that is sent: it is the only one under way, or all is excused.
LEMMA Sends ==
    ASSUME fCalls \in Seq(FieldCall), NEW v \in Values, SF!Send(v)
    PROVE  /\ fCalls' \in Seq(FieldCall)
           /\ \E c \in Saves' : c.v = v
           /\ \/ /\ \A c \in Saves : c.v = v
                 /\ Saves' = Saves \cup {[v |-> v, at |-> "sent", calm |-> TRUE]}
                 /\ fExcused' = fExcused
              \/ /\ \A c \in Saves' : c.calm = FALSE
                 /\ \A c \in Saves : \E d \in Saves' : d.at = c.at
                 /\ fExcused' = SF!All
<1>1. CASE SF!Rivals(v) = {}
  <2> DEFINE c == [v |-> v, at |-> "sent", calm |-> TRUE]
  <2>1. c \in FieldCall /\ c.v = v
    BY DEF FieldCall
  <2>2. fCalls' = Append(fCalls, c) /\ fExcused' = fExcused
    BY <1>1 DEF SF!Send
  <2>3. \A d \in Saves : d.v = v
    BY <1>1 DEF SF!Rivals, Saves, ToSet
  <2> HIDE DEF c
  <2>4. fCalls' \in Seq(FieldCall) /\ Saves' = Saves \cup {c}
    BY <2>1, <2>2, AppendSet DEF Saves
  <2> QED BY <2>1, <2>2, <2>3, <2>4 DEF c
<1>2. CASE SF!Rivals(v) # {}
  <2> DEFINE c == [v |-> v, at |-> "sent", calm |-> FALSE]
  <2>1. c \in FieldCall /\ c.v = v /\ c.calm = FALSE
    BY DEF FieldCall
  <2>2. fCalls' = Append(SF!Unclear, c) /\ fExcused' = SF!All
    BY <1>2 DEF SF!Send
  <2> HIDE DEF c
  <2>3. fCalls' \in Seq(FieldCall) /\ Saves' = {Blurred(d) : d \in Saves} \cup {c}
    BY <2>1, <2>2, AppendSet, Blurs DEF Saves
  <2>4. \A d \in Saves : Blurred(d).calm = FALSE /\ Blurred(d).at = d.at
    BY Blurs
  <2> QED BY <2>1, <2>2, <2>3, <2>4
<1> QED BY <1>1, <1>2

\* A choice that is skipped.
LEMMA Skips ==
    ASSUME fCalls \in Seq(FieldCall), NEW v \in Values, SF!Skip(v)
    PROVE  /\ fCalls' \in Seq(FieldCall)
           /\ \/ /\ \A c \in Saves : c.v = v
                 /\ fCalls' = fCalls /\ Saves' = Saves /\ fExcused' = fExcused
              \/ /\ Saves' = {Blurred(c) : c \in Saves}
                 /\ \A c \in Saves : Blurred(c).calm = FALSE /\ Blurred(c).at = c.at /\ Blurred(c).v = c.v
                 /\ fExcused' = fExcused \cup {"choice"}
<1>1. CASE SF!Rivals(v) = {}
  BY <1>1 DEF SF!Skip, SF!Rivals, Saves, ToSet
<1>2. CASE SF!Rivals(v) # {}
  BY <1>2, Blurs DEF SF!Skip, Saves, ToSet
<1> QED BY <1>1, <1>2

\* The field, the card or the scheme that is changed.
LEMMA ChoiceKept ==
    ASSUME FieldsInv, NEW v \in Values,
           SF!Edit(v) \/ SF!selectTheme(v) \/ SF!selectDmRoomType(v) \/ SF!selectColorScheme(v)
    PROVE  FieldsInv'
<1>1. fCalls \in Seq(FieldCall)
  BY DEF FieldsInv, SF!TypeOK, FieldCall
<1>2. /\ UNCHANGED <<fKind, fPage, fSaved, fPhase, fLoaded, fRedraws, fEvents>>
      /\ fWanted' = v /\ fClicks < FieldCalls /\ fClicks' = fClicks + 1
  BY DEF SF!Edit, SF!selectTheme, SF!selectDmRoomType, SF!selectColorScheme, SF!Clicked
<1>3. SF!TypeOK' <=>
        /\ fShown' \in Values \cup {NoValue} /\ fCurrent' \in Values \cup {NoValue}
        /\ fPreview' \in Values /\ fCalls' \in Seq(FieldCall) /\ fExcused' \subseteq SF!All
  BY <1>2, SavedFieldsAssumption DEF FieldsInv, SF!TypeOK, FieldCall
\* Sent.
<1>4. ASSUME SF!Send(v),
             fKind \in {"theme", "type"} => UNCHANGED <<fCurrent, fShown>>,
             fKind = "theme" => fPreview' = v, fPreview' \in {v, fPreview},
             InPlace => fShown' = v, fShown' \in {v, fShown},
             fKind = "scheme" => fCurrent' = v, fCurrent' \in {v, fCurrent},
             fPhase = "ready" \/ (fKind = "input" /\ fPage = "admin")
      PROVE  FieldsInv'
  <2>1. /\ fCalls' \in Seq(FieldCall)
        /\ \E c \in Saves' : c.v = v
        /\ \/ /\ \A c \in Saves : c.v = v
              /\ Saves' = Saves \cup {[v |-> v, at |-> "sent", calm |-> TRUE]}
              /\ fExcused' = fExcused
           \/ /\ \A c \in Saves' : c.calm = FALSE
              /\ \A c \in Saves : \E d \in Saves' : d.at = c.at
              /\ fExcused' = SF!All
    BY <1>1, <1>4, Sends
  <2>2. SF!TypeOK'
    BY <1>3, <1>4, <2>1 DEF FieldsInv, SF!TypeOK
  <2>3. BeforeReady'
    BY <1>2, <1>4, <2>1 DEF FieldsInv, BeforeReady, SF!IsList
  <2>4. CASE fExcused' = SF!All /\ \A c \in Saves' : c.calm = FALSE
    <3>1. CalmSaves'
      BY <2>4 DEF CalmSaves
    <3> QED BY <2>2, <2>3, <2>4, <3>1, AllExcused DEF SF!All
  <2>5. ASSUME \A c \in Saves : c.v = v, fExcused' = fExcused,
               Saves' = Saves \cup {[v |-> v, at |-> "sent", calm |-> TRUE]}
        PROVE  FieldsInv'
    <3> DEFINE e == [v |-> v, at |-> "sent", calm |-> TRUE]
    <3>1. e.v = v /\ e.at = "sent" /\ e.calm = TRUE /\ Saves' = Saves \cup {e}
      BY <2>5
    <3> HIDE DEF e
    <3>2. CalmSaves'
      BY <1>2, <1>4, <2>5, <3>1 DEF FieldsInv, CalmSaves, InPlace
    <3>3. SameSaves'
      BY <1>2, <2>5, <3>1 DEF FieldsInv, SameSaves
    <3>4. ListInv'
      BY <1>2, <1>4, <2>5, <3>1 DEF FieldsInv, ListInv, SF!IsList
    <3>5. ChoiceInv'
      BY <1>2, <1>4, <2>5, <3>1 DEF FieldsInv, ChoiceInv, Comes, InPlace
    <3> QED BY <2>2, <2>3, <3>2, <3>3, <3>4, <3>5 DEF FieldsInv
  <2> QED BY <2>1, <2>4, <2>5
\* Skipped.
<1>5. ASSUME SF!Skip(v), v = fCurrent, fPhase = "ready", fKind # "input",
             UNCHANGED <<fShown, fCurrent, fPreview>>
      PROVE  FieldsInv'
  <2>1. /\ fCalls' \in Seq(FieldCall)
        /\ \/ /\ \A c \in Saves : c.v = v
              /\ fCalls' = fCalls /\ Saves' = Saves /\ fExcused' = fExcused
           \/ /\ Saves' = {Blurred(c) : c \in Saves}
              /\ \A c \in Saves : Blurred(c).calm = FALSE /\ Blurred(c).at = c.at /\ Blurred(c).v = c.v
              /\ fExcused' = fExcused \cup {"choice"}
    BY <1>1, <1>5, Skips
  <2>2. SF!TypeOK'
    BY <1>3, <1>5, <2>1 DEF FieldsInv, SF!TypeOK, SF!All
  <2>3. BeforeReady'
    BY <1>2, <1>5, <2>1 DEF FieldsInv, BeforeReady, SF!IsList
  <2>4. CalmSaves'
    BY <1>2, <1>5, <2>1 DEF FieldsInv, CalmSaves, InPlace
  <2>5. SameSaves'
    BY <1>2, <2>1 DEF FieldsInv, SameSaves, SF!All
  <2>6. ListInv'
    BY <1>2, <1>5, <2>1 DEF FieldsInv, ListInv, SF!IsList
  <2>7. ChoiceInv'
    <3>1. "choice" \notin fExcused' => Comes(v)'
      BY <1>2, <1>5, <2>1
      DEF FieldsInv, ListInv, ChoiceInv, Comes, SF!IsList, SF!TypeOK, SF!Kinds, InPlace
    <3> QED BY <1>2, <1>5, <2>1, <3>1 DEF FieldsInv, ChoiceInv, Comes, InPlace
  <2> QED BY <2>2, <2>3, <2>4, <2>5, <2>6, <2>7 DEF FieldsInv
\* Typed before anybody listens.
<1>6. ASSUME fKind = "input", fPage # "admin", fPhase # "ready",
             fExcused' = fExcused \cup {"choice", "shown"},
             UNCHANGED <<fCalls, fCurrent, fPreview>>, fShown' = v
      PROVE  FieldsInv'
  <2>1. SF!TypeOK'
    BY <1>1, <1>3, <1>6 DEF FieldsInv, SF!TypeOK, SF!All
  <2>2. Saves = {} /\ Saves' = {}
    BY <1>6 DEF FieldsInv, BeforeReady, Saves, ToSet
  <2> QED BY <1>2, <1>6, <2>1, <2>2
          DEF FieldsInv, CalmSaves, SameSaves, BeforeReady, ListInv, ChoiceInv, Comes, SF!IsList, InPlace
<1>7. CASE SF!Edit(v)
  BY <1>4, <1>6, <1>7 DEF SF!Edit, InPlace
<1>8. CASE SF!selectTheme(v)
  BY <1>4, <1>5, <1>8 DEF SF!selectTheme, InPlace
<1>9. CASE SF!selectDmRoomType(v)
  BY <1>4, <1>5, <1>9 DEF SF!selectDmRoomType, InPlace
<1>10. CASE SF!selectColorScheme(v)
  BY <1>4, <1>5, <1>10 DEF SF!selectColorScheme, InPlace
<1> QED BY <1>7, <1>8, <1>9, <1>10

-----------------------------------------------------------------------------
\* The page is loaded, and its list drawn.
LEMMA FieldLoaded ==
    ASSUME FieldsInv, SF!ServeLoad \/ SF!Loaded \/ SF!LoadLost
    PROVE  FieldsInv'
<1>1. fCalls \in Seq(FieldCall)
  BY DEF FieldsInv, SF!TypeOK, FieldCall
<1>2. fPhase = "loading" /\ fRedraws = 0
  BY DEF FieldsInv, BeforeReady, SF!ServeLoad, SF!Loaded, SF!LoadLost
<1>3. CASE SF!ServeLoad
  <2>1. UNCHANGED <<fKind, fPage, fSaved, fPhase, fShown, fCurrent, fPreview, fRedraws, fCalls,
                    fWanted, fClicks, fEvents, fExcused>> /\ fLoaded' = fSaved
    BY <1>3 DEF SF!ServeLoad, SF!bounds
  <2>2. SF!TypeOK'
    BY <2>1 DEF FieldsInv, SF!TypeOK
  <2>3. CalmSaves' /\ SameSaves' /\ BeforeReady' /\ ListInv' /\ ChoiceInv'
    BY <2>1 DEF FieldsInv, CalmSaves, SameSaves, BeforeReady, ListInv, ChoiceInv, Comes,
                SF!IsList, InPlace, Saves
  <2> QED BY <2>2, <2>3 DEF FieldsInv
<1>4. CASE SF!Loaded
  <2>1. /\ fCalls' \in Seq(FieldCall) /\ Saves' = {Blurred(c) : c \in Saves}
        /\ \A c \in Saves : Blurred(c).calm = FALSE /\ Blurred(c).at = c.at /\ Blurred(c).v = c.v
    BY <1>1, <1>4, Blurs DEF SF!Loaded, Saves, ToSet
  <2>2. /\ UNCHANGED <<fKind, fPage, fSaved, fLoaded, fPreview, fRedraws, fWanted, fClicks, fEvents>>
        /\ fCurrent' = fLoaded /\ fLoaded # NoValue
        /\ fPhase' = (IF fPage = "settings" \/ SF!IsList THEN "listing" ELSE "ready")
        /\ fShown' = (IF SF!IsList THEN fShown ELSE fLoaded)
        /\ fExcused' = IF SF!IsList THEN fExcused
                  ELSE fExcused \cup (IF fLoaded # fSaved \/ fCalls # <<>> THEN {"shown"} ELSE {})
                                \cup (IF fLoaded # fWanted THEN {"choice"} ELSE {})
    BY <1>4 DEF SF!Loaded, SF!bounds
  <2>3. fCalls = <<>> => Saves = {}
    BY DEF Saves, ToSet
  <2>4. SF!TypeOK'
    BY <2>1, <2>2 DEF FieldsInv, SF!TypeOK, SF!All, FieldCall
  <2>5. CalmSaves' /\ SameSaves'
    BY <2>1, <2>2 DEF FieldsInv, CalmSaves, SameSaves, SF!All
  <2>6. BeforeReady'
    BY <1>2, <2>1, <2>2 DEF FieldsInv, BeforeReady, SF!IsList
  <2>7. ListInv'
    BY <1>2, <2>1, <2>2 DEF FieldsInv, ListInv, SF!IsList
  <2>8. ChoiceInv'
    <3>1. ("choice" \notin fExcused' => Comes(fWanted)')
          /\ (fKind' = "theme" /\ "preview" \notin fExcused' => Comes(fPreview)')
      BY <2>1, <2>2 DEF FieldsInv, ChoiceInv, Comes, SF!IsList
    <3>2. ~SF!IsList /\ "shown" \notin fExcused' => Saves' = {} /\ Comes(fShown)'
      BY <2>1, <2>2, <2>3 DEF Comes
    <3>3. fKind = "scheme" /\ "choice" \notin fExcused' => Comes(fCurrent)'
      BY <1>2, <2>1, <2>2, <3>1 DEF FieldsInv, Comes, SF!IsList
    <3> QED BY <2>2, <3>1, <3>2, <3>3 DEF ChoiceInv, InPlace, SF!IsList
  <2> QED BY <2>4, <2>5, <2>6, <2>7, <2>8 DEF FieldsInv
<1>5. CASE SF!LoadLost
  <2>1. SF!TypeOK'
    BY <1>5, SavedFieldsAssumption DEF FieldsInv, SF!TypeOK, SF!LoadLost, SF!Event, SF!All
  <2>2. CalmSaves' /\ BeforeReady'
    BY <1>2, <1>5 DEF FieldsInv, CalmSaves, BeforeReady, SF!LoadLost, InPlace, Saves, ToSet
  <2> QED BY <2>1, <2>2, <1>5, AllExcused DEF SF!LoadLost, SF!All
<1> QED BY <1>3, <1>4, <1>5

LEMMA ListDrawn ==
    ASSUME FieldsInv, SF!Listed \/ SF!ListFails \/ SF!Redraw \/ SF!RedrawFails
    PROVE  FieldsInv'
<1>1. /\ UNCHANGED <<fKind, fPage, fSaved, fLoaded, fCurrent, fPreview, fCalls, fWanted, fClicks>>
      /\ Saves' = Saves
  BY DEF SF!Listed, SF!ListFails, SF!Redraw, SF!RedrawFails, SF!Event, SF!bounds, Saves, ToSet
<1>2. CASE SF!Listed \/ SF!ListFails
  <2>1. /\ fPhase = "listing" /\ fPhase' = "ready" /\ UNCHANGED fRedraws
        /\ ~SF!IsList => fShown' = fShown /\ fExcused' = fExcused
        /\ \/ SF!IsList => fShown' = fCurrent /\ fExcused' = fExcused
           \/ SF!IsList => fShown' = fShown /\ fExcused' = fExcused \cup {"shown"}
    BY <1>2 DEF SF!Listed, SF!ListFails
  <2>2. fEvents' \in 0 .. FieldEvents
    BY <1>2, SavedFieldsAssumption DEF FieldsInv, SF!TypeOK, SF!Listed, SF!ListFails, SF!Event, SF!bounds
  <2>3. SF!TypeOK'
    BY <1>1, <2>1, <2>2 DEF FieldsInv, SF!TypeOK, SF!All
  <2>4. CalmSaves' /\ SameSaves' /\ BeforeReady'
    BY <1>1, <2>1 DEF FieldsInv, CalmSaves, SameSaves, BeforeReady, SF!IsList, InPlace, SF!All
  <2>5. ListInv'
    BY <1>1, <2>1 DEF FieldsInv, ListInv, SF!IsList
  <2>6. ChoiceInv'
    BY <1>1, <2>1 DEF FieldsInv, ChoiceInv, Comes, SF!IsList, InPlace
  <2> QED BY <2>3, <2>4, <2>5, <2>6 DEF FieldsInv
<1>3. CASE SF!Redraw \/ SF!RedrawFails
  <2>1. /\ fRedraws > 0 /\ fRedraws' = fRedraws - 1 /\ UNCHANGED fPhase
        /\ \/ fShown' = fCurrent /\ fExcused' = fExcused
           \/ fShown' \in {fShown, NoValue} /\ fExcused' = fExcused \cup {"shown"}
    BY <1>3 DEF SF!Redraw, SF!RedrawFails
  <2>2. fEvents' \in 0 .. FieldEvents
    BY <1>3, SavedFieldsAssumption DEF FieldsInv, SF!TypeOK, SF!Redraw, SF!RedrawFails, SF!Event, SF!bounds
  <2>3. SF!IsList /\ ~InPlace /\ fPhase # "loading"
    BY <2>1 DEF FieldsInv, BeforeReady, SF!IsList, InPlace
  <2>4. SF!TypeOK'
    <3>1. fRedraws' \in Nat
      BY <2>1 DEF FieldsInv, SF!TypeOK
    <3>2. fShown' \in Values \cup {NoValue}
      BY <2>1 DEF FieldsInv, SF!TypeOK
    <3> QED BY <1>1, <2>1, <2>2, <3>1, <3>2 DEF FieldsInv, SF!TypeOK, SF!All
  <2>5. CalmSaves' /\ SameSaves' /\ BeforeReady'
    BY <1>1, <2>1, <2>3 DEF FieldsInv, CalmSaves, SameSaves, BeforeReady, SF!IsList, InPlace, SF!All
  <2>6. ListInv'
    BY <1>1, <2>1 DEF FieldsInv, ListInv, SF!IsList
  <2>7. ChoiceInv'
    BY <1>1, <2>1, <2>3 DEF FieldsInv, ChoiceInv, Comes, SF!IsList, InPlace
  <2> QED BY <2>4, <2>5, <2>6, <2>7 DEF FieldsInv
<1> QED BY <1>2, <1>3

LEMMA InitFields == SF!Init => FieldsInv
<1> SUFFICES ASSUME SF!Init PROVE FieldsInv
  OBVIOUS
<1>1. Saves = {}
  BY DEF SF!Init, Saves, ToSet
<1>2. fKind = "scheme" => fCurrent \in Values
  BY DEF SF!Init
<1>3. SF!TypeOK
  BY SavedFieldsAssumption DEF SF!Init, SF!TypeOK, SF!Kinds
<1> QED BY <1>1, <1>3, SavedFieldsAssumption
        DEF SF!Init, FieldsInv, CalmSaves, SameSaves, BeforeReady, ListInv, ChoiceInv, Comes,
            SF!IsList, InPlace

LEMMA StepFields == FieldsInv /\ [SF!Next]_(SF!vars) => FieldsInv'
<1> SUFFICES ASSUME FieldsInv, [SF!Next]_(SF!vars) PROVE FieldsInv'
  OBVIOUS
<1>1. CASE SF!ServeLoad \/ SF!Loaded \/ SF!LoadLost
  BY <1>1, FieldLoaded
<1>2. CASE SF!Listed \/ SF!ListFails \/ SF!Redraw \/ SF!RedrawFails
  BY <1>2, ListDrawn
<1>3. CASE \E n \in DOMAIN fCalls : SF!Serve(n) \/ SF!Saved(n) \/ SF!Refused(n) \/ SF!Lost(n)
  BY <1>3, SaveServed, SaveDone
<1>4. CASE \E v \in Values : \/ SF!Edit(v) \/ SF!selectTheme(v) \/ SF!selectDmRoomType(v)
                               \/ SF!selectColorScheme(v)
  BY <1>4, ChoiceKept
<1>5. CASE \E v \in Values : SF!SavedElsewhere(v)
  BY <1>5, SavedByOthers
<1>6. CASE UNCHANGED SF!vars
  BY <1>6 DEF SF!vars, SF!bounds, FieldsInv, SF!TypeOK, CalmSaves, SameSaves, BeforeReady, ListInv,
              ChoiceInv, Comes, SF!IsList, InPlace, Saves
<1> QED BY <1>1, <1>2, <1>3, <1>4, <1>5, <1>6 DEF SF!Next

\* The choice made last is the one that is saved, applied and shown on a page at rest, for
\* every set of values and any number of edits and events (the handlers of settings.js,
\* admin.js and theme-manager.js).
THEOREM ChoicesStaySaved == SF!Spec => []ChoicesAreSaved
<1>1. FieldsInv => ChoicesAreSaved
  <2> SUFFICES ASSUME FieldsInv, SF!AtRest PROVE SF!ChoicesAreSaved
    BY DEF ChoicesAreSaved, SF!ChoicesAreSaved, SF!ShownIsSaved, SF!PreviewIsSaved,
           SF!LastChoiceIsSaved
  <2>1. Saves = {} /\ fPhase = "ready" /\ fRedraws = 0
    BY DEF SF!AtRest, Saves, ToSet
  <2> QED BY <2>1 DEF FieldsInv, ListInv, ChoiceInv, Comes, SF!IsList, InPlace, SF!TypeOK, SF!Kinds,
             SF!ChoicesAreSaved, SF!ShownIsSaved, SF!PreviewIsSaved, SF!LastChoiceIsSaved
<1> QED BY <1>1, InitFields, StepFields, PTL DEF SF!Spec

-----------------------------------------------------------------------------
(***************************************************************************)
(* AdminPage. A change by the page is numbered; a list is right when the   *)
(* answer drawn last was given after the page's last change to it, and     *)
(* until then a request, a load or an answer is under way that will be.    *)
(***************************************************************************)

Asks == ToSet(aCalls)
AdminCall == [op : AP!Ops, at : {"sent", "ok", "refused"}, change : Nat,
              mode : AP!REG_MODES \cup {"undefined"}]
ModeOps == {"settings", "mode"}

\* The last change of v by the page is drawn, or what will draw it is under way.
ListMoved(v) ==
    \/ v \notin {"invites", "log"} /\ \E c \in Asks : c.op = "settings"
    \/ \E c \in Asks : c.at = "ok" /\ v \in AP!Changes(c.op)
    \/ aAsked[v] > 0
    \/ \E k \in ToSet(aAnswers[v]) : k >= aMine[v]
    \/ aShown[v] >= aMine[v]

\* The mode that an answer holds is that of the change it was given at.
ModesAreKnown ==
    /\ \A c \in Asks :
          /\ c.op = "mode" /\ c.at = "sent" => c.mode \in AP!REG_MODES
          /\ c.at = "ok" /\ c.op \in ModeOps =>
                /\ c.change <= aNow["mode"]
                /\ c.change = aNow["mode"] => c.mode = aMode
    /\ aShown["mode"] <= aNow["mode"]

\* What was drawn last, and what will be drawn.
ModeMoved ==
    "mode" \notin aExcused =>
        /\ aShown["mode"] = aNow["mode"] =>
              /\ aCurrentRegMode = aMode
              /\ (\A c \in Asks : c.op \notin ModeOps) => aSlider = aMode
        /\ aMine["mode"] = aNow["mode"] =>
              \/ aShown["mode"] = aNow["mode"]
              \/ \E c \in Asks : c.op \in ModeOps /\ c.at = "ok" /\ c.change = aNow["mode"]
              \/ \E c \in Asks : c.op = "settings" /\ c.at = "sent"

MineIsPast == \A v \in AP!Views : aMine[v] <= aNow[v]
ListsMove == \A v \in aLists \ aExcused : ListMoved(v)

AdminInv == AP!TypeOK /\ MineIsPast /\ ListsMove /\ ModesAreKnown /\ ModeMoved /\ AP!PollFollows

AllLists == {"pending", "users", "preferences", "invites", "backups", "log"}

-----------------------------------------------------------------------------
LEMMA ListsKnown ==
    ASSUME AP!TypeOK
    PROVE  /\ aLists \subseteq AllLists /\ "mode" \notin aLists /\ "mode" \in AP!Views
           /\ aCalls \in Seq(AdminCall)
           /\ Asks \subseteq AdminCall
<1>1. aLists \subseteq AllLists /\ aCalls \in Seq(AdminCall)
  BY AdminPageAssumption DEF AP!TypeOK, AllLists, AdminCall
<1>2. Asks \subseteq AdminCall
  BY <1>1 DEF Asks, ToSet
<1> QED BY <1>1, <1>2 DEF AP!Views, AllLists

LEMMA WhatChanges ==
    /\ \A op \in AP!Ops : op # "mode" => AP!Changes(op) \subseteq AllLists
    /\ AP!Changes("mode") = {"mode"} /\ AP!Changes("settings") = {}
    /\ AP!Changes("approve") = {}
    /\ \A op \in AP!Ops : op \notin ModeOps =>
          AP!Changes(op) \subseteq AP!Reloads(op, "ok")
                                   \cup (IF op = "delete" THEN {"preferences"} ELSE {})
BY DEF AP!Changes, AP!Reloads, AP!Ops, AllLists, ModeOps

LEMMA Bumps ==
    ASSUME AP!TypeOK, NEW V
    PROVE  /\ AP!Bumped(V) \in [AP!Views -> Nat]
           /\ \A v \in AP!Views : /\ AP!Bumped(V)[v] >= aNow[v]
                                  /\ v \in V => AP!Bumped(V)[v] = aNow[v] + 1
                                  /\ v \notin V => AP!Bumped(V)[v] = aNow[v]
BY DEF AP!Bumped, AP!TypeOK

LEMMA Asked ==
    ASSUME AP!TypeOK, NEW N \in [aLists -> Nat], AP!Ask(N)
    PROVE  /\ aAsked' \in [aLists -> Nat]
           /\ \A v \in aLists : aAsked'[v] >= aAsked[v] /\ (N[v] > 0 => aAsked'[v] > 0)
BY DEF AP!Ask, AP!TypeOK

LEMMA OnceIsCount ==
    ASSUME NEW V
    PROVE  /\ AP!Once(V) \in [aLists -> Nat]
           /\ \A v \in aLists : v \in V => AP!Once(V)[v] > 0
BY DEF AP!Once

-----------------------------------------------------------------------------
\* What the server makes of the call c: it is refused, answers with the mode, changes lists,
\* or sets the mode.
ServedAs(c, how, m, k) ==
    \/ /\ c.op = "settings" /\ how = "ok" /\ m = aMode /\ k = aNow["mode"]
       /\ UNCHANGED <<aMode, aNow, aMine>>
    \/ /\ c.op \notin ModeOps /\ how = "ok" /\ aMode' = aMode
       /\ aNow' = AP!Bumped(AP!Changes(c.op))
       /\ aMine' = [v \in AP!Views |-> IF v \in AP!Changes(c.op) THEN aNow'[v] ELSE aMine[v]]
    \/ /\ c.op = "mode" /\ how = "ok" /\ aMode' = c.mode
       /\ aNow' = AP!Bumped(AP!Changes(c.op))
       /\ aMine' = [v \in AP!Views |-> IF v \in AP!Changes(c.op) THEN aNow'[v] ELSE aMine[v]]
       /\ m = c.mode /\ k = aNow'["mode"]
    \/ c.op # "settings" /\ how = "refused" /\ UNCHANGED <<aMode, aNow, aMine>>

LEMMA AdminServed ==
    ASSUME AdminInv, NEW n \in DOMAIN aCalls, aCalls[n].at = "sent",
           NEW how \in {"ok", "refused"}, NEW m \in AP!REG_MODES \cup {"undefined"}, NEW k \in Nat,
           aCalls' = [aCalls EXCEPT ![n] = [@ EXCEPT !.at = how, !.mode = m, !.change = k]],
           ServedAs(aCalls[n], how, m, k),
           UNCHANGED <<aLists, aRole, aCurrentRole, aSlider, aCurrentRegMode,
                       aAdminPollInterval, aShown, aAsked, aAnswers, aClicks, aEvents, aExcused>>
    PROVE  AdminInv'
<1> DEFINE c == aCalls[n]
           d == [c EXCEPT !.at = how, !.mode = m, !.change = k]
<1>1. AP!TypeOK /\ aCalls \in Seq(AdminCall) /\ Asks \subseteq AdminCall
      /\ aLists \subseteq AllLists /\ "mode" \notin aLists /\ "mode" \in AP!Views
  BY ListsKnown DEF AdminInv
<1>2. c \in AdminCall /\ c.at = "sent"
  BY <1>1, ElementOfSeq
<1>3. /\ d \in AdminCall /\ d.op = c.op /\ d.at = how /\ d.mode = m /\ d.change = k
  BY <1>2 DEF AdminCall
<1>4. /\ aCalls' \in Seq(AdminCall) /\ c \in Asks /\ d \in Asks'
      /\ Asks' \subseteq Asks \cup {d} /\ Asks \ {c} \subseteq Asks'
  <2> HIDE DEF d
  <2>1. aCalls' = [aCalls EXCEPT ![n] = d]
    BY DEF d
  <2>2. LET t == [aCalls EXCEPT ![n] = d] IN
           /\ t \in Seq(AdminCall) /\ c \in ToSet(aCalls) /\ d \in ToSet(t)
           /\ ToSet(t) \subseteq ToSet(aCalls) \cup {d}
           /\ ToSet(aCalls) \ {c} \subseteq ToSet(t)
    BY <1>1, <1>3, ExceptSet
  <2> QED BY <2>1, <2>2 DEF Asks
<1>5. ServedAs(c, how, m, k) /\ Asks' \subseteq AdminCall
  BY <1>1, <1>3, <1>4
<1> HIDE DEF c, d
<1>6. /\ aNow' \in [AP!Views -> Nat] /\ aMine' \in [AP!Views -> Nat] /\ aMode' \in AP!REG_MODES
      /\ \A v \in AP!Views : /\ aNow'[v] >= aNow[v] /\ aMine'[v] <= aNow'[v]
                             /\ aMine'[v] # aMine[v] => how = "ok" /\ v \in AP!Changes(c.op)
      /\ aNow'["mode"] = aNow["mode"] => aMode' = aMode /\ aMine'["mode"] = aMine["mode"]
      /\ c.op # "mode" \/ how = "refused" => aNow'["mode"] = aNow["mode"]
      /\ c.op = "mode" /\ how = "ok" => aNow'["mode"] = aNow["mode"] + 1
  <2>1. c.op \in AP!Ops /\ (c.op = "mode" => c.mode \in AP!REG_MODES)
    BY <1>2, <1>4 DEF AdminCall, AdminInv, ModesAreKnown
  <2>2. CASE UNCHANGED <<aMode, aNow, aMine>> /\ (c.op # "mode" \/ how = "refused")
    BY <1>1, <2>2 DEF AdminInv, MineIsPast, AP!TypeOK
  <2>3. ASSUME aNow' = AP!Bumped(AP!Changes(c.op)), how = "ok",
               aMine' = [v \in AP!Views |-> IF v \in AP!Changes(c.op) THEN aNow'[v] ELSE aMine[v]]
        PROVE  /\ aNow' \in [AP!Views -> Nat] /\ aMine' \in [AP!Views -> Nat]
               /\ \A v \in AP!Views : /\ aNow'[v] >= aNow[v] /\ aMine'[v] <= aNow'[v]
                                      /\ aMine'[v] # aMine[v] => v \in AP!Changes(c.op)
               /\ c.op = "mode" => aNow'["mode"] = aNow["mode"] + 1
               /\ c.op # "mode" => aNow'["mode"] = aNow["mode"] /\ aMine'["mode"] = aMine["mode"]
    <3>1. /\ aNow' \in [AP!Views -> Nat]
          /\ \A v \in AP!Views : /\ aNow'[v] >= aNow[v]
                                 /\ v \in AP!Changes(c.op) => aNow'[v] = aNow[v] + 1
                                 /\ v \notin AP!Changes(c.op) => aNow'[v] = aNow[v]
      BY <1>1, <2>3, Bumps
    <3>2. /\ c.op = "mode" => "mode" \in AP!Changes(c.op)
          /\ c.op # "mode" => "mode" \notin AP!Changes(c.op)
      BY <2>1, WhatChanges DEF AllLists
    <3>3. aMine \in [AP!Views -> Nat] /\ \A v \in AP!Views : aMine[v] <= aNow[v] /\ aNow[v] \in Nat
      BY <1>1 DEF AdminInv, MineIsPast, AP!TypeOK
    <3>4. \A v \in AP!Views : aMine'[v] = IF v \in AP!Changes(c.op) THEN aNow'[v] ELSE aMine[v]
      BY <2>3
    <3>5. aMine' \in [AP!Views -> Nat]
      BY <2>3, <3>1, <3>3
    <3> QED BY <1>1, <3>1, <3>2, <3>3, <3>4, <3>5
  <2>4. CASE c.op \notin ModeOps /\ how = "ok"
    BY <1>1, <1>5, <2>3, <2>4 DEF ServedAs, ModeOps, AP!TypeOK
  <2>5. CASE c.op = "mode" /\ how = "ok"
    <3>1. aNow["mode"] \in Nat
      BY <1>1 DEF AP!TypeOK
    <3> QED BY <1>1, <1>5, <2>1, <2>3, <2>5, <3>1 DEF ServedAs, ModeOps
  <2> QED BY <1>5, <2>2, <2>4, <2>5 DEF ServedAs, ModeOps
<1>7. AP!TypeOK'
  BY <1>1, <1>4, <1>6 DEF AP!TypeOK, AP!Views, AdminCall
<1>8. MineIsPast'
  BY <1>6 DEF MineIsPast, AP!Views
<1>9. ListsMove'
  <2> SUFFICES ASSUME NEW v \in aLists \ aExcused PROVE ListMoved(v)'
    BY DEF ListsMove
  <2>1. ListMoved(v) /\ v \in AP!Views
    BY DEF AdminInv, ListsMove, AP!Views
  <2>2. CASE aMine'[v] # aMine[v]
    BY <1>3, <1>4, <1>6, <2>1, <2>2 DEF ListMoved
  <2>3. CASE aMine'[v] = aMine[v]
    BY <1>2, <1>3, <1>4, <2>1, <2>3 DEF ListMoved
  <2> QED BY <2>2, <2>3
<1>10. ModesAreKnown'
  <2>1. aNow["mode"] \in Nat /\ aNow'["mode"] \in Nat /\ aShown["mode"] \in Nat
        /\ \A e \in Asks : e.change \in Nat
    BY <1>1, <1>6 DEF AP!TypeOK, AdminCall
  <2>2. /\ c.op = "settings" /\ how = "ok" => m = aMode /\ k = aNow["mode"] /\ aMode' = aMode
        /\ c.op = "mode" /\ how = "ok" => m = aMode' /\ k = aNow'["mode"]
    BY <1>5 DEF ServedAs, ModeOps
  <2>3. \A e \in Asks : /\ e.op = "mode" /\ e.at = "sent" => e.mode \in AP!REG_MODES
                        /\ e.at = "ok" /\ e.op \in ModeOps =>
                             /\ e.change <= aNow["mode"]
                             /\ e.change = aNow["mode"] => e.mode = aMode
    BY DEF AdminInv, ModesAreKnown
  <2>4. aShown["mode"] <= aNow["mode"]
    BY DEF AdminInv, ModesAreKnown
  <2>5. aNow'["mode"] \in {aNow["mode"], aNow["mode"] + 1}
        /\ (aNow'["mode"] = aNow["mode"] => aMode' = aMode)
    BY <1>5, <1>6 DEF ServedAs, ModeOps
  <2>6. ASSUME NEW e \in Asks'
        PROVE  /\ e.op = "mode" /\ e.at = "sent" => e.mode \in AP!REG_MODES
               /\ e.at = "ok" /\ e.op \in ModeOps =>
                    /\ e.change <= aNow'["mode"]
                    /\ e.change = aNow'["mode"] => e.mode = aMode'
    <3>1. CASE e = d
      BY <1>3, <1>6, <2>1, <2>2, <3>1 DEF ModeOps
    <3>2. CASE e \in Asks
      BY <2>1, <2>3, <2>5, <3>2
    <3> QED BY <1>4, <3>1, <3>2
  <2> QED BY <2>1, <2>4, <2>5, <2>6 DEF ModesAreKnown
<1>11. ModeMoved'
  <2> SUFFICES ASSUME "mode" \notin aExcused PROVE ModeMoved'
    BY DEF ModeMoved
  <2>1. aNow["mode"] \in Nat /\ aShown["mode"] \in Nat /\ aShown["mode"] <= aNow["mode"]
    BY <1>1 DEF AP!TypeOK, AdminInv, ModesAreKnown
  <2>2. CASE c.op = "mode" /\ how = "ok"
    <3>1. aShown'["mode"] # aNow'["mode"]
      BY <1>6, <2>1, <2>2
    <3>2. k = aNow'["mode"]
      BY <1>5, <2>2 DEF ServedAs, ModeOps
    <3> QED BY <1>3, <1>4, <2>2, <3>1, <3>2 DEF ModeMoved, ModeOps
  <2>3. CASE ~(c.op = "mode" /\ how = "ok")
    <3>1. aNow'["mode"] = aNow["mode"] /\ aMode' = aMode /\ aMine'["mode"] = aMine["mode"]
      BY <1>5, <1>6, <2>3
    <3>2. c.op = "settings" => how = "ok" /\ k = aNow["mode"]
      BY <1>5 DEF ServedAs, ModeOps
    <3> QED BY <1>2, <1>3, <1>4, <3>1, <3>2 DEF AdminInv, ModeMoved, ModeOps
  <2> QED BY <2>2, <2>3
<1>12. AP!PollFollows'
  BY DEF AdminInv, AP!PollFollows
<1> QED BY <1>7, <1>8, <1>9, <1>10, <1>11, <1>12 DEF AdminInv

\* The server handles a request.
LEMMA AdminServe ==
    ASSUME AdminInv, NEW n \in DOMAIN aCalls, AP!Serve(n)
    PROVE  AdminInv'
<1> DEFINE c == aCalls[n]
<1>1. /\ UNCHANGED <<aLists, aRole, aCurrentRole, aSlider, aCurrentRegMode, aAdminPollInterval,
                     aShown, aAsked, aAnswers, aClicks, aEvents, aExcused>>
      /\ c.at = "sent"
  BY DEF AP!Serve, AP!page, AP!bounds
<1>2. AP!TypeOK /\ c \in AdminCall
  BY ListsKnown, ElementOfSeq DEF AdminInv
<1>3. /\ aMode \in AP!REG_MODES /\ aNow["mode"] \in Nat
      /\ c.mode \in AP!REG_MODES \cup {"undefined"}
      /\ \A V : AP!Bumped(V)["mode"] \in Nat
  <2>1. "mode" \in AP!Views
    BY DEF AP!Views
  <2> QED BY <1>2, <2>1, Bumps DEF AP!TypeOK, AdminCall
<1>4. CASE c.op = "settings"
  <2>1. /\ UNCHANGED <<aMode, aNow, aMine>>
        /\ aCalls' = [aCalls EXCEPT ![n] =
              [@ EXCEPT !.at = "ok", !.mode = aMode, !.change = aNow["mode"]]]
    BY <1>4 DEF AP!Serve
  <2>2. ServedAs(c, "ok", aMode, aNow["mode"])
    BY <1>4, <2>1 DEF ServedAs
  <2> QED BY <1>1, <1>3, <2>1, <2>2, AdminServed
<1>5. CASE c.op # "settings"
  <2>1. \/ /\ aNow' = AP!Bumped(AP!Changes(c.op))
           /\ aMine' = [v \in AP!Views |-> IF v \in AP!Changes(c.op) THEN aNow'[v] ELSE aMine[v]]
           /\ aMode' = (IF c.op = "mode" THEN c.mode ELSE aMode)
           /\ aCalls' = [aCalls EXCEPT ![n] =
                 [@ EXCEPT !.at = "ok", !.mode = c.mode,
                           !.change = IF c.op = "mode" THEN aNow'["mode"] ELSE 0]]
        \/ /\ UNCHANGED <<aMode, aNow, aMine>>
           /\ aCalls' = [aCalls EXCEPT ![n] =
                 [@ EXCEPT !.at = "refused", !.mode = "undefined", !.change = 0]]
    BY <1>5 DEF AP!Serve
  <2>2. CASE UNCHANGED <<aMode, aNow, aMine>>
             /\ aCalls' = [aCalls EXCEPT ![n] =
                   [@ EXCEPT !.at = "refused", !.mode = "undefined", !.change = 0]]
    <3>1. ServedAs(c, "refused", "undefined", 0)
      BY <1>5, <2>2 DEF ServedAs
    <3>2. "undefined" \in AP!REG_MODES \cup {"undefined"} /\ "refused" \in {"ok", "refused"}
      OBVIOUS
    <3> QED BY <1>1, <2>2, <3>1, <3>2, AdminServed
  <2>3. CASE /\ aNow' = AP!Bumped(AP!Changes(c.op))
             /\ aMine' = [v \in AP!Views |-> IF v \in AP!Changes(c.op) THEN aNow'[v]
                                             ELSE aMine[v]]
             /\ aMode' = (IF c.op = "mode" THEN c.mode ELSE aMode)
             /\ aCalls' = [aCalls EXCEPT ![n] =
                   [@ EXCEPT !.at = "ok", !.mode = c.mode,
                             !.change = IF c.op = "mode" THEN aNow'["mode"] ELSE 0]]
    <3> DEFINE k == IF c.op = "mode" THEN aNow'["mode"] ELSE 0
    <3>1. ServedAs(c, "ok", c.mode, k)
      BY <1>5, <2>3 DEF ServedAs, ModeOps
    <3>2. k \in Nat
      BY <1>3, <2>3
    <3>3. aCalls' = [aCalls EXCEPT ![n] = [@ EXCEPT !.at = "ok", !.mode = c.mode, !.change = k]]
      BY <2>3
    <3> HIDE DEF k
    <3> QED BY <1>1, <1>3, <3>1, <3>2, <3>3, AdminServed
  <2> QED BY <2>1, <2>2, <2>3
<1> QED BY <1>4, <1>5

-----------------------------------------------------------------------------
\* Someone else changes what is in V.
LEMMA ChangedElsewhere ==
    ASSUME AdminInv, NEW V, aNow' = AP!Bumped(V), AP!TypeOK',
           "mode" \in V \/ aMode' = aMode,
           UNCHANGED <<aLists, aCurrentRole, aSlider, aCurrentRegMode, aAdminPollInterval,
                       aShown, aAsked, aAnswers, aCalls, aMine, aExcused>>
    PROVE  AdminInv'
<1>1. AP!TypeOK /\ "mode" \in AP!Views /\ Asks \subseteq AdminCall
  BY ListsKnown DEF AdminInv
<1>2. /\ aNow' \in [AP!Views -> Nat] /\ aNow \in [AP!Views -> Nat] /\ aMine \in [AP!Views -> Nat]
      /\ aShown \in [AP!Views -> Nat]
      /\ \A v \in AP!Views : aNow'[v] >= aNow[v]
      /\ "mode" \in V => aNow'["mode"] = aNow["mode"] + 1
      /\ "mode" \notin V => aNow'["mode"] = aNow["mode"]
  BY <1>1, Bumps DEF AP!TypeOK
<1>3. MineIsPast'
  BY <1>2 DEF AdminInv, MineIsPast, AP!Views
<1>4. ListsMove'
  BY DEF AdminInv, ListsMove, ListMoved, Asks
<1>5. Asks' = Asks /\ \A c \in Asks : c.change \in Nat
  BY <1>1 DEF Asks, AdminCall
<1>6. CASE "mode" \in V
  <2>1. ModesAreKnown'
    BY <1>1, <1>2, <1>5, <1>6 DEF AdminInv, ModesAreKnown
  <2>2. ModeMoved'
    BY <1>1, <1>2, <1>5, <1>6 DEF AdminInv, ModeMoved, ModesAreKnown, MineIsPast
  <2> QED BY <1>3, <1>4, <2>1, <2>2 DEF AdminInv, AP!PollFollows
<1>7. CASE "mode" \notin V
  <2>1. aNow'["mode"] = aNow["mode"] /\ aMode' = aMode
    BY <1>2, <1>7
  <2>2. ModesAreKnown' /\ ModeMoved'
    BY <1>5, <2>1 DEF AdminInv, ModesAreKnown, ModeMoved
  <2> QED BY <1>3, <1>4, <2>2 DEF AdminInv, AP!PollFollows
<1> QED BY <1>6, <1>7

LEMMA AdminElsewhere ==
    ASSUME AdminInv,
           \/ \E V \in SUBSET AllLists : AP!Elsewhere(V)
           \/ \E r \in {"admin", "moderator", "user"} : AP!RoleElsewhere(r)
           \/ \E m \in AP!REG_MODES : AP!ModeElsewhere(m)
    PROVE  AdminInv'
<1>1. AP!TypeOK
  BY DEF AdminInv
<1>2. aEvents < AdminEvents => aEvents + 1 \in 0 .. AdminEvents
  BY <1>1, AdminPageAssumption DEF AP!TypeOK
<1>3. PICK V : /\ aNow' = AP!Bumped(V)
               /\ "mode" \in V \/ aMode' = aMode
               /\ UNCHANGED <<aLists, aCurrentRole, aSlider, aCurrentRegMode, aAdminPollInterval,
                              aShown, aAsked, aAnswers, aCalls, aMine, aExcused, aClicks>>
               /\ aEvents < AdminEvents /\ aEvents' = aEvents + 1
               /\ aRole' \in {"admin", "moderator", "user"} /\ aMode' \in AP!REG_MODES
  <2>1. CASE \E V \in SUBSET AllLists : AP!Elsewhere(V)
    BY <1>1, <2>1 DEF AP!Elsewhere, AP!Event, AP!page, AP!TypeOK
  <2>2. CASE \E r \in {"admin", "moderator", "user"} : AP!RoleElsewhere(r)
    BY <1>1, <2>2 DEF AP!RoleElsewhere, AP!Event, AP!page, AP!TypeOK
  <2>3. CASE \E m \in AP!REG_MODES : AP!ModeElsewhere(m)
    BY <1>1, <2>3 DEF AP!ModeElsewhere, AP!Event, AP!page, AP!TypeOK
  <2> QED BY <2>1, <2>2, <2>3
<1>4. aNow' \in [AP!Views -> Nat]
  BY <1>1, <1>3, Bumps
<1>5. AP!TypeOK'
  BY <1>1, <1>2, <1>3, <1>4 DEF AP!TypeOK, AP!Views
<1> QED BY <1>3, <1>5, ChangedElsewhere

-----------------------------------------------------------------------------
\* What is asked for, clicked and moved.
LEMMA AdminAsks ==
    ASSUME AdminInv, AP!Tick \/ AP!OpenBackups
    PROVE  AdminInv'
<1>1. AP!TypeOK
  BY DEF AdminInv
<1>2. /\ UNCHANGED <<aLists, aRole, aMode, aNow, aCurrentRole, aSlider, aCurrentRegMode,
                     aAdminPollInterval, aShown, aAnswers, aCalls, aEvents, aMine, aExcused>>
      /\ aClicks' = aClicks \/ (aClicks < AdminCalls /\ aClicks' = aClicks + 1)
      /\ \E V : AP!Ask(AP!Once(V))
  BY DEF AP!Tick, AP!OpenBackups, AP!Clicked, AP!server, AP!page, AP!bounds
<1>3. /\ aAsked' \in [aLists -> Nat]
      /\ \A v \in aLists : aAsked'[v] >= aAsked[v] /\ aAsked[v] \in Nat /\ aAsked'[v] \in Nat
  <2>1. /\ aAsked' \in [aLists -> Nat] /\ \A v \in aLists : aAsked'[v] >= aAsked[v]
    BY <1>1, <1>2, OnceIsCount, Asked
  <2> QED BY <1>1, <2>1 DEF AP!TypeOK
<1>4. aClicks' \in 0 .. AdminCalls
  BY <1>1, <1>2, AdminPageAssumption DEF AP!TypeOK
<1>5. AP!TypeOK'
  BY <1>1, <1>2, <1>3, <1>4 DEF AP!TypeOK, AP!Views
<1>6. ListsMove'
  BY <1>2, <1>3 DEF AdminInv, ListsMove, ListMoved, Asks
<1> QED BY <1>2, <1>5, <1>6
        DEF AdminInv, MineIsPast, ModesAreKnown, ModeMoved, AP!PollFollows, AP!Views, Asks

LEMMA AdminLog ==
    ASSUME AdminInv, AP!loadSystemLog
    PROVE  AdminInv'
<1>1. AP!TypeOK /\ "mode" \notin aLists /\ "log" \in aLists /\ "log" \in AP!Views
  BY ListsKnown DEF AdminInv, AP!loadSystemLog, AP!Room, AP!Views
<1>2. /\ UNCHANGED <<aLists, aRole, aMode, aCurrentRole, aSlider, aCurrentRegMode,
                     aAdminPollInterval, aShown, aAsked, aCalls, aEvents, aExcused>>
      /\ aClicks < AdminCalls /\ aClicks' = aClicks + 1
      /\ aNow' = AP!Bumped({"log"}) /\ aMine' = [aMine EXCEPT !["log"] = aNow'["log"]]
      /\ aAnswers' = [aAnswers EXCEPT !["log"] = Append(@, aNow'["log"])]
  BY DEF AP!loadSystemLog, AP!Clicked, AP!page
<1>3. /\ aNow' \in [AP!Views -> Nat]
      /\ \A v \in AP!Views : aNow'[v] >= aNow[v] /\ (v # "log" => aNow'[v] = aNow[v])
      /\ aNow'["log"] \in Nat
  BY <1>1, <1>2, Bumps
<1>4. /\ Append(aAnswers["log"], aNow'["log"]) \in Seq(Nat)
      /\ ToSet(Append(aAnswers["log"], aNow'["log"])) = ToSet(aAnswers["log"]) \cup {aNow'["log"]}
  <2>1. aAnswers["log"] \in Seq(Nat) /\ aNow'["log"] \in Nat
    BY <1>1, <1>3 DEF AP!TypeOK
  <2> QED BY <2>1, AppendSet
<1>5. /\ aAnswers' \in [aLists -> Seq(Nat)] /\ aNow'["log"] \in ToSet(aAnswers'["log"])
      /\ \A v \in aLists : v # "log" => aAnswers'[v] = aAnswers[v]
  BY <1>1, <1>2, <1>4 DEF AP!TypeOK
<1>6. /\ aMine' \in [AP!Views -> Nat] /\ aMine'["log"] = aNow'["log"]
      /\ \A v \in AP!Views : v # "log" => aMine'[v] = aMine[v]
  BY <1>1, <1>2, <1>3 DEF AP!TypeOK
<1>7. AP!TypeOK'
  <2>1. aClicks' \in 0 .. AdminCalls
    BY <1>1, <1>2, AdminPageAssumption DEF AP!TypeOK
  <2> QED BY <1>1, <1>2, <1>3, <1>5, <1>6, <2>1 DEF AP!TypeOK, AP!Views
<1>8. MineIsPast'
  BY <1>1, <1>2, <1>3, <1>6 DEF AdminInv, MineIsPast, AP!Views
<1>9. ListsMove'
  <2> SUFFICES ASSUME NEW v \in aLists \ aExcused PROVE ListMoved(v)'
    BY <1>2 DEF ListsMove
  <2>1. ListMoved(v) /\ v \in AP!Views
    BY DEF AdminInv, ListsMove, AP!Views
  <2>2. CASE v = "log"
    BY <1>3, <1>5, <1>6, <2>2 DEF ListMoved
  <2>3. CASE v # "log"
    BY <1>2, <1>5, <1>6, <2>1, <2>3 DEF ListMoved, Asks
  <2> QED BY <2>2, <2>3
<1>10. aNow'["mode"] = aNow["mode"] /\ aMine'["mode"] = aMine["mode"]
  BY <1>3, <1>6 DEF AP!Views
<1> QED BY <1>2, <1>7, <1>8, <1>9, <1>10
        DEF AdminInv, ModesAreKnown, ModeMoved, AP!PollFollows, Asks

LEMMA AdminClicks ==
    ASSUME AdminInv,
           \/ \E op \in AP!Ops : AP!Click(op)
           \/ \E m \in AP!REG_MODES : AP!setRegistrationMode(m)
    PROVE  AdminInv'
<1>1. AP!TypeOK /\ aCalls \in Seq(AdminCall)
  BY ListsKnown DEF AdminInv
<1>2. PICK op \in AP!Ops, m \in AP!REG_MODES \cup {"undefined"} :
        /\ aCalls' = Append(aCalls, AP!Call(op, m)) /\ op # "settings"
        /\ op = "mode" => m \in AP!REG_MODES
        /\ op = "mode" \/ aSlider' = aSlider
        /\ aSlider' \in AP!REG_MODES
        /\ aClicks < AdminCalls /\ aClicks' = aClicks + 1
        /\ UNCHANGED <<aLists, aRole, aMode, aNow, aCurrentRole, aCurrentRegMode,
                       aAdminPollInterval, aShown, aAsked, aAnswers, aEvents, aMine, aExcused>>
  <2>1. CASE \E op \in AP!Ops : AP!Click(op)
    <3>1. PICK op \in AP!Ops : AP!Click(op)
      BY <2>1
    <3>2. "undefined" \in AP!REG_MODES \cup {"undefined"} /\ aSlider \in AP!REG_MODES
      BY <1>1 DEF AP!TypeOK
    <3>3. /\ aCalls' = Append(aCalls, AP!Call(op, "undefined")) /\ op # "settings" /\ op # "mode"
          /\ aClicks < AdminCalls /\ aClicks' = aClicks + 1
          /\ UNCHANGED <<aLists, aRole, aMode, aNow, aCurrentRole, aCurrentRegMode, aSlider,
                       aAdminPollInterval, aShown, aAsked, aAnswers, aEvents, aMine, aExcused>>
      BY <3>1 DEF AP!Click, AP!Clicked, AP!server, AP!page
    <3> QED BY <3>2, <3>3
  <2>2. CASE \E m \in AP!REG_MODES : AP!setRegistrationMode(m)
    <3>1. PICK m \in AP!REG_MODES : AP!setRegistrationMode(m)
      BY <2>2
    <3>2. "mode" \in AP!Ops /\ m \in AP!REG_MODES \cup {"undefined"}
      BY DEF AP!Ops
    <3>3. /\ aCalls' = Append(aCalls, AP!Call("mode", m)) /\ aSlider' = m
          /\ aClicks < AdminCalls /\ aClicks' = aClicks + 1
          /\ UNCHANGED <<aLists, aRole, aMode, aNow, aCurrentRole, aCurrentRegMode,
                       aAdminPollInterval, aShown, aAsked, aAnswers, aEvents, aMine, aExcused>>
      BY <3>1 DEF AP!setRegistrationMode, AP!Clicked, AP!server
    <3> QED BY <3>2, <3>3
  <2> QED BY <2>1, <2>2
<1> DEFINE c == AP!Call(op, m)
<1>3. c \in AdminCall /\ c.op = op /\ c.at = "sent" /\ c.mode = m
  BY DEF AP!Call, AdminCall
<1> HIDE DEF c
<1>4. aCalls' \in Seq(AdminCall) /\ Asks' = Asks \cup {c}
  <2>1. Append(aCalls, c) \in Seq(AdminCall) /\ ToSet(Append(aCalls, c)) = ToSet(aCalls) \cup {c}
    BY <1>1, <1>3, AppendSet
  <2>2. aCalls' = Append(aCalls, c)
    BY <1>2 DEF c
  <2> QED BY <2>1, <2>2 DEF Asks
<1>5. AP!TypeOK'
  <2>1. aClicks' \in 0 .. AdminCalls
    BY <1>1, <1>2, AdminPageAssumption DEF AP!TypeOK
  <2> QED BY <1>1, <1>2, <1>4, <2>1 DEF AP!TypeOK, AP!Views, AdminCall
<1>6. ListsMove'
  BY <1>2, <1>4 DEF AdminInv, ListsMove, ListMoved
<1>7. ModesAreKnown'
  BY <1>2, <1>3, <1>4 DEF AdminInv, ModesAreKnown
<1>8. ModeMoved'
  BY <1>2, <1>3, <1>4 DEF AdminInv, ModeMoved, ModeOps
<1> QED BY <1>2, <1>5, <1>6, <1>7, <1>8 DEF AdminInv, MineIsPast, AP!PollFollows, AP!Views

-----------------------------------------------------------------------------
\* A load of a list is served, or lost.
LEMMA AdminLoad ==
    ASSUME AdminInv, NEW v \in aLists, AP!ServeLoad(v) \/ AP!LoadLost(v)
    PROVE  AdminInv'
<1>1. AP!TypeOK /\ "mode" \notin aLists /\ v \in AP!Views
  BY ListsKnown DEF AdminInv, AP!Views
<1>2. /\ UNCHANGED <<aLists, aRole, aMode, aNow, aCurrentRole, aSlider, aCurrentRegMode,
                     aAdminPollInterval, aShown, aCalls, aClicks, aMine>>
      /\ aAsked[v] > 0 /\ aAsked' = [aAsked EXCEPT ![v] = @ - 1]
      /\ aEvents' = aEvents \/ (aEvents < AdminEvents /\ aEvents' = aEvents + 1)
      /\ \/ aExcused' = aExcused \cup {v} /\ aAnswers' = aAnswers
         \/ /\ aExcused' = aExcused
            /\ aAnswers' = [aAnswers EXCEPT ![v] = Append(@, aNow[v])]
  BY DEF AP!ServeLoad, AP!LoadLost, AP!Event, AP!server, AP!page, AP!bounds
<1>3. /\ aAsked' \in [aLists -> Nat]
      /\ \A w \in aLists : w # v => aAsked'[w] = aAsked[w]
  BY <1>1, <1>2 DEF AP!TypeOK
<1>4. aEvents' \in 0 .. AdminEvents
  BY <1>1, <1>2, AdminPageAssumption DEF AP!TypeOK
<1>5. /\ aAnswers' \in [aLists -> Seq(Nat)]
      /\ \A w \in aLists : w # v => aAnswers'[w] = aAnswers[w]
      /\ v \in aExcused' \/ aNow[v] \in ToSet(aAnswers'[v])
  <2>1. aAnswers[v] \in Seq(Nat) /\ aNow[v] \in Nat
    BY <1>1 DEF AP!TypeOK
  <2>2. /\ Append(aAnswers[v], aNow[v]) \in Seq(Nat)
        /\ aNow[v] \in ToSet(Append(aAnswers[v], aNow[v]))
    BY <2>1, AppendSet
  <2> QED BY <1>1, <1>2, <2>2 DEF AP!TypeOK
<1>6. AP!TypeOK'
  BY <1>1, <1>2, <1>3, <1>4, <1>5 DEF AP!TypeOK, AP!Views
<1>7. ListsMove'
  <2> SUFFICES ASSUME NEW w \in aLists, w \notin aExcused' PROVE ListMoved(w)'
    BY <1>2 DEF ListsMove
  <2>1. CASE w = v
    <3>1. aNow[v] >= aMine[v]
      BY <1>1 DEF AdminInv, MineIsPast, AP!TypeOK
    <3> QED BY <1>2, <1>5, <2>1, <3>1 DEF ListMoved
  <2>2. CASE w # v
    BY <1>2, <1>3, <1>5, <2>2 DEF AdminInv, ListsMove, ListMoved, Asks
  <2> QED BY <2>1, <2>2
<1>8. "mode" \in aExcused' <=> "mode" \in aExcused
  BY <1>1, <1>2
<1> QED BY <1>2, <1>6, <1>7, <1>8
        DEF AdminInv, MineIsPast, ModesAreKnown, ModeMoved, AP!PollFollows, AP!Views, Asks

\* An answer is drawn.
LEMMA AdminDraw ==
    ASSUME AdminInv, NEW v \in aLists, NEW i \in DOMAIN aAnswers[v], AP!Draw(v, i)
    PROVE  AdminInv'
<1> DEFINE k == aAnswers[v][i]
<1>1. AP!TypeOK /\ "mode" \notin aLists /\ v \in AP!Views
  BY ListsKnown DEF AdminInv, AP!Views
<1>2. /\ aAnswers[v] \in Seq(Nat) /\ k \in Nat
      /\ RemoveAt(aAnswers[v], i) \in Seq(Nat)
      /\ ToSet(aAnswers[v]) \ {k} \subseteq ToSet(RemoveAt(aAnswers[v], i))
  <2>1. aAnswers[v] \in Seq(Nat)
    BY <1>1 DEF AP!TypeOK
  <2> QED BY <2>1, RemoveAtSet, ElementOfSeq
<1>3. /\ UNCHANGED <<aLists, aRole, aMode, aNow, aCurrentRole, aSlider, aCurrentRegMode,
                     aAdminPollInterval, aAsked, aCalls, aClicks, aEvents, aMine>>
      /\ aShown' = [aShown EXCEPT ![v] = k]
      /\ aExcused' = (IF k < aShown[v] THEN aExcused \cup {v}
                      ELSE IF k = aNow[v] THEN aExcused \ {v} ELSE aExcused)
  BY DEF AP!Draw, AP!Redrawn, AP!server, AP!page, AP!bounds
<1>4. aAnswers' = [aAnswers EXCEPT ![v] = RemoveAt(@, i)]
  BY DEF AP!Draw, AP!RemoveAt, RemoveAt
<1> HIDE DEF k
<1>5. /\ aAnswers' \in [aLists -> Seq(Nat)]
      /\ \A w \in aLists : w # v => aAnswers'[w] = aAnswers[w]
      /\ ToSet(aAnswers[v]) \ {k} \subseteq ToSet(aAnswers'[v])
  BY <1>1, <1>2, <1>4 DEF AP!TypeOK
<1>6. /\ aShown' \in [AP!Views -> Nat] /\ aShown'[v] = k
      /\ \A w \in AP!Views : w # v => aShown'[w] = aShown[w]
  BY <1>1, <1>2, <1>3 DEF AP!TypeOK
<1>7. AP!TypeOK'
  BY <1>1, <1>3, <1>5, <1>6 DEF AP!TypeOK, AP!Views
<1>8. ListsMove'
  <2> SUFFICES ASSUME NEW w \in aLists, w \notin aExcused' PROVE ListMoved(w)'
    BY <1>3 DEF ListsMove
  <2>1. CASE w = v
    <3>1. aNow[v] >= aMine[v] /\ aMine[v] \in Nat /\ aNow[v] \in Nat /\ aShown[v] \in Nat
          /\ k \in Nat
      BY <1>1, <1>2 DEF AdminInv, MineIsPast, AP!TypeOK
    <3>2. CASE k = aNow[v]
      BY <1>3, <1>6, <2>1, <3>1, <3>2 DEF ListMoved
    <3>3. CASE k # aNow[v]
      <4>1. k >= aShown[v] /\ ListMoved(v)
        BY <1>3, <2>1, <3>1, <3>3 DEF AdminInv, ListsMove
      <4>2. CASE k >= aMine[v]
        BY <1>3, <1>6, <2>1, <4>2 DEF ListMoved
      <4>3. CASE ~(k >= aMine[v])
        <5>1. ~(aShown[v] >= aMine[v])
          BY <3>1, <4>1, <4>3
        <5> QED BY <1>3, <1>5, <2>1, <4>1, <4>3, <5>1 DEF ListMoved, Asks
      <4> QED BY <4>2, <4>3
    <3> QED BY <3>2, <3>3
  <2>2. CASE w # v
    BY <1>1, <1>3, <1>5, <1>6, <2>2 DEF AdminInv, ListsMove, ListMoved, Asks, AP!Views
  <2> QED BY <2>1, <2>2
<1>9. ("mode" \in aExcused' <=> "mode" \in aExcused) /\ aShown'["mode"] = aShown["mode"]
  BY <1>1, <1>3, <1>6 DEF AP!Views
<1> QED BY <1>3, <1>7, <1>8, <1>9
        DEF AdminInv, MineIsPast, ModesAreKnown, ModeMoved, AP!PollFollows, AP!Views, Asks

-----------------------------------------------------------------------------
LEMMA AdminFinish ==
    ASSUME AdminInv, NEW n \in DOMAIN aCalls, AP!Finish(n)
    PROVE  /\ aCalls' \in Seq(AdminCall) /\ aCalls[n] \in AdminCall /\ aCalls[n] \in Asks
           /\ Asks' \subseteq Asks /\ Asks \ {aCalls[n]} \subseteq Asks'
<1>1. aCalls \in Seq(AdminCall)
  BY ListsKnown DEF AdminInv
<1>2. aCalls' = RemoveAt(aCalls, n)
  BY DEF AP!Finish, AP!RemoveAt, RemoveAt
<1> QED BY <1>1, <1>2, RemoveAtSet DEF Asks

\* The reply to a request that changes lists, and the loss of one.
LEMMA AdminReplied ==
    ASSUME AdminInv, NEW n \in DOMAIN aCalls, AP!Replied(n) \/ AP!Lost(n)
    PROVE  AdminInv'
<1> DEFINE c == aCalls[n]
<1>1. AP!TypeOK /\ "mode" \notin aLists /\ aLists \subseteq AllLists
  BY ListsKnown DEF AdminInv
<1>2. /\ aCalls' \in Seq(AdminCall) /\ c \in AdminCall /\ c \in Asks
      /\ Asks' \subseteq Asks /\ Asks \ {c} \subseteq Asks'
  BY AdminFinish DEF AP!Replied, AP!Lost
<1>3. /\ UNCHANGED <<aLists, aRole, aMode, aNow, aCurrentRole, aSlider, aCurrentRegMode,
                     aAdminPollInterval, aShown, aAnswers, aClicks, aMine>>
      /\ aEvents' = aEvents \/ (aEvents < AdminEvents /\ aEvents' = aEvents + 1)
      /\ \/ /\ c.op \notin ModeOps /\ AP!Ask(AP!Once(AP!Reloads(c.op, c.at)))
            /\ aExcused' = IF c.op = "delete" /\ c.at = "ok"
                           THEN aExcused \cup ({"preferences"} \cap aLists) ELSE aExcused
         \/ /\ aAsked' = aAsked
            /\ aExcused' = aExcused \cup (IF c.op = "settings" THEN AP!Views
                                          ELSE AP!Changes(c.op) \cap AP!Views)
  BY DEF AP!Replied, AP!Lost, AP!Event, AP!server, AP!page, AP!bounds, ModeOps
<1> HIDE DEF c
<1>4. /\ aAsked' \in [aLists -> Nat]
      /\ \A w \in aLists : aAsked[w] > 0 => aAsked'[w] > 0
      /\ \/ /\ c.op \notin ModeOps
            /\ \A w \in aLists : w \in AP!Reloads(c.op, c.at) => aAsked'[w] > 0
         \/ /\ aExcused' = aExcused \cup (IF c.op = "settings" THEN AP!Views
                                          ELSE AP!Changes(c.op) \cap AP!Views)
  <2> DEFINE N == AP!Once(AP!Reloads(c.op, c.at))
  <2>1. CASE aAsked' = aAsked
    BY <1>1, <1>3, <2>1, OnceIsCount DEF AP!TypeOK, AP!Ask
  <2>2. CASE AP!Ask(N)
    <3>1. N \in [aLists -> Nat] /\ \A w \in aLists : w \in AP!Reloads(c.op, c.at) => N[w] > 0
      BY OnceIsCount
    <3> HIDE DEF N
    <3>2. /\ aAsked' \in [aLists -> Nat]
          /\ \A w \in aLists : aAsked'[w] >= aAsked[w] /\ (N[w] > 0 => aAsked'[w] > 0)
      BY <1>1, <2>2, <3>1, Asked
    <3>3. \A w \in aLists : aAsked[w] \in Nat /\ aAsked'[w] \in Nat
      BY <1>1, <3>2 DEF AP!TypeOK
    <3> QED BY <1>3, <3>1, <3>2, <3>3
  <2> QED BY <1>3, <2>1, <2>2
<1>5. aEvents' \in 0 .. AdminEvents
  BY <1>1, <1>3, AdminPageAssumption DEF AP!TypeOK
<1>6. aExcused \subseteq aExcused' /\ aExcused' \subseteq AP!Views
  BY <1>1, <1>3 DEF AP!TypeOK, AP!Views
<1>7. AP!TypeOK'
  BY <1>1, <1>2, <1>3, <1>4, <1>5, <1>6 DEF AP!TypeOK, AP!Views, AdminCall
<1>8. c.op \in AP!Ops /\ c.at \in {"sent", "ok", "refused"}
  BY <1>2 DEF AdminCall
<1>9. ListsMove'
  <2> SUFFICES ASSUME NEW w \in aLists, w \notin aExcused' PROVE ListMoved(w)'
    BY <1>3 DEF ListsMove
  <2>1. ListMoved(w) /\ w \in AP!Views
    BY <1>6 DEF AdminInv, ListsMove, AP!Views
  <2>2. c.op = "settings" => FALSE
    BY <1>4, <2>1 DEF ModeOps
  <2>3. c.at = "ok" /\ w \in AP!Changes(c.op) => aAsked'[w] > 0
    <3>1. CASE c.op \notin ModeOps /\ \A u \in aLists : u \in AP!Reloads(c.op, c.at) => aAsked'[u] > 0
      BY <1>3, <1>8, <2>1, <3>1, WhatChanges
    <3>2. CASE aExcused' = aExcused \cup (IF c.op = "settings" THEN AP!Views
                                          ELSE AP!Changes(c.op) \cap AP!Views)
      BY <2>1, <3>2
    <3> QED BY <1>4, <3>1, <3>2
  <2> QED BY <1>2, <1>3, <1>4, <2>1, <2>2, <2>3 DEF ListMoved
<1>10. ModesAreKnown'
  BY <1>2, <1>3 DEF AdminInv, ModesAreKnown
<1>11. ModeMoved'
  <2> SUFFICES ASSUME "mode" \notin aExcused' PROVE ModeMoved'
    BY DEF ModeMoved
  <2>1. c.op \notin ModeOps
    <3>1. "mode" \in AP!Views
      BY DEF AP!Views
    <3> QED BY <1>4, <1>8, <3>1, WhatChanges DEF ModeOps
  <2> QED BY <1>2, <1>3, <1>6, <2>1 DEF AdminInv, ModeMoved, ModeOps
<1> QED BY <1>3, <1>7, <1>9, <1>10, <1>11 DEF AdminInv, MineIsPast, AP!PollFollows, AP!Views

\* The page learns the mode.
LEMMA ModeReplied ==
    ASSUME AdminInv, NEW n \in DOMAIN aCalls,
           AP!SettingsReplied(n) \/ AP!setRegistrationModeReplied(n)
    PROVE  AdminInv'
<1> DEFINE c == aCalls[n]
           all == AP!Once({"pending", "users", "preferences", "backups"}
                          \cup (IF c.mode = "invite_only" THEN {"invites"} ELSE {}))
           more == AP!Once(AP!ModeAsks(c.mode))
           N == [v \in aLists |-> all[v] + more[v]]
<1>1. AP!TypeOK /\ "mode" \notin aLists /\ aLists \subseteq AllLists /\ "mode" \in AP!Views
  BY ListsKnown DEF AdminInv
<1>2. /\ aCalls' \in Seq(AdminCall) /\ c \in AdminCall /\ c \in Asks
      /\ Asks' \subseteq Asks /\ Asks \ {c} \subseteq Asks'
  BY AdminFinish DEF AP!SettingsReplied, AP!setRegistrationModeReplied
<1>3. /\ UNCHANGED <<aLists, aRole, aMode, aNow, aCurrentRole, aAnswers, aClicks, aEvents, aMine>>
      /\ c.at # "sent" /\ AP!ModeDrawn(c)
      /\ \/ c.op = "settings" /\ AP!Ask(N)
         \/ c.op = "mode" /\ AP!Ask(more)
  BY DEF AP!SettingsReplied, AP!setRegistrationModeReplied, AP!server, AP!bounds
<1>4. /\ all \in [aLists -> Nat] /\ more \in [aLists -> Nat]
      /\ \A v \in aLists : v \in {"pending", "users", "preferences", "backups"} => all[v] > 0
  BY OnceIsCount
<1> HIDE DEF all, more
<1>5. N \in [aLists -> Nat] /\ \A v \in aLists : v \notin {"invites", "log"} => N[v] > 0
  BY <1>1, <1>4 DEF AllLists
<1> HIDE DEF N, c
<1>6. /\ aAsked' \in [aLists -> Nat]
      /\ \A v \in aLists : /\ aAsked[v] > 0 => aAsked'[v] > 0
                           /\ c.op = "settings" /\ v \notin {"invites", "log"} => aAsked'[v] > 0
  <2>1. CASE c.op = "settings" /\ AP!Ask(N)
    <3>1. /\ aAsked' \in [aLists -> Nat]
          /\ \A v \in aLists : aAsked'[v] >= aAsked[v] /\ (N[v] > 0 => aAsked'[v] > 0)
      BY <1>1, <1>5, <2>1, Asked
    <3> QED BY <1>1, <1>5, <3>1 DEF AP!TypeOK
  <2>2. CASE c.op = "mode" /\ AP!Ask(more)
    <3>1. aAsked' \in [aLists -> Nat] /\ \A v \in aLists : aAsked'[v] >= aAsked[v]
      BY <1>1, <1>4, <2>2, Asked
    <3> QED BY <1>1, <2>2, <3>1 DEF AP!TypeOK
  <2> QED BY <1>3, <2>1, <2>2
<1>7. /\ aSlider' = (IF c.mode \in AP!REG_MODES THEN c.mode ELSE aSlider)
      /\ aCurrentRegMode' = c.mode
      /\ aAdminPollInterval' = (IF c.mode = "approval_required" /\ aAdminPollInterval = "none"
                                THEN "running"
                                ELSE IF c.mode # "approval_required" /\ aAdminPollInterval # "none"
                                     THEN "none" ELSE aAdminPollInterval)
      /\ IF c.at = "ok"
         THEN /\ aShown' = [aShown EXCEPT !["mode"] = c.change]
              /\ aExcused' = IF c.change < aShown["mode"] THEN aExcused \cup {"mode"}
                             ELSE IF c.change = aNow["mode"] THEN aExcused \ {"mode"}
                             ELSE aExcused
         ELSE aExcused' = aExcused \cup {"mode"} /\ aShown' = aShown
  BY <1>3 DEF AP!ModeDrawn, AP!updateRegModeSlider, AP!updatePendingPoll, AP!Redrawn
<1>8. c.op \in ModeOps /\ c.change \in Nat /\ c.mode \in AP!REG_MODES \cup {"undefined"}
  BY <1>2, <1>3 DEF ModeOps, AdminCall
<1>9. /\ aShown' \in [AP!Views -> Nat]
      /\ \A v \in aLists : aShown'[v] = aShown[v] /\ (v \in aExcused' <=> v \in aExcused)
      /\ c.at = "ok" => aShown'["mode"] = c.change
  BY <1>1, <1>7, <1>8 DEF AP!TypeOK, AP!Views
<1>10. AP!TypeOK'
  BY <1>1, <1>2, <1>3, <1>6, <1>7, <1>8, <1>9 DEF AP!TypeOK, AP!Views, AdminCall
<1>11. ListsMove'
  <2> SUFFICES ASSUME NEW v \in aLists, v \notin aExcused' PROVE ListMoved(v)'
    BY <1>3 DEF ListsMove
  <2>1. ListMoved(v)
    BY <1>9 DEF AdminInv, ListsMove
  <2>2. v \notin AP!Changes(c.op)
    BY <1>1, <1>8, WhatChanges DEF ModeOps
  <2> QED BY <1>2, <1>3, <1>6, <1>8, <1>9, <2>1, <2>2 DEF ListMoved, ModeOps
<1>12. aNow["mode"] \in Nat /\ aShown["mode"] \in Nat /\ aMine["mode"] \in Nat
  BY <1>1 DEF AP!TypeOK
<1>13. c.at = "ok" => c.change <= aNow["mode"] /\ (c.change = aNow["mode"] => c.mode = aMode)
  BY <1>2, <1>8 DEF AdminInv, ModesAreKnown
<1>14. ModesAreKnown'
  BY <1>2, <1>3, <1>7, <1>9, <1>13 DEF AdminInv, ModesAreKnown
<1>15. ModeMoved'
  <2> SUFFICES ASSUME "mode" \notin aExcused' PROVE ModeMoved'
    BY DEF ModeMoved
  <2>1. c.at = "ok" /\ aShown'["mode"] = c.change
    BY <1>7, <1>9
  <2>2. aMode \in AP!REG_MODES
    BY <1>1 DEF AP!TypeOK
  <2>3. CASE c.change = aNow["mode"]
    BY <1>3, <1>7, <1>13, <2>1, <2>2, <2>3 DEF ModeMoved
  <2>4. CASE c.change # aNow["mode"]
    <3>1. "mode" \notin aExcused /\ c.change >= aShown["mode"] /\ aShown["mode"] # aNow["mode"]
      BY <1>7, <1>8, <1>12, <1>13, <2>1, <2>4
    <3> QED BY <1>2, <1>3, <2>1, <2>4, <3>1 DEF AdminInv, ModeMoved
  <2> QED BY <2>3, <2>4
<1>16. AP!PollFollows'
  BY <1>1, <1>7 DEF AP!PollFollows, AP!TypeOK
<1> QED BY <1>3, <1>10, <1>11, <1>14, <1>15, <1>16 DEF AdminInv, MineIsPast, AP!Views

-----------------------------------------------------------------------------
LEMMA InitAdmin == AP!Init => AdminInv
<1> SUFFICES ASSUME AP!Init PROVE AdminInv
  OBVIOUS
<1> DEFINE c == AP!Call("settings", "undefined")
<1>1. c \in AdminCall /\ c.op = "settings" /\ c.at = "sent"
  BY DEF AP!Call, AdminCall, AP!Ops
<1>2. aCalls = <<c>>
  BY DEF AP!Init
<1> HIDE DEF c
<1>3. aCalls \in Seq(AdminCall) /\ Asks = {c}
  BY <1>1, <1>2 DEF Asks, ToSet
<1>4. AP!TypeOK
  BY <1>3, AdminPageAssumption DEF AP!Init, AP!TypeOK, AP!Views, AP!REG_MODES, AdminCall
<1>5. aLists \subseteq AllLists /\ "mode" \notin aLists
  BY <1>4, ListsKnown
<1>6. MineIsPast
  BY DEF AP!Init, MineIsPast
<1>7. ListsMove
  BY <1>1, <1>3, <1>5 DEF AP!Init, ListsMove, ListMoved, AP!Views, AllLists
<1>8. ModesAreKnown /\ ModeMoved
  <2>1. aNow["mode"] = 1 /\ aShown["mode"] = 0
    BY DEF AP!Init, AP!Views
  <2> QED BY <1>1, <1>3, <2>1 DEF ModesAreKnown, ModeMoved
<1> QED BY <1>4, <1>6, <1>7, <1>8 DEF AdminInv, AP!Init, AP!PollFollows

LEMMA StepAdmin == AdminInv /\ [AP!Next]_(AP!vars) => AdminInv'
<1> SUFFICES ASSUME AdminInv, [AP!Next]_(AP!vars) PROVE AdminInv'
  OBVIOUS
<1>1. aLists \subseteq AllLists
  BY ListsKnown DEF AdminInv
<1>2. CASE \E n \in DOMAIN aCalls : \/ AP!Serve(n) \/ AP!SettingsReplied(n)
                                    \/ AP!setRegistrationModeReplied(n)
                                    \/ AP!Replied(n) \/ AP!Lost(n)
  BY <1>2, AdminServe, ModeReplied, AdminReplied
<1>3. CASE \E v \in aLists : \/ AP!ServeLoad(v) \/ AP!LoadLost(v)
                             \/ \E i \in DOMAIN aAnswers[v] : AP!Draw(v, i)
  BY <1>3, AdminLoad, AdminDraw
<1>4. CASE \/ \E V \in SUBSET AllLists : AP!Elsewhere(V)
           \/ \E r \in {"admin", "moderator", "user"} : AP!RoleElsewhere(r)
           \/ \E m \in AP!REG_MODES : AP!ModeElsewhere(m)
  BY <1>4, AdminElsewhere
<1>5. CASE \/ \E op \in AP!Ops : AP!Click(op)
           \/ \E m \in AP!REG_MODES : AP!setRegistrationMode(m)
  BY <1>5, AdminClicks
<1>6. CASE AP!Tick \/ AP!OpenBackups \/ AP!loadSystemLog
  BY <1>6, AdminAsks, AdminLog
<1>7. CASE UNCHANGED AP!vars
  BY <1>7 DEF AP!vars, AP!server, AP!page, AP!bounds, AdminInv, AP!TypeOK, MineIsPast, ListsMove,
              ListMoved, ModesAreKnown, ModeMoved, AP!PollFollows, AP!Views, Asks
<1>8. ASSUME NEW V, AP!Elsewhere(V \cap aLists)
      PROVE  \E W \in SUBSET AllLists : AP!Elsewhere(W)
  BY <1>1, <1>8
<1> QED BY <1>2, <1>3, <1>4, <1>5, <1>6, <1>7, <1>8 DEF AP!Next

\* Every list of the admin page that is at rest shows what the page changed, and the mode
\* and its poll are those of the server, for any number of clicks, loads and changes by
\* others (the handlers and loads of admin.js).
THEOREM ChangesStayShown == AP!Spec => []ChangesAreShown
<1>1. AdminInv => ChangesAreShown
  <2> SUFFICES ASSUME AdminInv PROVE AP!ChangesAreShown
    BY DEF ChangesAreShown
  <2>1. Asks \subseteq AdminCall /\ "mode" \in AP!Views /\ "mode" \notin aLists
    BY ListsKnown DEF AdminInv
  <2>2. ASSUME NEW v \in AP!Views, AP!IsQuiet(v)
        PROVE  \A c \in Asks : c.op # "settings" /\ v \notin AP!Changes(c.op)
    BY <2>2 DEF AP!IsQuiet, Asks, ToSet
  <2>3. AP!OwnChangesAreShown
    <3> SUFFICES ASSUME NEW v \in aLists, AP!IsQuiet(v), v \notin aExcused
                 PROVE  aShown[v] >= aMine[v]
      BY DEF AP!OwnChangesAreShown
    <3>1. ListMoved(v) /\ v \in AP!Views
      BY DEF AdminInv, ListsMove, AP!Views
    <3>2. aAsked[v] = 0 /\ ToSet(aAnswers[v]) = {}
      BY DEF AP!IsQuiet, ToSet
    <3> QED BY <2>2, <3>1, <3>2 DEF ListMoved
  <2>4. AP!ModeIsShown
    <3> SUFFICES ASSUME AP!IsQuiet("mode"), "mode" \notin aExcused, aNow["mode"] = aMine["mode"]
                 PROVE  aSlider = aMode /\ aCurrentRegMode = aMode
      BY DEF AP!ModeIsShown
    <3>1. \A c \in Asks : c.op \notin ModeOps
      BY <2>1, <2>2, WhatChanges DEF ModeOps
    <3> QED BY <3>1 DEF AdminInv, ModeMoved, ModeOps
  <2> QED BY <2>3, <2>4 DEF AdminInv, AP!ChangesAreShown
<1> QED BY <1>1, InitAdmin, StepAdmin, PTL DEF AP!Spec

-----------------------------------------------------------------------------
(***************************************************************************)
(* RoomSettings. Among the answers that nothing has outdated the last is   *)
(* right, so that whatever the order in which they are drawn, the list is  *)
(* right after the last, or something comes that will be answered later; a *)
(* page about to go back owes nothing. An answer that the room was not     *)
(* found is newer than all of those before it, and leaves none of them to  *)
(* be drawn. Of the saves of a field that are calm all have the value of   *)
(* the control.                                                            *)
(***************************************************************************)

SetCall == [op : RS!Ops, arg : People \cup Topics \cup RS!Visibilities,
            at : {"sent", "ok", "refused"}, calm : BOOLEAN, back : BOOLEAN]
RoomAnswer == [found : BOOLEAN, role : RS!Roles, visibility : RS!Visibilities, fresh : BOOLEAN]
RequestAnswer == [is : SUBSET People, follows : BOOLEAN, fresh : BOOLEAN]

SetCalls == ToSet(sCalls)
CallsTo(f) == {c \in SetCalls : c.op = f}
OkOps == {c.op : c \in {d \in SetCalls : d.at = "ok"}}

\* The page is about to go back; a load of the members, or of the requests, is under way
\* that the server has not served, or will follow.
Going == OkOps \cap {"leave", "delete"} # {}
RoomComes ==
    \/ Going \/ OkOps \cap {"remove", "approve"} # {}
    \/ sAskedRoom > 0 \/ sAskedRequests[TRUE] > 0
    \/ \E i \in DOMAIN sRequestAnswers : sRequestAnswers[i].follows
RequestsCome ==
    Going \/ OkOps \cap {"approve", "deny"} # {} \/ \E f \in BOOLEAN : sAskedRequests[f] > 0

\* Answers that nothing has changed since they were given but the page itself.
NewRooms == {i \in DOMAIN sRoomAnswers : sRoomAnswers[i].fresh /\ sRoomAnswers[i].found}
NewRequests == {i \in DOMAIN sRequestAnswers : sRequestAnswers[i].fresh}

ArgsKnown ==
    \A c \in SetCalls : /\ c.op = "remove" => c.arg # Me
                        /\ c.op = "leave" => c.arg = Me
                        /\ c.op = "topic" => c.arg \in Topics
                        /\ c.op = "visibility" => c.arg \in RS!Visibilities

\* The answer that is given last is right, and so is the list unless something comes.
MembersInv ==
    sOpen =>
        /\ "members" \notin sBehind =>
              sMembers = sRole \/ RoomComes \/ \E i \in NewRooms : sRoomAnswers[i].role = sRole
        /\ \A i \in NewRooms :
              /\ RoomComes \/ \E j \in NewRooms : j >= i /\ sRoomAnswers[j].role = sRole
              /\ Going \/ sRoomAnswers[i].role[Me] = sRole[Me]
        /\ ~RS!check_room_access /\ ~Going => "members" \in sBehind /\ NewRooms = {}
        /\ \A i \in DOMAIN sRoomAnswers : \/ sRoomAnswers[i].found \/ Going
                                         \/ \A k \in NewRooms : k > i

RequestsInv ==
    sOpen =>
        /\ "requests" \notin sBehind =>
              \/ sRequests = RS!Requests \/ RequestsCome
              \/ \E i \in NewRequests : sRequestAnswers[i].is = RS!Requests
        /\ \A i \in NewRequests :
              \/ RequestsCome
              \/ \E j \in NewRequests : j >= i /\ sRequestAnswers[j].is = RS!Requests

TopicInv ==
    /\ \A c \in CallsTo("topic") : c.calm =>
          /\ \A d \in CallsTo("topic") : d.arg = c.arg
          /\ sTopicInput = c.arg
          /\ c.at = "ok" => sTopic = c.arg
    /\ "topic" \notin sBehind =>
          /\ \A c \in CallsTo("topic") : c.arg = sTopicInput
          /\ sTopicInput = sTopic \/ \E c \in CallsTo("topic") : c.at = "sent"
          /\ sOriginalTopic = sTopic \/ \E c \in CallsTo("topic") : c.at # "refused"

\* A calm choice of the visibility is the only one.
Alone ==
    \A n, k \in DOMAIN sCalls :
        sCalls[n].op = "visibility" /\ sCalls[k].op = "visibility" /\ sCalls[n].calm => n = k

VisibilityInv ==
    /\ \A c \in CallsTo("visibility") : c.calm =>
          sSelect = c.arg /\ (c.at = "ok" => sVisibility = c.arg)
    /\ "visibility" \notin sBehind =>
          /\ \A c \in CallsTo("visibility") : c.calm
          /\ CallsTo("visibility") = {} => sSelect = sVisibility
          /\ (\A c \in CallsTo("visibility") : c.at # "ok") => sCurrent = sVisibility

SettingsInv ==
    /\ RS!TypeOK /\ ArgsKnown /\ Alone
    /\ MembersInv /\ RequestsInv /\ TopicInv /\ VisibilityInv

-----------------------------------------------------------------------------
LEMMA SettingsTypes ==
    ASSUME RS!TypeOK
    PROVE  /\ sCalls \in Seq(SetCall) /\ sRoomAnswers \in Seq(RoomAnswer)
           /\ sRequestAnswers \in Seq(RequestAnswer) /\ SetCalls \subseteq SetCall
           /\ sRole[Me] \in RS!Ranks \cup {"none"}
<1>1. sCalls \in Seq(SetCall) /\ sRoomAnswers \in Seq(RoomAnswer)
      /\ sRequestAnswers \in Seq(RequestAnswer)
  BY DEF RS!TypeOK, SetCall, RoomAnswer, RequestAnswer
<1>2. SetCalls \subseteq SetCall
  BY <1>1 DEF SetCalls, ToSet
<1>3. sRole[Me] \in RS!Ranks \cup {"none"}
  BY RoomSettingsAssumption DEF RS!TypeOK, RS!Roles
<1> QED BY <1>1, <1>2, <1>3

\* Among several choices of the visibility none is calm.
LEMMA AloneInSet ==
    ASSUME Alone, NEW c \in CallsTo("visibility"), NEW d \in CallsTo("visibility"), c.calm
    PROVE  c = d
<1>1. PICK n \in DOMAIN sCalls : c = sCalls[n]
  BY DEF CallsTo, SetCalls, ToSet
<1>2. PICK k \in DOMAIN sCalls : d = sCalls[k]
  BY DEF CallsTo, SetCalls, ToSet
<1> QED BY <1>1, <1>2 DEF Alone, CallsTo

LEMMA AloneInNext ==
    ASSUME Alone', NEW c \in CallsTo("visibility")', NEW d \in CallsTo("visibility")', c.calm
    PROVE  c = d
<1>1. PICK n \in DOMAIN sCalls' : c = sCalls'[n]
  BY DEF CallsTo, SetCalls, ToSet
<1>2. PICK k \in DOMAIN sCalls' : d = sCalls'[k]
  BY DEF CallsTo, SetCalls, ToSet
<1> QED BY <1>1, <1>2 DEF Alone, CallsTo

\* What the ways to change the calls leave as it is.
LEMMA CallServed ==
    ASSUME RS!TypeOK, Alone, ArgsKnown, NEW n \in DOMAIN sCalls, NEW how \in BOOLEAN,
           RS!Answered(n, how), sCalls[n].at = "sent"
    PROVE  LET c == sCalls[n]
               d == [c EXCEPT !.at = IF how THEN "ok" ELSE "refused"] IN
           /\ sCalls' \in Seq(SetCall) /\ Alone' /\ ArgsKnown'
           /\ c \in SetCall /\ c \in CallsTo(c.op)
           /\ d.at = (IF how THEN "ok" ELSE "refused")
           /\ d.op = c.op /\ d.arg = c.arg /\ d.calm = c.calm
           /\ OkOps' = OkOps \cup (IF how THEN {c.op} ELSE {})
           /\ \A f : f # c.op => CallsTo(f)' = CallsTo(f)
           /\ \A f : f = c.op => /\ CallsTo(f)' \subseteq CallsTo(f) \cup {d}
                                 /\ CallsTo(f) \ {c} \subseteq CallsTo(f)'
                                 /\ d \in CallsTo(f)'
<1> DEFINE c == sCalls[n]
           d == [c EXCEPT !.at = IF how THEN "ok" ELSE "refused"]
<1>1. sCalls \in Seq(SetCall) /\ SetCalls \subseteq SetCall /\ c \in SetCall /\ c.at = "sent"
  BY SettingsTypes, ElementOfSeq
<1>2. /\ d \in SetCall /\ d.at = (IF how THEN "ok" ELSE "refused")
      /\ d.op = c.op /\ d.arg = c.arg /\ d.calm = c.calm
  BY <1>1 DEF SetCall
<1>3. sCalls' = [sCalls EXCEPT ![n] = d]
  BY DEF RS!Answered
<1> HIDE DEF d
<1>4. /\ sCalls' \in Seq(SetCall) /\ c \in SetCalls /\ d \in SetCalls'
      /\ SetCalls' \subseteq SetCalls \cup {d} /\ SetCalls \ {c} \subseteq SetCalls'
  <2>1. LET t == [sCalls EXCEPT ![n] = d] IN
           /\ t \in Seq(SetCall) /\ c \in ToSet(sCalls) /\ d \in ToSet(t)
           /\ ToSet(t) \subseteq ToSet(sCalls) \cup {d}
           /\ ToSet(sCalls) \ {c} \subseteq ToSet(t)
    BY <1>1, <1>2, ExceptSet
  <2> QED BY <1>3, <2>1 DEF SetCalls
<1>5. Alone'
  <2>1. /\ DOMAIN sCalls' = DOMAIN sCalls
        /\ \A k \in DOMAIN sCalls : /\ sCalls'[k].op = sCalls[k].op
                                    /\ sCalls'[k].calm = sCalls[k].calm
    BY <1>1, <1>2, <1>3
  <2> QED BY <2>1 DEF Alone
<1> HIDE DEF c
<1>6. ArgsKnown'
  BY <1>2, <1>4 DEF ArgsKnown
<1>7. OkOps' = OkOps \cup (IF how THEN {c.op} ELSE {})
  BY <1>1, <1>2, <1>4 DEF OkOps
<1>8. ASSUME NEW f, f # c.op PROVE CallsTo(f)' = CallsTo(f)
  BY <1>2, <1>4, <1>8 DEF CallsTo
<1>9. ASSUME NEW f, f = c.op
      PROVE  /\ CallsTo(f)' \subseteq CallsTo(f) \cup {d}
             /\ CallsTo(f) \ {c} \subseteq CallsTo(f)' /\ d \in CallsTo(f)'
  BY <1>2, <1>4, <1>9 DEF CallsTo
<1>10. c \in CallsTo(c.op)
  BY <1>4 DEF CallsTo
<1> QED BY <1>1, <1>2, <1>4, <1>5, <1>6, <1>7, <1>8, <1>9, <1>10 DEF c, d

LEMMA CallFinished ==
    ASSUME RS!TypeOK, Alone, ArgsKnown, NEW n \in DOMAIN sCalls, RS!Finish(n)
    PROVE  LET c == sCalls[n] IN
           /\ sCalls' \in Seq(SetCall) /\ Alone' /\ ArgsKnown'
           /\ c \in SetCall /\ c \in CallsTo(c.op)
           /\ OkOps' \subseteq OkOps /\ OkOps \subseteq OkOps' \cup {c.op}
           /\ c.at # "ok" => OkOps' = OkOps
           /\ \A f : f # c.op => CallsTo(f)' = CallsTo(f)
           /\ \A f : f = c.op => /\ CallsTo(f)' \subseteq CallsTo(f)
                                 /\ CallsTo(f) \ {c} \subseteq CallsTo(f)'
           /\ c.op = "visibility" /\ c.calm => CallsTo("visibility")' = {}
<1> DEFINE c == sCalls[n]
<1>1. sCalls \in Seq(SetCall) /\ sCalls' = RemoveAt(sCalls, n)
  BY SettingsTypes DEF RS!Finish, RS!RemoveAt, RemoveAt
<1>2. /\ sCalls' \in Seq(SetCall) /\ c \in SetCall /\ c \in SetCalls
      /\ SetCalls' \subseteq SetCalls /\ SetCalls \ {c} \subseteq SetCalls'
  BY <1>1, RemoveAtSet DEF SetCalls
<1>3. /\ Len(sCalls) \in Nat /\ n \in 1 .. Len(sCalls) /\ DOMAIN sCalls = 1 .. Len(sCalls)
      /\ DOMAIN sCalls' = 1 .. Len(sCalls) - 1
      /\ \A j \in DOMAIN sCalls' :
            /\ (IF j < n THEN j ELSE j + 1) \in DOMAIN sCalls
            /\ (IF j < n THEN j ELSE j + 1) # n
            /\ sCalls'[j] = sCalls[IF j < n THEN j ELSE j + 1]
  <2>1. /\ sCalls' \in Seq(SetCall) /\ Len(sCalls') = Len(sCalls) - 1
        /\ \A j \in 1 .. Len(sCalls) - 1 : sCalls'[j] = sCalls[IF j < n THEN j ELSE j + 1]
    BY <1>1, RemoveAtElements
  <2>2. Len(sCalls) \in Nat /\ n \in 1 .. Len(sCalls) /\ DOMAIN sCalls = 1 .. Len(sCalls)
        /\ DOMAIN sCalls' = 1 .. Len(sCalls) - 1
    BY <1>1, <2>1
  <2> QED BY <2>1, <2>2
<1>4. Alone'
  <2> SUFFICES ASSUME NEW i \in DOMAIN sCalls', NEW j \in DOMAIN sCalls',
                      sCalls'[i].op = "visibility", sCalls'[j].op = "visibility",
                      sCalls'[i].calm
               PROVE  i = j
    BY DEF Alone
  <2>1. (IF i < n THEN i ELSE i + 1) = (IF j < n THEN j ELSE j + 1)
    BY <1>3 DEF Alone
  <2> QED BY <1>3, <2>1
<1>5. c.op = "visibility" /\ c.calm => CallsTo("visibility")' = {}
  <2> SUFFICES ASSUME c.op = "visibility", c.calm, NEW j \in DOMAIN sCalls',
                      sCalls'[j].op = "visibility"
               PROVE  FALSE
    BY DEF CallsTo, SetCalls, ToSet
  <2> QED BY <1>3 DEF Alone
<1> HIDE DEF c
<1>6. ArgsKnown'
  BY <1>2 DEF ArgsKnown
<1>7. /\ OkOps' \subseteq OkOps /\ OkOps \subseteq OkOps' \cup {c.op}
      /\ c.at # "ok" => OkOps' = OkOps
  BY <1>2 DEF OkOps
<1>8. ASSUME NEW f, f # c.op PROVE CallsTo(f)' = CallsTo(f)
  BY <1>2, <1>8 DEF CallsTo
<1>9. ASSUME NEW f, f = c.op
      PROVE  CallsTo(f)' \subseteq CallsTo(f) /\ CallsTo(f) \ {c} \subseteq CallsTo(f)'
  BY <1>2, <1>9 DEF CallsTo
<1>10. c \in CallsTo(c.op)
  BY <1>2 DEF CallsTo
<1> QED BY <1>2, <1>4, <1>5, <1>6, <1>7, <1>8, <1>9, <1>10 DEF c

LEMMA CallSent ==
    ASSUME RS!TypeOK, Alone, ArgsKnown, NEW c \in SetCall, sCalls' = Append(sCalls, c),
           c.at = "sent", c.op \notin {"topic", "visibility"},
           c.op = "remove" => c.arg # Me, c.op = "leave" => c.arg = Me
    PROVE  /\ sCalls' \in Seq(SetCall) /\ Alone' /\ ArgsKnown' /\ OkOps' = OkOps
           /\ \A f \in {"topic", "visibility"} : CallsTo(f)' = CallsTo(f)
<1>1. sCalls \in Seq(SetCall)
  BY SettingsTypes
<1>2. /\ sCalls' \in Seq(SetCall) /\ SetCalls' = SetCalls \cup {c}
  BY <1>1, AppendSet DEF SetCalls
<1>3. Alone'
  <2>1. /\ DOMAIN sCalls' = 1 .. Len(sCalls) + 1 /\ Len(sCalls) \in Nat
        /\ DOMAIN sCalls = 1 .. Len(sCalls)
        /\ sCalls'[Len(sCalls) + 1] = c /\ \A j \in 1 .. Len(sCalls) : sCalls'[j] = sCalls[j]
    BY <1>1, <1>2, AppendProperties
  <2>2. \A j \in DOMAIN sCalls' : j \in DOMAIN sCalls \/ j = Len(sCalls) + 1
    BY <2>1
  <2> QED BY <2>1, <2>2 DEF Alone
<1>4. ArgsKnown' /\ OkOps' = OkOps
  BY <1>2 DEF ArgsKnown, OkOps
<1>5. ASSUME NEW f \in {"topic", "visibility"} PROVE CallsTo(f)' = CallsTo(f)
  BY <1>2 DEF CallsTo
<1> QED BY <1>2, <1>3, <1>4, <1>5

\* A save of the field f as v, made or not, and a save of it elsewhere.
LEMMA CallsDisturbed ==
    ASSUME RS!TypeOK, Alone, ArgsKnown, NEW f \in {"topic", "visibility"}, NEW v,
           NEW add \in BOOLEAN, NEW d \in SetCall, d.op = f, d.at = "sent",
           f = "topic" => d.arg \in Topics, f = "visibility" => d.arg \in RS!Visibilities,
           d.calm => RS!Rivals(f, v) = {},
           sCalls' = IF add THEN Append(RS!Disturbed(f, v), d) ELSE RS!Disturbed(f, v)
    PROVE  /\ sCalls' \in Seq(SetCall) /\ Alone' /\ ArgsKnown' /\ OkOps' = OkOps
           /\ \A g : g # f => CallsTo(g)' = CallsTo(g)
           /\ \A c \in CallsTo(f) : \E e \in CallsTo(f)' : e.at = c.at /\ e.arg = c.arg
           /\ \A e \in CallsTo(f)' :
                 \/ add /\ e = d
                 \/ \E c \in CallsTo(f) : /\ e.at = c.at /\ e.arg = c.arg
                                          /\ e.calm => c.calm /\ f = "topic" /\ c.arg = v
           /\ add => d \in CallsTo(f)'
           /\ RS!Rivals(f, v) = {} =>
                 /\ CallsTo(f)' = CallsTo(f) \cup (IF add THEN {d} ELSE {})
                 /\ \A c \in CallsTo(f) : f = "topic" /\ c.arg = v
           /\ RS!Rivals(f, v) # {} => \E c \in CallsTo(f) : f = "visibility" \/ c.arg # v
<1> DEFINE D == RS!Disturbed(f, v)
           R == RS!Rivals(f, v)
<1>1. sCalls \in Seq(SetCall) /\ Len(sCalls) \in Nat /\ DOMAIN sCalls = 1 .. Len(sCalls)
  BY SettingsTypes
<1>2. /\ R \subseteq DOMAIN sCalls
      /\ \A n \in DOMAIN sCalls :
            n \in R <=> sCalls[n].op = f /\ (f = "visibility" \/ sCalls[n].arg # v)
  BY DEF RS!Rivals
<1>3. D = [n \in 1 .. Len(sCalls) |-> [sCalls[n] EXCEPT !.calm = @ /\ n \notin R]]
  BY <1>1 DEF RS!Disturbed
<1> HIDE DEF D, R
<1>4. ASSUME NEW n \in DOMAIN sCalls
      PROVE  /\ sCalls[n] \in SetCall
             /\ [sCalls[n] EXCEPT !.calm = @ /\ n \notin R] \in SetCall
             /\ D[n].op = sCalls[n].op /\ D[n].at = sCalls[n].at /\ D[n].arg = sCalls[n].arg
             /\ D[n].calm => sCalls[n].calm /\ n \notin R
             /\ n \notin R => D[n] = sCalls[n]
  <2>1. sCalls[n] \in SetCall
    BY <1>1, ElementOfSeq
  <2>2. D[n] = [sCalls[n] EXCEPT !.calm = @ /\ n \notin R]
    BY <1>1, <1>3
  <2>3. n \notin R => [sCalls[n] EXCEPT !.calm = @ /\ n \notin R] = sCalls[n]
    BY <2>1 DEF SetCall
  <2>4. [sCalls[n] EXCEPT !.calm = @ /\ n \notin R] \in SetCall
    BY <2>1 DEF SetCall
  <2>5. [sCalls[n] EXCEPT !.calm = @ /\ n \notin R].calm => sCalls[n].calm /\ n \notin R
    BY <2>1 DEF SetCall
  <2> QED BY <2>1, <2>2, <2>3, <2>4, <2>5 DEF SetCall
<1>5. D \in Seq(SetCall) /\ Len(D) = Len(sCalls) /\ DOMAIN D = DOMAIN sCalls
  <2>1. D \in Seq(SetCall)
    BY <1>1, <1>3, <1>4
  <2> QED BY <1>1, <1>3, <2>1
<1>6. /\ sCalls' \in Seq(SetCall) /\ \A n \in DOMAIN D : n \in DOMAIN sCalls' /\ sCalls'[n] = D[n]
      /\ \A n \in DOMAIN sCalls' : n \in DOMAIN D \/ (add /\ n = Len(D) + 1 /\ sCalls'[n] = d)
      /\ add => Len(D) + 1 \in DOMAIN sCalls' /\ sCalls'[Len(D) + 1] = d
  <2>1. CASE add
    <3>1. sCalls' = Append(D, d)
      BY <2>1 DEF D
    <3>2. /\ sCalls' \in Seq(SetCall) /\ Len(sCalls') = Len(D) + 1 /\ sCalls'[Len(D) + 1] = d
          /\ \A n \in 1 .. Len(D) : sCalls'[n] = D[n]
      <4>1. /\ Append(D, d) \in Seq(SetCall) /\ Len(Append(D, d)) = Len(D) + 1
            /\ Append(D, d)[Len(D) + 1] = d /\ \A n \in 1 .. Len(D) : Append(D, d)[n] = D[n]
        BY <1>5, AppendProperties
      <4> QED BY <3>1, <4>1
    <3>3. DOMAIN D = 1 .. Len(D) /\ DOMAIN sCalls' = 1 .. Len(D) + 1 /\ Len(D) \in Nat
      BY <1>5, <3>2
    <3> QED BY <2>1, <3>2, <3>3
  <2>2. CASE ~add
    BY <1>5, <2>2 DEF D
  <2> QED BY <2>1, <2>2
<1>7. R = {} <=> \A n \in DOMAIN sCalls : n \notin R
  BY <1>2
<1>8. d.calm => R = {}
  BY DEF R
<1>9. Alone'
  <2> SUFFICES ASSUME NEW i \in DOMAIN sCalls', NEW j \in DOMAIN sCalls',
                      sCalls'[i].op = "visibility", sCalls'[j].op = "visibility",
                      sCalls'[i].calm
               PROVE  i = j
    BY DEF Alone
  <2>1. ASSUME NEW n \in DOMAIN D
        PROVE  /\ n \in DOMAIN sCalls /\ sCalls'[n].op = sCalls[n].op
               /\ sCalls'[n].calm => sCalls[n].calm /\ n \notin R
    <3>1. n \in DOMAIN sCalls /\ sCalls'[n] = D[n]
      BY <1>5, <1>6
    <3> QED BY <1>4, <3>1
  <2>2. CASE i \in DOMAIN D /\ j \in DOMAIN D
    BY <2>1, <2>2 DEF Alone
  <2>3. CASE i \notin DOMAIN D /\ j \notin DOMAIN D
    BY <1>6, <2>3
  <2>4. CASE i \in DOMAIN D /\ j \notin DOMAIN D
    <3>1. f = "visibility"
      BY <1>6, <2>4
    <3> QED BY <1>2, <2>1, <2>4, <3>1
  <2>5. CASE i \notin DOMAIN D /\ j \in DOMAIN D
    <3>1. f = "visibility" /\ R = {}
      BY <1>6, <1>8, <2>5
    <3>2. j \in R
      BY <1>2, <2>1, <2>5, <3>1
    <3> QED BY <3>1, <3>2
  <2> QED BY <2>2, <2>3, <2>4, <2>5
<1>10. /\ \A c \in SetCalls : \E e \in SetCalls' : e.op = c.op /\ e.at = c.at /\ e.arg = c.arg
       /\ \A c \in SetCalls : c.op # f \/ R = {} => c \in SetCalls'
       /\ \A e \in SetCalls' :
             \/ add /\ e = d
             \/ \E c \in SetCalls : /\ e.op = c.op /\ e.at = c.at /\ e.arg = c.arg
                                    /\ e.calm => c.calm
                                    /\ c.op = f /\ e.calm => f = "topic" /\ c.arg = v
                                    /\ c.op # f \/ R = {} => e = c
       /\ add => d \in SetCalls'
  <2>1. \A c \in SetCalls : \E n \in DOMAIN sCalls : c = sCalls[n]
    BY DEF SetCalls, ToSet
  <2>2. \A e \in SetCalls' : \E n \in DOMAIN sCalls' : e = sCalls'[n]
    BY DEF SetCalls, ToSet
  <2>3. \A n \in DOMAIN sCalls' : sCalls'[n] \in SetCalls'
    BY DEF SetCalls, ToSet
  <2>4. \A n \in DOMAIN sCalls : sCalls[n] \in SetCalls
    BY DEF SetCalls, ToSet
  <2>5. \A n \in DOMAIN sCalls : sCalls[n].op # f \/ R = {} => n \notin R
    BY <1>2
  <2>6. ASSUME NEW c \in SetCalls
        PROVE  /\ \E e \in SetCalls' : e.op = c.op /\ e.at = c.at /\ e.arg = c.arg
               /\ c.op # f \/ R = {} => c \in SetCalls'
    <3>1. PICK n \in DOMAIN sCalls : c = sCalls[n]
      BY <2>1
    <3>2. D[n] \in SetCalls'
      BY <1>5, <1>6, <2>3
    <3> QED BY <1>4, <2>5, <3>1, <3>2
  <2>7. ASSUME NEW e \in SetCalls'
        PROVE  \/ add /\ e = d
               \/ \E c \in SetCalls : /\ e.op = c.op /\ e.at = c.at /\ e.arg = c.arg
                                      /\ e.calm => c.calm
                                      /\ c.op = f /\ e.calm => f = "topic" /\ c.arg = v
                                      /\ c.op # f \/ R = {} => e = c
    <3>1. PICK n \in DOMAIN sCalls' : e = sCalls'[n]
      BY <2>2
    <3>2. CASE n \in DOMAIN D
      <4>1. n \in DOMAIN sCalls /\ e = D[n] /\ sCalls[n] \in SetCalls
        BY <1>5, <1>6, <2>4, <3>1, <3>2
      <4>2. sCalls[n].op = f /\ e.calm => f = "topic" /\ sCalls[n].arg = v
        BY <1>2, <1>4, <4>1
      <4> QED BY <1>4, <2>5, <4>1, <4>2
    <3> QED BY <1>6, <3>1, <3>2
  <2>8. add => d \in SetCalls'
    BY <1>6, <2>3
  <2> QED BY <2>6, <2>7, <2>8
<1>11. R = {} => \A c \in CallsTo(f) : f = "topic" /\ c.arg = v
  BY <1>2 DEF CallsTo, SetCalls, ToSet
<1>12. R # {} => \E c \in CallsTo(f) : f = "visibility" \/ c.arg # v
  BY <1>2 DEF CallsTo, SetCalls, ToSet
<1>13. ArgsKnown'
  BY <1>10 DEF ArgsKnown
<1>14. OkOps' = OkOps
  BY <1>10 DEF OkOps
<1>15. ASSUME NEW g, g # f PROVE CallsTo(g)' = CallsTo(g)
  BY <1>10, <1>15 DEF CallsTo
<1>16. R = {} => CallsTo(f)' = CallsTo(f) \cup (IF add THEN {d} ELSE {})
  BY <1>10 DEF CallsTo
<1>17. /\ \A c \in CallsTo(f) : \E e \in CallsTo(f)' : e.at = c.at /\ e.arg = c.arg
       /\ \A e \in CallsTo(f)' :
             \/ add /\ e = d
             \/ \E c \in CallsTo(f) : /\ e.at = c.at /\ e.arg = c.arg
                                      /\ e.calm => c.calm /\ f = "topic" /\ c.arg = v
       /\ add => d \in CallsTo(f)'
  BY <1>10 DEF CallsTo
<1> QED BY <1>6, <1>9, <1>11, <1>12, <1>13, <1>14, <1>15, <1>16, <1>17 DEF R

-----------------------------------------------------------------------------
\* Steps that leave one of the lists or fields alone.
LEMMA TopicKept ==
    ASSUME TopicInv, CallsTo("topic")' = CallsTo("topic"),
           UNCHANGED <<sTopic, sTopicInput, sOriginalTopic>>,
           "topic" \in sBehind => "topic" \in sBehind'
    PROVE  TopicInv'
BY DEF TopicInv

LEMMA VisibilityKept ==
    ASSUME VisibilityInv, CallsTo("visibility")' = CallsTo("visibility"),
           UNCHANGED <<sVisibility, sSelect>>,
           sCurrent' = sCurrent \/ sCurrent' = sVisibility \/ "visibility" \in sBehind',
           "visibility" \in sBehind => "visibility" \in sBehind'
    PROVE  VisibilityInv'
BY DEF VisibilityInv

LEMMA MembersKept ==
    ASSUME MembersInv, sOpen' => sOpen, "members" \in sBehind => "members" \in sBehind',
           RoomComes => RoomComes', Going => Going', UNCHANGED <<sMembers, sRoomAnswers>>,
           \/ Going'
           \/ /\ RS!check_room_access' <=> RS!check_room_access
              /\ sRole' = sRole \/ (RoomComes' /\ sRole'[Me] = sRole[Me])
    PROVE  MembersInv'
<1>1. NewRooms' = NewRooms
  BY DEF NewRooms
<1>2. CASE Going'
  BY <1>2 DEF MembersInv, RoomComes
<1>3. CASE /\ RS!check_room_access' <=> RS!check_room_access
           /\ sRole' = sRole \/ (RoomComes' /\ sRole'[Me] = sRole[Me])
  <2>1. sRole'[Me] = sRole[Me]
    BY <1>3
  <2> QED BY <1>1, <1>3, <2>1 DEF MembersInv
<1> QED BY <1>2, <1>3

LEMMA RequestsKept ==
    ASSUME RequestsInv, sOpen' => sOpen, "requests" \in sBehind => "requests" \in sBehind',
           RequestsCome => RequestsCome', UNCHANGED <<sRequests, sRequestAnswers>>,
           RS!Requests' = RS!Requests \/ RequestsCome'
    PROVE  RequestsInv'
<1>1. NewRequests' = NewRequests
  BY DEF NewRequests
<1> QED BY <1>1 DEF RequestsInv

-----------------------------------------------------------------------------
\* The server handles a request.
ServedFrame ==
    UNCHANGED <<sOpen, sMembers, sRequests, sTopicInput, sOriginalTopic, sSelect, sCurrent,
                sAskedRoom, sRoomAnswers, sAskedRequests, sRequestAnswers, sClicks, sEvents>>

\* What the pages loads is under way as before.
LEMMA ComesStill ==
    ASSUME ServedFrame, OkOps \subseteq OkOps'
    PROVE  (Going => Going') /\ (RoomComes => RoomComes') /\ (RequestsCome => RequestsCome')
BY DEF ServedFrame, Going, RoomComes, RequestsCome

LEMMA MemberRemoved ==
    ASSUME SettingsInv, NEW n \in DOMAIN sCalls, RS!remove_member(n)
    PROVE  SettingsInv'
<1> DEFINE c == sCalls[n]
           may == /\ sExists /\ (c.arg = Me \/ RS!require_room_op) /\ sRole[c.arg] # "none"
<1>1. /\ ServedFrame /\ UNCHANGED <<sRequested, sTopic, sVisibility, sExists, sBehind>>
      /\ c.op \in {"remove", "leave"} /\ c.at = "sent" /\ RS!Answered(n, may)
      /\ sRole' = IF may THEN [sRole EXCEPT ![c.arg] = "none"] ELSE sRole
  BY DEF RS!remove_member, ServedFrame, RS!fields, RS!loads, RS!bounds
<1>2. may \in BOOLEAN
  OBVIOUS
<1> HIDE DEF may
<1>3. /\ sCalls' \in Seq(SetCall) /\ Alone' /\ ArgsKnown' /\ c \in CallsTo(c.op)
      /\ OkOps' = OkOps \cup (IF may THEN {c.op} ELSE {})
      /\ \A f : f # c.op => CallsTo(f)' = CallsTo(f)
  BY <1>1, <1>2, CallServed DEF SettingsInv
<1>4. (c.op = "leave" => c.arg = Me) /\ (c.op = "remove" => c.arg # Me)
  BY <1>3 DEF SettingsInv, ArgsKnown, CallsTo
<1>5. CallsTo("topic")' = CallsTo("topic") /\ CallsTo("visibility")' = CallsTo("visibility")
  BY <1>1, <1>3
<1> HIDE DEF c
<1>6. RS!TypeOK'
  <2>1. sRole' \in RS!Roles
    BY <1>1 DEF SettingsInv, RS!TypeOK, RS!Roles
  <2> QED BY <1>1, <1>3, <2>1 DEF SettingsInv, RS!TypeOK, ServedFrame, SetCall
<1>7. Going' \/ (sRole'[Me] = sRole[Me] /\ (sRole' = sRole \/ RoomComes'))
  <2>1. CASE ~may
    BY <1>1, <2>1
  <2>2. CASE may /\ c.op = "leave"
    BY <1>3, <2>2 DEF Going
  <2>3. CASE may /\ c.op = "remove"
    <3>1. sRole'[Me] = sRole[Me]
      BY <1>1, <1>4, <2>3 DEF SettingsInv, RS!TypeOK, RS!Roles
    <3> QED BY <1>3, <2>3, <3>1 DEF RoomComes
  <2> QED BY <1>1, <2>1, <2>2, <2>3
<1>20. (Going => Going') /\ (RoomComes => RoomComes') /\ (RequestsCome => RequestsCome')
  BY <1>1, <1>3, ComesStill
<1>8. MembersInv'
  BY <1>1, <1>3, <1>7, <1>20, MembersKept DEF SettingsInv, ServedFrame, RS!check_room_access
<1>9. RS!Requests' = RS!Requests \/ RequestsCome'
  BY <1>1, <1>7 DEF RS!Requests, RS!check_room_access, RS!require_room_op, RequestsCome
<1>10. RequestsInv'
  BY <1>1, <1>3, <1>9, <1>20, RequestsKept DEF SettingsInv, ServedFrame
<1>11. TopicInv' /\ VisibilityInv'
  BY <1>1, <1>5, TopicKept, VisibilityKept DEF SettingsInv, ServedFrame
<1> QED BY <1>3, <1>6, <1>8, <1>10, <1>11 DEF SettingsInv

LEMMA RequestResolved ==
    ASSUME SettingsInv, NEW n \in DOMAIN sCalls, RS!resolve_join_request(n)
    PROVE  SettingsInv'
<1> DEFINE c == sCalls[n]
           may == RS!check_room_access /\ RS!require_room_op /\ c.arg \in sRequested
<1>1. /\ ServedFrame /\ UNCHANGED <<sTopic, sVisibility, sExists, sBehind>>
      /\ c.op \in {"approve", "deny"} /\ c.at = "sent" /\ RS!Answered(n, may)
      /\ sRequested' = (IF may THEN sRequested \ {c.arg} ELSE sRequested)
      /\ sRole' = IF may /\ c.op = "approve" /\ sRole[c.arg] = "none"
                  THEN [sRole EXCEPT ![c.arg] = "member"] ELSE sRole
  BY DEF RS!resolve_join_request, ServedFrame, RS!fields, RS!loads, RS!bounds
<1>2. may \in BOOLEAN /\ (may => RS!check_room_access)
  BY DEF RS!check_room_access, RS!require_room_op, RS!Entitled
<1> HIDE DEF may
<1>3. /\ sCalls' \in Seq(SetCall) /\ Alone' /\ ArgsKnown'
      /\ OkOps' = OkOps \cup (IF may THEN {c.op} ELSE {})
      /\ \A f : f # c.op => CallsTo(f)' = CallsTo(f)
  BY <1>1, <1>2, CallServed DEF SettingsInv
<1>4. CallsTo("topic")' = CallsTo("topic") /\ CallsTo("visibility")' = CallsTo("visibility")
  BY <1>1, <1>3
<1> HIDE DEF c
<1>5. RS!TypeOK'
  <2>1. sRole' \in RS!Roles
    BY <1>1 DEF SettingsInv, RS!TypeOK, RS!Roles, RS!Ranks
  <2> QED BY <1>1, <1>3, <2>1 DEF SettingsInv, RS!TypeOK, ServedFrame, SetCall
<1>6. sRole'[Me] = sRole[Me] /\ (sRole' = sRole \/ RoomComes')
  <2>1. CASE may /\ c.op = "approve" /\ sRole[c.arg] = "none"
    <3>1. c.arg # Me
      BY <1>2, <2>1 DEF RS!check_room_access
    <3>2. sRole'[Me] = sRole[Me]
      BY <1>1, <2>1, <3>1, RoomSettingsAssumption DEF SettingsInv, RS!TypeOK, RS!Roles
    <3> QED BY <1>3, <2>1, <3>2 DEF RoomComes
  <2> QED BY <1>1, <2>1
<1>20. (Going => Going') /\ (RoomComes => RoomComes') /\ (RequestsCome => RequestsCome')
  BY <1>1, <1>3, ComesStill
<1>7. MembersInv'
  BY <1>1, <1>3, <1>6, <1>20, MembersKept DEF SettingsInv, ServedFrame, RS!check_room_access
<1>8. RS!Requests' = RS!Requests \/ RequestsCome'
  BY <1>1, <1>3, <1>6
  DEF RS!Requests, RS!check_room_access, RS!require_room_op, RequestsCome
<1>9. RequestsInv'
  BY <1>1, <1>3, <1>8, <1>20, RequestsKept DEF SettingsInv, ServedFrame
<1>10. TopicInv' /\ VisibilityInv'
  BY <1>1, <1>4, TopicKept, VisibilityKept DEF SettingsInv, ServedFrame
<1> QED BY <1>3, <1>5, <1>7, <1>9, <1>10 DEF SettingsInv

\* A room is deleted, and a role is not changed by the service.
LEMMA RoomDeleted ==
    ASSUME SettingsInv, NEW n \in DOMAIN sCalls, RS!delete_room(n) \/ RS!NoSuchRoute(n)
    PROVE  SettingsInv'
<1> DEFINE c == sCalls[n]
<1>1. PICK may \in BOOLEAN :
         /\ ServedFrame /\ UNCHANGED <<sTopic, sVisibility, sBehind>>
         /\ c.op \in {"delete", "op"} /\ c.at = "sent" /\ RS!Answered(n, may)
         /\ may => c.op = "delete"
         /\ sExists' = (IF may THEN FALSE ELSE sExists)
         /\ sRole' = (IF may THEN [u \in People |-> "none"] ELSE sRole)
         /\ sRequested' = IF may THEN {} ELSE sRequested
  <2>1. CASE RS!delete_room(n)
    <3> DEFINE may == sExists /\ (sRole[Me] = "owner" \/ MeIsAdmin)
    <3>1. /\ ServedFrame /\ UNCHANGED <<sTopic, sVisibility, sBehind>>
          /\ c.op = "delete" /\ c.at = "sent" /\ RS!Answered(n, may)
          /\ sExists' = (sExists /\ ~may)
          /\ sRole' = (IF may THEN [u \in People |-> "none"] ELSE sRole)
          /\ sRequested' = IF may THEN {} ELSE sRequested
      BY <2>1 DEF RS!delete_room, ServedFrame, RS!fields, RS!loads, RS!bounds
    <3>2. may \in BOOLEAN /\ sExists \in BOOLEAN
      BY DEF SettingsInv, RS!TypeOK
    <3> HIDE DEF may
    <3> QED BY <3>1, <3>2
  <2>2. CASE RS!NoSuchRoute(n)
    BY <2>2 DEF RS!NoSuchRoute, ServedFrame, RS!server, RS!fields, RS!loads, RS!bounds
  <2> QED BY <2>1, <2>2
<1>2. /\ sCalls' \in Seq(SetCall) /\ Alone' /\ ArgsKnown'
      /\ OkOps' = OkOps \cup (IF may THEN {c.op} ELSE {})
      /\ \A f : f # c.op => CallsTo(f)' = CallsTo(f)
  BY <1>1, CallServed DEF SettingsInv
<1>3. CallsTo("topic")' = CallsTo("topic") /\ CallsTo("visibility")' = CallsTo("visibility")
  BY <1>1, <1>2
<1> HIDE DEF c
<1>4. RS!TypeOK'
  <2>1. sRole' \in RS!Roles /\ sExists' \in BOOLEAN
    BY <1>1 DEF SettingsInv, RS!TypeOK, RS!Roles, RS!Ranks
  <2> QED BY <1>1, <1>2, <2>1 DEF SettingsInv, RS!TypeOK, ServedFrame, SetCall
<1>5. Going' \/ (sRole' = sRole /\ sExists' = sExists /\ sRequested' = sRequested)
  BY <1>1, <1>2 DEF Going
<1>20. (Going => Going') /\ (RoomComes => RoomComes') /\ (RequestsCome => RequestsCome')
  BY <1>1, <1>2, ComesStill
<1>6. MembersInv'
  BY <1>1, <1>2, <1>5, <1>20, MembersKept DEF SettingsInv, ServedFrame, RS!check_room_access
<1>7. RS!Requests' = RS!Requests \/ RequestsCome'
  BY <1>5 DEF RS!Requests, RS!check_room_access, RS!require_room_op, RequestsCome
<1>8. RequestsInv'
  BY <1>1, <1>2, <1>7, <1>20, RequestsKept DEF SettingsInv, ServedFrame
<1>9. TopicInv' /\ VisibilityInv'
  BY <1>1, <1>3, TopicKept, VisibilityKept DEF SettingsInv, ServedFrame
<1> QED BY <1>2, <1>4, <1>6, <1>8, <1>9 DEF SettingsInv

LEMMA RoomUpdated ==
    ASSUME SettingsInv, NEW n \in DOMAIN sCalls, RS!update_room(n)
    PROVE  SettingsInv'
<1> DEFINE c == sCalls[n]
           may == RS!check_room_access /\ RS!require_room_op
           d == [c EXCEPT !.at = IF may THEN "ok" ELSE "refused"]
<1>1. /\ ServedFrame /\ UNCHANGED <<sRole, sRequested, sExists>>
      /\ c.op \in {"topic", "visibility"} /\ c.at = "sent" /\ RS!Answered(n, may)
      /\ sTopic' = (IF may /\ c.op = "topic" THEN c.arg ELSE sTopic)
      /\ sVisibility' = (IF may /\ c.op = "visibility" THEN c.arg ELSE sVisibility)
      /\ sBehind' = IF ~may /\ c.op = "topic" THEN sBehind \cup {"topic"} ELSE sBehind
  BY DEF RS!update_room, ServedFrame, RS!loads, RS!fields, RS!bounds
<1>2. may \in BOOLEAN
  BY DEF RS!check_room_access, RS!require_room_op, RS!Entitled
<1> HIDE DEF may
<1>3. /\ sCalls' \in Seq(SetCall) /\ Alone' /\ ArgsKnown' /\ c \in CallsTo(c.op)
      /\ d.at = (IF may THEN "ok" ELSE "refused")
      /\ d.op = c.op /\ d.arg = c.arg /\ d.calm = c.calm
      /\ OkOps' = OkOps \cup (IF may THEN {c.op} ELSE {})
      /\ \A f : f # c.op => CallsTo(f)' = CallsTo(f)
      /\ \A f : f = c.op => /\ CallsTo(f)' \subseteq CallsTo(f) \cup {d}
                            /\ CallsTo(f) \ {c} \subseteq CallsTo(f)' /\ d \in CallsTo(f)'
  BY <1>1, <1>2, CallServed DEF SettingsInv
<1>4. (c.op = "topic" => c.arg \in Topics) /\ (c.op = "visibility" => c.arg \in RS!Visibilities)
  BY <1>3 DEF SettingsInv, ArgsKnown, CallsTo
<1> HIDE DEF c, d
<1>5. RS!TypeOK'
  BY <1>1, <1>3, <1>4 DEF SettingsInv, RS!TypeOK, ServedFrame, SetCall
<1>20. (Going => Going') /\ (RoomComes => RoomComes') /\ (RequestsCome => RequestsCome')
  BY <1>1, <1>3, ComesStill
<1>6. MembersInv'
  BY <1>1, <1>3, <1>20, MembersKept DEF SettingsInv, ServedFrame, RS!check_room_access
<1>7. RS!Requests' = RS!Requests
  BY <1>1 DEF RS!Requests, RS!check_room_access, RS!require_room_op
<1>8. RequestsInv'
  BY <1>1, <1>3, <1>7, <1>20, RequestsKept DEF SettingsInv, ServedFrame
<1>9. CASE c.op = "topic"
  <2>1. VisibilityInv'
    BY <1>1, <1>3, <1>9, VisibilityKept DEF SettingsInv, ServedFrame
  <2>2. TopicInv'
    BY <1>1, <1>3, <1>9 DEF SettingsInv, TopicInv, ServedFrame
  <2> QED BY <1>3, <1>5, <1>6, <1>8, <2>1, <2>2 DEF SettingsInv
<1>10. CASE c.op = "visibility"
  <2>1. TopicInv'
    BY <1>1, <1>3, <1>10, TopicKept DEF SettingsInv, ServedFrame
  <2>2. \A e \in CallsTo("visibility")' : e.calm => e = d
    <3>1. Alone' /\ d \in CallsTo("visibility")'
      BY <1>3, <1>10
    <3> QED BY <3>1, AloneInNext
  <2>3. VisibilityInv'
    BY <1>1, <1>3, <1>10, <2>2 DEF SettingsInv, VisibilityInv, ServedFrame
  <2> QED BY <1>3, <1>5, <1>6, <1>8, <2>1, <2>3 DEF SettingsInv
<1> QED BY <1>1, <1>9, <1>10

-----------------------------------------------------------------------------
\* The page asks for something, or hears of it.

\* Steps that change neither the room nor the lists.
LEMMA ListsKept ==
    ASSUME SettingsInv, sOpen' => sOpen,
           UNCHANGED <<sRole, sRequested, sExists, sMembers, sRequests, sAskedRoom,
                       sRoomAnswers, sAskedRequests, sRequestAnswers>>,
           \A o \in {"leave", "delete", "remove", "approve", "deny"} :
               o \in OkOps => o \in OkOps',
           "members" \in sBehind => "members" \in sBehind',
           "requests" \in sBehind => "requests" \in sBehind'
    PROVE  MembersInv' /\ RequestsInv'
<1>1. (Going => Going') /\ (RoomComes => RoomComes') /\ (RequestsCome => RequestsCome')
  BY DEF Going, RoomComes, RequestsCome
<1>2. (RS!check_room_access' <=> RS!check_room_access) /\ RS!Requests' = RS!Requests
  BY DEF RS!Requests, RS!check_room_access, RS!require_room_op
<1>3. MembersInv'
  BY <1>1, <1>2, MembersKept DEF SettingsInv
<1>4. RequestsInv'
  BY <1>1, <1>2, RequestsKept DEF SettingsInv
<1> QED BY <1>3, <1>4

LEMMA PageAsked ==
    ASSUME SettingsInv, NEW op \in {"remove", "op", "approve", "deny", "leave", "delete"},
           NEW u \in People, op = "remove" => u # Me, op = "leave" => u = Me, RS!Click(op, u)
    PROVE  SettingsInv'
<1> DEFINE c == [op |-> op, arg |-> u, at |-> "sent", calm |-> TRUE, back |-> FALSE]
<1>1. /\ sCalls' = Append(sCalls, c) /\ sClicks < SettingsCalls /\ sClicks' = sClicks + 1
      /\ UNCHANGED <<sRole, sRequested, sTopic, sVisibility, sExists, sOpen, sMembers,
                     sRequests, sTopicInput, sOriginalTopic, sSelect, sCurrent, sAskedRoom,
                     sRoomAnswers, sAskedRequests, sRequestAnswers, sEvents, sBehind>>
  BY DEF RS!Click, RS!Clicked, RS!server, RS!fields, RS!loads
<1>2. /\ c \in SetCall /\ c.op = op /\ c.arg = u /\ c.at = "sent"
      /\ c.op \notin {"topic", "visibility"}
  BY DEF SetCall, RS!Ops
<1> HIDE DEF c
<1>3. /\ sCalls' \in Seq(SetCall) /\ Alone' /\ ArgsKnown' /\ OkOps' = OkOps
      /\ \A f \in {"topic", "visibility"} : CallsTo(f)' = CallsTo(f)
  BY <1>1, <1>2, CallSent DEF SettingsInv
<1>4. RS!TypeOK'
  BY <1>1, <1>3, RoomSettingsAssumption DEF SettingsInv, RS!TypeOK, SetCall
<1>5. MembersInv' /\ RequestsInv'
  BY <1>1, <1>3, ListsKept
<1>6. TopicInv' /\ VisibilityInv'
  BY <1>1, <1>3, TopicKept, VisibilityKept DEF SettingsInv
<1> QED BY <1>3, <1>4, <1>5, <1>6 DEF SettingsInv

LEMMA Clicks ==
    ASSUME SettingsInv,
           \/ \E u \in People : \/ RS!removeMember(u) \/ RS!toggleOp(u)
                                \/ \E action \in {"approve", "deny"} :
                                      RS!handleJoinRequest(u, action)
           \/ RS!leaveRoom \/ RS!deleteRoom
    PROVE  SettingsInv'
<1>1. ASSUME NEW u \in People, RS!removeMember(u) PROVE SettingsInv'
  BY <1>1, PageAsked DEF RS!removeMember
<1>2. ASSUME NEW u \in People, RS!toggleOp(u) PROVE SettingsInv'
  BY <1>2, PageAsked DEF RS!toggleOp
<1>3. ASSUME NEW u \in People, NEW action \in {"approve", "deny"},
             RS!handleJoinRequest(u, action)
      PROVE  SettingsInv'
  BY <1>3, PageAsked DEF RS!handleJoinRequest
<1>4. ASSUME RS!leaveRoom \/ RS!deleteRoom PROVE SettingsInv'
  BY <1>4, PageAsked, RoomSettingsAssumption DEF RS!leaveRoom, RS!deleteRoom
<1> QED BY <1>1, <1>2, <1>3, <1>4

\* A save of the page finds no other under way that it could disturb, or it takes the risk.
LEMMA SaveSent ==
    ASSUME RS!TypeOK, Alone, ArgsKnown, NEW f \in {"topic", "visibility"}, NEW v,
           f = "topic" => v \in Topics, f = "visibility" => v \in RS!Visibilities,
           NEW unchanged \in BOOLEAN, NEW back \in BOOLEAN, RS!Save(f, v, unchanged, back)
    PROVE  /\ sCalls' \in Seq(SetCall) /\ Alone' /\ ArgsKnown' /\ OkOps' = OkOps
           /\ \A g : g # f => CallsTo(g)' = CallsTo(g)
           /\ \/ /\ sBehind' = sBehind /\ \A c \in CallsTo(f) : f = "topic" /\ c.arg = v
                 /\ \E d \in SetCall :
                       /\ d.at = "sent" /\ d.arg = v /\ d.calm
                       /\ CallsTo(f)' = CallsTo(f) \cup (IF unchanged THEN {} ELSE {d})
              \/ /\ sBehind' = sBehind \cup {f}
                 /\ \E c \in CallsTo(f) : f = "visibility" \/ c.arg # v
                 /\ \A e \in CallsTo(f)' : e.calm =>
                       \E c \in CallsTo(f) : /\ c.calm /\ f = "topic" /\ c.arg = v
                                             /\ e.at = c.at /\ e.arg = c.arg
<1> DEFINE d == [op |-> f, arg |-> v, at |-> "sent", calm |-> RS!Rivals(f, v) = {},
                 back |-> back]
<1>1. /\ sBehind' = (IF RS!Rivals(f, v) = {} THEN sBehind ELSE sBehind \cup {f})
      /\ sCalls' = IF unchanged THEN RS!Disturbed(f, v) ELSE Append(RS!Disturbed(f, v), d)
  BY DEF RS!Save
<1>2. /\ d \in SetCall /\ d.op = f /\ d.at = "sent" /\ d.arg = v
      /\ (d.calm <=> RS!Rivals(f, v) = {})
  BY DEF SetCall, RS!Ops
<1> HIDE DEF d
<1>3. PICK add \in BOOLEAN : add = ~unchanged
  OBVIOUS
<1>4. sCalls' = IF add THEN Append(RS!Disturbed(f, v), d) ELSE RS!Disturbed(f, v)
  BY <1>1, <1>3
<1>5. /\ sCalls' \in Seq(SetCall) /\ Alone' /\ ArgsKnown' /\ OkOps' = OkOps
      /\ \A g : g # f => CallsTo(g)' = CallsTo(g)
      /\ \A e \in CallsTo(f)' :
            \/ add /\ e = d
            \/ \E c \in CallsTo(f) : /\ e.at = c.at /\ e.arg = c.arg
                                     /\ e.calm => c.calm /\ f = "topic" /\ c.arg = v
      /\ RS!Rivals(f, v) = {} =>
            /\ CallsTo(f)' = CallsTo(f) \cup (IF add THEN {d} ELSE {})
            /\ \A c \in CallsTo(f) : f = "topic" /\ c.arg = v
      /\ RS!Rivals(f, v) # {} => \E c \in CallsTo(f) : f = "visibility" \/ c.arg # v
  BY <1>2, <1>4, CallsDisturbed
<1>6. CASE RS!Rivals(f, v) = {}
  BY <1>1, <1>2, <1>3, <1>5, <1>6
<1>7. CASE RS!Rivals(f, v) # {}
  BY <1>1, <1>2, <1>5, <1>7
<1> QED BY <1>5, <1>6, <1>7

LEMMA TopicSaved ==
    ASSUME SettingsInv, NEW v \in Topics, NEW back \in BOOLEAN, RS!saveTopic(v, back),
           sTopicInput' = v, sTopic' = sTopic
    PROVE  TopicInv'
<1>1. /\ RS!Save("topic", v, v = sOriginalTopic, back) /\ sOriginalTopic' = sOriginalTopic
      /\ (v = sOriginalTopic) \in BOOLEAN
  BY DEF RS!saveTopic
<1>2. \/ /\ sBehind' = sBehind /\ \A c \in CallsTo("topic") : c.arg = v
         /\ \E d \in SetCall :
               /\ d.at = "sent" /\ d.arg = v /\ d.calm
               /\ CallsTo("topic")' =
                     CallsTo("topic") \cup (IF v = sOriginalTopic THEN {} ELSE {d})
      \/ /\ sBehind' = sBehind \cup {"topic"} /\ \E c \in CallsTo("topic") : c.arg # v
         /\ \A e \in CallsTo("topic")' : e.calm =>
               \E c \in CallsTo("topic") : /\ c.calm /\ c.arg = v
                                           /\ e.at = c.at /\ e.arg = c.arg
  <2> DEFINE f == "topic"
  <2>1. \/ /\ sBehind' = sBehind /\ \A c \in CallsTo(f) : f = "topic" /\ c.arg = v
           /\ \E d \in SetCall :
                 /\ d.at = "sent" /\ d.arg = v /\ d.calm
                 /\ CallsTo(f)' = CallsTo(f) \cup (IF v = sOriginalTopic THEN {} ELSE {d})
        \/ /\ sBehind' = sBehind \cup {f}
           /\ \E c \in CallsTo(f) : f = "visibility" \/ c.arg # v
           /\ \A e \in CallsTo(f)' : e.calm =>
                 \E c \in CallsTo(f) : /\ c.calm /\ f = "topic" /\ c.arg = v
                                       /\ e.at = c.at /\ e.arg = c.arg
    <3>1. f \in {"topic", "visibility"} /\ (f = "visibility" => v \in RS!Visibilities)
      OBVIOUS
    <3>2. PICK same \in BOOLEAN : (same <=> v = sOriginalTopic) /\ RS!Save(f, v, same, back)
      BY <1>1
    <3> HIDE DEF f
    <3> QED BY <3>1, <3>2, SaveSent DEF SettingsInv
  <2> QED BY <2>1
<1>3. CASE /\ sBehind' = sBehind /\ \A c \in CallsTo("topic") : c.arg = v
           /\ \E d \in SetCall :
                 /\ d.at = "sent" /\ d.arg = v /\ d.calm
                 /\ CallsTo("topic")' =
                       CallsTo("topic") \cup (IF v = sOriginalTopic THEN {} ELSE {d})
  <2>1. PICK d \in SetCall :
           /\ d.at = "sent" /\ d.arg = v /\ d.calm
           /\ CallsTo("topic")' =
                 CallsTo("topic") \cup (IF v = sOriginalTopic THEN {} ELSE {d})
    BY <1>3
  <2>2. \A c \in CallsTo("topic")' : c \in CallsTo("topic") \/ (c.at = "sent" /\ c.arg = v)
    BY <2>1
  <2>3. CallsTo("topic") \subseteq CallsTo("topic")'
    BY <2>1
  <2>4. \A c \in CallsTo("topic")' : /\ c.arg = v
                                     /\ c.at = "ok" => c \in CallsTo("topic")
    BY <1>3, <2>2
  <2>5. \A c \in CallsTo("topic")' : c.at = "ok" /\ c.calm => sTopic = v
    BY <1>3, <2>4 DEF SettingsInv, TopicInv
  <2>6. ASSUME "topic" \notin sBehind
        PROVE  /\ v = sTopic \/ \E c \in CallsTo("topic")' : c.at = "sent"
               /\ sOriginalTopic = sTopic \/ \E c \in CallsTo("topic")' : c.at # "refused"
    <3>1. /\ \A c \in CallsTo("topic") : c.arg = sTopicInput
          /\ sTopicInput = sTopic \/ \E c \in CallsTo("topic") : c.at = "sent"
          /\ sOriginalTopic = sTopic \/ \E c \in CallsTo("topic") : c.at # "refused"
      BY <2>6 DEF SettingsInv, TopicInv
    <3>2. CASE v = sOriginalTopic
      BY <1>3, <2>3, <3>1, <3>2
    <3>3. CASE v # sOriginalTopic
      BY <2>1, <3>3
    <3> QED BY <3>2, <3>3
  <2> QED BY <1>1, <1>3, <2>4, <2>5, <2>6 DEF TopicInv
<1>4. CASE /\ sBehind' = sBehind \cup {"topic"} /\ \E c \in CallsTo("topic") : c.arg # v
           /\ \A e \in CallsTo("topic")' : e.calm =>
                 \E c \in CallsTo("topic") : /\ c.calm /\ c.arg = v
                                             /\ e.at = c.at /\ e.arg = c.arg
  <2>1. \A c \in CallsTo("topic") : c.calm => c.arg # v
    BY <1>4 DEF SettingsInv, TopicInv
  <2>2. \A e \in CallsTo("topic")' : ~e.calm
    BY <1>4, <2>1
  <2> QED BY <1>4, <2>2 DEF TopicInv
<1> QED BY <1>2, <1>3, <1>4

LEMMA TopicEdited ==
    ASSUME SettingsInv, (\E v \in Topics : RS!EditTopic(v)) \/ RS!Back
    PROVE  SettingsInv'
<1>1. PICK v \in Topics, back \in BOOLEAN :
         /\ RS!saveTopic(v, back) /\ sTopicInput' = v
         /\ sOpen /\ sOpen' \in BOOLEAN /\ sClicks < SettingsCalls /\ sClicks' = sClicks + 1
         /\ UNCHANGED <<sRole, sRequested, sTopic, sVisibility, sExists, sMembers, sRequests,
                        sSelect, sCurrent, sAskedRoom, sRoomAnswers, sAskedRequests,
                        sRequestAnswers, sEvents>>
  <2>1. ASSUME NEW v \in Topics, RS!EditTopic(v)
        PROVE  /\ RS!saveTopic(v, FALSE) /\ sTopicInput' = v /\ sOpen /\ sOpen' \in BOOLEAN
               /\ sClicks < SettingsCalls /\ sClicks' = sClicks + 1
               /\ UNCHANGED <<sRole, sRequested, sTopic, sVisibility, sExists, sMembers,
                              sRequests, sSelect, sCurrent, sAskedRoom, sRoomAnswers,
                              sAskedRequests, sRequestAnswers, sEvents>>
    BY <2>1 DEF RS!EditTopic, RS!Clicked, RS!server, RS!loads, SettingsInv, RS!TypeOK
  <2>2. ASSUME RS!Back
        PROVE  /\ RS!saveTopic(sTopicInput, TRUE) /\ sTopicInput' = sTopicInput
               /\ sTopicInput \in Topics /\ sOpen /\ sOpen' \in BOOLEAN
               /\ sClicks < SettingsCalls /\ sClicks' = sClicks + 1
               /\ UNCHANGED <<sRole, sRequested, sTopic, sVisibility, sExists, sMembers,
                              sRequests, sSelect, sCurrent, sAskedRoom, sRoomAnswers,
                              sAskedRequests, sRequestAnswers, sEvents>>
    BY <2>2 DEF RS!Back, RS!Clicked, RS!server, RS!loads, SettingsInv, RS!TypeOK
  <2> QED BY <2>1, <2>2
<1>2. /\ RS!Save("topic", v, v = sOriginalTopic, back) /\ sOriginalTopic' = sOriginalTopic
      /\ (v = sOriginalTopic) \in BOOLEAN
  BY <1>1 DEF RS!saveTopic
<1>3. /\ sCalls' \in Seq(SetCall) /\ Alone' /\ ArgsKnown' /\ OkOps' = OkOps
      /\ CallsTo("visibility")' = CallsTo("visibility")
      /\ sBehind' = sBehind \/ sBehind' = sBehind \cup {"topic"}
  BY <1>2, SaveSent DEF SettingsInv
<1>4. RS!TypeOK'
  BY <1>1, <1>2, <1>3, RoomSettingsAssumption DEF SettingsInv, RS!TypeOK, SetCall
<1>5. MembersInv' /\ RequestsInv'
  BY <1>1, <1>3, ListsKept
<1>6. VisibilityInv'
  BY <1>1, <1>3, VisibilityKept DEF SettingsInv
<1>7. TopicInv'
  BY <1>1, TopicSaved
<1> QED BY <1>3, <1>4, <1>5, <1>6, <1>7 DEF SettingsInv

LEMMA VisibilityChosen ==
    ASSUME SettingsInv, NEW v \in RS!Visibilities, RS!saveVisibility(v)
    PROVE  SettingsInv'
<1>1. /\ RS!Save("visibility", v, v = sCurrent, FALSE) /\ (v = sCurrent) \in BOOLEAN
      /\ sOpen /\ sClicks < SettingsCalls /\ sClicks' = sClicks + 1 /\ sSelect' = v
      /\ UNCHANGED <<sRole, sRequested, sTopic, sVisibility, sExists, sOpen, sMembers,
                     sRequests, sTopicInput, sOriginalTopic, sCurrent, sAskedRoom,
                     sRoomAnswers, sAskedRequests, sRequestAnswers, sEvents>>
  BY DEF RS!saveVisibility, RS!Clicked, RS!server, RS!loads
<1>2. /\ sCalls' \in Seq(SetCall) /\ Alone' /\ ArgsKnown' /\ OkOps' = OkOps
      /\ CallsTo("topic")' = CallsTo("topic")
      /\ \/ /\ sBehind' = sBehind /\ CallsTo("visibility") = {}
            /\ \E d \in SetCall :
                  /\ d.at = "sent" /\ d.arg = v /\ d.calm
                  /\ CallsTo("visibility")' = IF v = sCurrent THEN {} ELSE {d}
         \/ /\ sBehind' = sBehind \cup {"visibility"}
            /\ \A e \in CallsTo("visibility")' : ~e.calm
  <2>1. RS!TypeOK /\ Alone /\ ArgsKnown
    BY DEF SettingsInv
  <2>2. "visibility" \in {"topic", "visibility"} /\ FALSE \in BOOLEAN
    OBVIOUS
  <2>3. v \in RS!Visibilities /\ ("visibility" = "topic" => v \in Topics)
    OBVIOUS
  <2>4. /\ sCalls' \in Seq(SetCall) /\ Alone' /\ ArgsKnown' /\ OkOps' = OkOps
        /\ \A g : g # "visibility" => CallsTo(g)' = CallsTo(g)
        /\ \/ /\ sBehind' = sBehind
              /\ \A c \in CallsTo("visibility") : "visibility" = "topic" /\ c.arg = v
              /\ \E d \in SetCall :
                    /\ d.at = "sent" /\ d.arg = v /\ d.calm
                    /\ CallsTo("visibility")' =
                          CallsTo("visibility") \cup (IF v = sCurrent THEN {} ELSE {d})
           \/ /\ sBehind' = sBehind \cup {"visibility"}
              /\ \E c \in CallsTo("visibility") :
                    "visibility" = "visibility" \/ c.arg # v
              /\ \A e \in CallsTo("visibility")' : e.calm =>
                    \E c \in CallsTo("visibility") :
                       /\ c.calm /\ "visibility" = "topic" /\ c.arg = v
                       /\ e.at = c.at /\ e.arg = c.arg
    BY <1>1, <2>1, <2>2, <2>3, SaveSent, ZenonT(60)
  <2> QED BY <2>4
<1>3. RS!TypeOK'
  BY <1>1, <1>2, RoomSettingsAssumption DEF SettingsInv, RS!TypeOK, SetCall
<1>4. MembersInv' /\ RequestsInv'
  BY <1>1, <1>2, ListsKept
<1>5. TopicInv'
  BY <1>1, <1>2, TopicKept DEF SettingsInv
<1>6. VisibilityInv'
  BY <1>1, <1>2 DEF SettingsInv, VisibilityInv
<1> QED BY <1>2, <1>3, <1>4, <1>5, <1>6 DEF SettingsInv

LEMMA FieldChangedElsewhere ==
    ASSUME SettingsInv, NEW t \in Topics, NEW v \in RS!Visibilities, RS!FieldElsewhere(t, v)
    PROVE  SettingsInv'
<1>1. PICK f \in {"topic", "visibility"} :
         /\ sCalls' = RS!Disturbed(f, IF f = "topic" THEN t ELSE v)
         /\ sTopic' = (IF f = "topic" THEN t ELSE sTopic)
         /\ sVisibility' = (IF f = "topic" THEN sVisibility ELSE v)
         /\ sBehind' = sBehind \cup {f} /\ sEvents < SettingsEvents /\ sEvents' = sEvents + 1
         /\ UNCHANGED <<sRole, sRequested, sExists, sOpen, sMembers, sRequests, sTopicInput,
                        sOriginalTopic, sSelect, sCurrent, sAskedRoom, sRoomAnswers,
                        sAskedRequests, sRequestAnswers, sClicks>>
  <2>1. /\ \/ /\ sTopic' = t /\ UNCHANGED sVisibility
              /\ sBehind' = sBehind \cup {"topic"} /\ sCalls' = RS!Disturbed("topic", t)
           \/ /\ sVisibility' = v /\ UNCHANGED sTopic
              /\ sBehind' = sBehind \cup {"visibility"}
              /\ sCalls' = RS!Disturbed("visibility", v)
        /\ sEvents < SettingsEvents /\ sEvents' = sEvents + 1
        /\ UNCHANGED <<sRole, sRequested, sExists, sOpen, sMembers, sRequests, sTopicInput,
                       sOriginalTopic, sSelect, sCurrent, sAskedRoom, sRoomAnswers,
                       sAskedRequests, sRequestAnswers, sClicks>>
    BY DEF RS!FieldElsewhere, RS!Event, RS!fields, RS!loads
  <2> QED BY <2>1
<1> DEFINE w == IF f = "topic" THEN t ELSE v
           d == [op |-> f, arg |-> w, at |-> "sent", calm |-> FALSE, back |-> FALSE]
           add == FALSE
<1>2. /\ d \in SetCall /\ d.op = f /\ d.at = "sent" /\ ~d.calm /\ add \in BOOLEAN /\ ~add
      /\ f = "topic" => d.arg \in Topics
      /\ f = "visibility" => d.arg \in RS!Visibilities
      /\ sCalls' = IF add THEN Append(RS!Disturbed(f, w), d) ELSE RS!Disturbed(f, w)
  BY <1>1 DEF SetCall, RS!Ops
<1> HIDE DEF d, add
<1>3. /\ sCalls' \in Seq(SetCall) /\ Alone' /\ ArgsKnown' /\ OkOps' = OkOps
      /\ \A g : g # f => CallsTo(g)' = CallsTo(g)
      /\ \A e \in CallsTo(f)' :
            \/ add /\ e = d
            \/ \E c \in CallsTo(f) : /\ e.at = c.at /\ e.arg = c.arg
                                     /\ e.calm => c.calm /\ f = "topic" /\ c.arg = w
  <2> HIDE DEF w
  <2> QED BY <1>2, CallsDisturbed DEF SettingsInv
<1>4. \A e \in CallsTo(f)' :
         \E c \in CallsTo(f) : /\ e.at = c.at /\ e.arg = c.arg
                               /\ e.calm => c.calm /\ f = "topic" /\ c.arg = w
  BY <1>2, <1>3
<1>5. RS!TypeOK'
  BY <1>1, <1>3, RoomSettingsAssumption DEF SettingsInv, RS!TypeOK, SetCall
<1>6. MembersInv' /\ RequestsInv'
  BY <1>1, <1>3, ListsKept
<1>7. CASE f = "topic"
  <2>1. VisibilityInv'
    BY <1>1, <1>3, <1>7, VisibilityKept DEF SettingsInv
  <2>2. ASSUME NEW e \in CallsTo("topic")', e.calm
        PROVE  /\ \A d2 \in CallsTo("topic")' : d2.arg = e.arg
               /\ sTopicInput = e.arg /\ e.arg = t
    <3>1. PICK c \in CallsTo("topic") : e.arg = c.arg /\ c.calm /\ c.arg = w
      BY <1>4, <1>7, <2>2
    <3>2. (\A d2 \in CallsTo("topic") : d2.arg = c.arg) /\ sTopicInput = c.arg
      BY <3>1 DEF SettingsInv, TopicInv
    <3> QED BY <1>4, <1>7, <3>1, <3>2
  <2>3. TopicInv'
    BY <1>1, <1>7, <2>2 DEF TopicInv
  <2> QED BY <1>3, <1>5, <1>6, <2>1, <2>3 DEF SettingsInv
<1>8. CASE f = "visibility"
  <2>1. TopicInv'
    BY <1>1, <1>3, <1>8, TopicKept DEF SettingsInv
  <2>2. \A e \in CallsTo("visibility")' : ~e.calm
    BY <1>4, <1>8
  <2>3. VisibilityInv'
    BY <1>1, <1>8, <2>2 DEF VisibilityInv
  <2> QED BY <1>3, <1>5, <1>6, <2>1, <2>3 DEF SettingsInv
<1> QED BY <1>7, <1>8

-----------------------------------------------------------------------------
\* Answers that are out of date.
Old(answers) == [i \in DOMAIN answers |-> [answers[i] EXCEPT !.fresh = FALSE]]

LEMMA LeftOld ==
    ASSUME RS!TypeOK, NEW L \in SUBSET RS!Lists, RS!LeftBehind(L)
    PROVE  /\ sBehind' = sBehind \cup L
           /\ sRoomAnswers' \in Seq(RoomAnswer) /\ sRequestAnswers' \in Seq(RequestAnswer)
           /\ "members" \notin L => sRoomAnswers' = sRoomAnswers
           /\ "requests" \notin L => sRequestAnswers' = sRequestAnswers
           /\ "members" \in L => NewRooms' = {}
           /\ "requests" \in L => NewRequests' = {}
           /\ DOMAIN sRequestAnswers' = DOMAIN sRequestAnswers
           /\ \A i \in DOMAIN sRequestAnswers :
                 sRequestAnswers'[i].follows = sRequestAnswers[i].follows
<1>1. /\ sBehind' = sBehind \cup L
      /\ sRoomAnswers' = (IF "members" \in L THEN Old(sRoomAnswers) ELSE sRoomAnswers)
      /\ sRequestAnswers' =
            IF "requests" \in L THEN Old(sRequestAnswers) ELSE sRequestAnswers
  BY DEF RS!LeftBehind, Old
<1>2. /\ sRoomAnswers \in Seq(RoomAnswer) /\ Len(sRoomAnswers) \in Nat
      /\ DOMAIN sRoomAnswers = 1 .. Len(sRoomAnswers)
      /\ sRequestAnswers \in Seq(RequestAnswer) /\ Len(sRequestAnswers) \in Nat
      /\ DOMAIN sRequestAnswers = 1 .. Len(sRequestAnswers)
  BY SettingsTypes
<1>3. /\ Old(sRoomAnswers) \in Seq(RoomAnswer)
      /\ \A i \in DOMAIN Old(sRoomAnswers) : Old(sRoomAnswers)[i].fresh = FALSE
  <2>1. ASSUME NEW i \in DOMAIN sRoomAnswers
        PROVE  /\ [sRoomAnswers[i] EXCEPT !.fresh = FALSE] \in RoomAnswer
               /\ [sRoomAnswers[i] EXCEPT !.fresh = FALSE].fresh = FALSE
    <3>1. sRoomAnswers[i] \in RoomAnswer
      BY <1>2, ElementOfSeq
    <3> QED BY <3>1 DEF RoomAnswer
  <2>2. Old(sRoomAnswers) \in Seq(RoomAnswer)
    BY <1>2, <2>1 DEF Old
  <2> QED BY <2>1, <2>2 DEF Old
<1>4. /\ Old(sRequestAnswers) \in Seq(RequestAnswer)
      /\ DOMAIN Old(sRequestAnswers) = DOMAIN sRequestAnswers
      /\ \A i \in DOMAIN sRequestAnswers :
            /\ Old(sRequestAnswers)[i].fresh = FALSE
            /\ Old(sRequestAnswers)[i].follows = sRequestAnswers[i].follows
  <2>1. ASSUME NEW i \in DOMAIN sRequestAnswers
        PROVE  /\ [sRequestAnswers[i] EXCEPT !.fresh = FALSE] \in RequestAnswer
               /\ [sRequestAnswers[i] EXCEPT !.fresh = FALSE].fresh = FALSE
               /\ [sRequestAnswers[i] EXCEPT !.fresh = FALSE].follows
                     = sRequestAnswers[i].follows
    <3>1. sRequestAnswers[i] \in RequestAnswer
      BY <1>2, ElementOfSeq
    <3> QED BY <3>1 DEF RequestAnswer
  <2>2. Old(sRequestAnswers) \in Seq(RequestAnswer)
    BY <1>2, <2>1 DEF Old
  <2> QED BY <2>1, <2>2 DEF Old
<1>5. "members" \in L => NewRooms' = {}
  BY <1>1, <1>3 DEF NewRooms
<1>6. "requests" \in L => NewRequests' = {}
  BY <1>1, <1>4 DEF NewRequests
<1> QED BY <1>1, <1>2, <1>3, <1>4, <1>5, <1>6

\* A list that is known to be left behind, with no answer to set it right, is accounted for.
LEMMA MembersLeft ==
    ASSUME "members" \in sBehind', NewRooms' = {}
    PROVE  MembersInv'
BY DEF MembersInv

LEMMA RequestsLeft ==
    ASSUME "requests" \in sBehind', NewRequests' = {}
    PROVE  RequestsInv'
BY DEF RequestsInv

LEMMA RoleChangedElsewhere ==
    ASSUME SettingsInv, NEW u \in People, NEW r \in RS!Ranks \cup {"none"},
           RS!RoleElsewhere(u, r)
    PROVE  SettingsInv'
<1> DEFINE L == IF u = Me THEN RS!Lists ELSE {"members"}
<1>1. /\ sRole' = [sRole EXCEPT ![u] = r] /\ RS!LeftBehind(L)
      /\ sEvents < SettingsEvents /\ sEvents' = sEvents + 1
      /\ UNCHANGED <<sRequested, sTopic, sVisibility, sExists, sOpen, sMembers, sRequests,
                     sTopicInput, sOriginalTopic, sSelect, sCurrent, sAskedRoom,
                     sAskedRequests, sCalls, sClicks>>
  BY DEF RS!RoleElsewhere, RS!Event, RS!fields
<1>2. L \in SUBSET RS!Lists /\ "members" \in L /\ (u = Me => "requests" \in L)
  BY DEF RS!Lists
<1>3. u # Me => "requests" \notin L
  OBVIOUS
<1> HIDE DEF L
<1>4. /\ sBehind' = sBehind \cup L
      /\ sRoomAnswers' \in Seq(RoomAnswer) /\ sRequestAnswers' \in Seq(RequestAnswer)
      /\ NewRooms' = {}
      /\ "requests" \notin L => sRequestAnswers' = sRequestAnswers
      /\ "requests" \in L => NewRequests' = {}
  BY <1>1, <1>2, LeftOld DEF SettingsInv
<1>5. ArgsKnown' /\ Alone' /\ CallsTo("topic")' = CallsTo("topic")
      /\ CallsTo("visibility")' = CallsTo("visibility") /\ OkOps' = OkOps
  BY <1>1 DEF SettingsInv, ArgsKnown, Alone, CallsTo, SetCalls, OkOps
<1>6. RS!TypeOK'
  <2>1. sRole' \in RS!Roles
    BY <1>1 DEF SettingsInv, RS!TypeOK, RS!Roles
  <2> QED BY <1>1, <1>2, <1>4, <2>1, RoomSettingsAssumption
          DEF SettingsInv, RS!TypeOK, RoomAnswer, RequestAnswer, RS!Lists
<1>7. MembersInv'
  BY <1>2, <1>4, MembersLeft
<1>8. RequestsInv'
  <2>1. CASE u = Me
    BY <1>2, <1>4, <2>1, RequestsLeft
  <2>2. CASE u # Me
    <3>1. sRole'[Me] = sRole[Me] /\ sRequestAnswers' = sRequestAnswers
      BY <1>1, <1>3, <1>4, <2>2 DEF SettingsInv, RS!TypeOK, RS!Roles
    <3>2. RS!Requests' = RS!Requests
      BY <1>1, <3>1 DEF RS!Requests, RS!check_room_access, RS!require_room_op
    <3>3. RequestsCome => RequestsCome'
      BY <1>1, <1>5 DEF RequestsCome, Going
    <3> QED BY <1>1, <1>4, <3>1, <3>2, <3>3, RequestsKept DEF SettingsInv
  <2> QED BY <2>1, <2>2
<1>9. "topic" \notin L /\ "visibility" \notin L
  BY <1>2 DEF RS!Lists
<1>10. TopicInv' /\ VisibilityInv'
  BY <1>1, <1>4, <1>5, TopicKept, VisibilityKept DEF SettingsInv
<1> QED BY <1>5, <1>6, <1>7, <1>8, <1>10 DEF SettingsInv

\* What has changed, and what is known to be behind for it.
LEMMA RequestChangedElsewhere ==
    ASSUME SettingsInv, NEW u \in People, RS!RequestElsewhere(u)
    PROVE  SettingsInv'
<1>1. PICK L \in {{"requests"}, RS!Lists} :
         /\ RS!LeftBehind(L) /\ sRequested' \subseteq People
         /\ sRole' \in RS!Roles /\ (sRole' # sRole => L = RS!Lists)
  <2>1. \/ /\ sRequested' = sRequested \cup {u} /\ UNCHANGED sRole
           /\ RS!LeftBehind({"requests"})
        \/ /\ sRequested' = sRequested \ {u} /\ UNCHANGED sRole
           /\ RS!LeftBehind({"requests"})
        \/ /\ sRequested' = sRequested \ {u}
           /\ sRole' = [sRole EXCEPT ![u] = "member"] /\ RS!LeftBehind(RS!Lists)
    BY DEF RS!RequestElsewhere
  <2>2. sRequested \subseteq People /\ sRole \in RS!Roles
    BY DEF SettingsInv, RS!TypeOK
  <2>3. [sRole EXCEPT ![u] = "member"] \in RS!Roles
    BY <2>2 DEF RS!Roles, RS!Ranks
  <2> QED BY <2>1, <2>2, <2>3
<1>2. /\ sEvents < SettingsEvents /\ sEvents' = sEvents + 1
      /\ UNCHANGED <<sTopic, sVisibility, sExists, sOpen, sMembers, sRequests, sTopicInput,
                     sOriginalTopic, sSelect, sCurrent, sAskedRoom, sAskedRequests, sCalls,
                     sClicks>>
  BY DEF RS!RequestElsewhere, RS!Event, RS!fields
<1>3. L \in SUBSET RS!Lists /\ "requests" \in L /\ "topic" \notin L /\ "visibility" \notin L
  BY DEF RS!Lists
<1>4. /\ sBehind' = sBehind \cup L
      /\ sRoomAnswers' \in Seq(RoomAnswer) /\ sRequestAnswers' \in Seq(RequestAnswer)
      /\ "members" \notin L => sRoomAnswers' = sRoomAnswers
      /\ "members" \in L => NewRooms' = {}
      /\ NewRequests' = {}
      /\ DOMAIN sRequestAnswers' = DOMAIN sRequestAnswers
      /\ \A i \in DOMAIN sRequestAnswers :
            sRequestAnswers'[i].follows = sRequestAnswers[i].follows
  BY <1>1, <1>3, LeftOld DEF SettingsInv
<1>5. /\ ArgsKnown' /\ Alone' /\ CallsTo("topic")' = CallsTo("topic")
      /\ CallsTo("visibility")' = CallsTo("visibility") /\ OkOps' = OkOps
  BY <1>2 DEF SettingsInv, ArgsKnown, Alone, CallsTo, SetCalls, OkOps
<1>6. RS!TypeOK'
  BY <1>1, <1>2, <1>3, <1>4, RoomSettingsAssumption
  DEF SettingsInv, RS!TypeOK, RoomAnswer, RequestAnswer, RS!Lists
<1>7. RequestsInv'
  BY <1>3, <1>4, RequestsLeft
<1>8. MembersInv'
  <2>1. CASE L = RS!Lists
    <3>1. "members" \in L
      BY <2>1 DEF RS!Lists
    <3> QED BY <1>4, <3>1, MembersLeft
  <2>2. CASE L = {"requests"}
    <3>1. L # RS!Lists /\ "members" \notin L
      BY <2>2 DEF RS!Lists
    <3>2. sRole' = sRole /\ sRoomAnswers' = sRoomAnswers
      BY <1>1, <1>4, <3>1
    <3>3. (Going => Going') /\ (RoomComes => RoomComes')
      BY <1>2, <1>4, <1>5 DEF RoomComes, Going
    <3>4. RS!check_room_access' <=> RS!check_room_access
      BY <1>2, <3>2 DEF RS!check_room_access
    <3> QED BY <1>2, <1>4, <3>2, <3>3, <3>4, MembersKept DEF SettingsInv
  <2> QED BY <2>1, <2>2
<1>10. TopicInv' /\ VisibilityInv'
  BY <1>2, <1>3, <1>4, <1>5, TopicKept, VisibilityKept
  DEF SettingsInv
<1> QED BY <1>5, <1>6, <1>7, <1>8, <1>10 DEF SettingsInv

-----------------------------------------------------------------------------
\* The server answers the loads, or they are lost.
LoadFrame ==
    UNCHANGED <<sRole, sRequested, sTopic, sVisibility, sExists, sOpen, sTopicInput,
                sOriginalTopic, sSelect, sCalls, sClicks>>

LEMMA LoadLeaves ==
    ASSUME SettingsInv, LoadFrame,
           sCurrent' = sCurrent \/ sCurrent' = sVisibility \/ "visibility" \in sBehind',
           "topic" \in sBehind => "topic" \in sBehind',
           "visibility" \in sBehind => "visibility" \in sBehind'
    PROVE  /\ TopicInv' /\ VisibilityInv' /\ ArgsKnown' /\ Alone' /\ OkOps' = OkOps
           /\ Going' = Going /\ RS!Requests' = RS!Requests
           /\ (RS!check_room_access' <=> RS!check_room_access)
<1>1. /\ ArgsKnown' /\ Alone' /\ CallsTo("topic")' = CallsTo("topic")
      /\ CallsTo("visibility")' = CallsTo("visibility") /\ OkOps' = OkOps
  BY DEF SettingsInv, ArgsKnown, Alone, CallsTo, SetCalls, OkOps, LoadFrame
<1>2. TopicInv' /\ VisibilityInv'
  BY <1>1, TopicKept, VisibilityKept DEF SettingsInv, LoadFrame
<1>3. /\ RS!Requests' = RS!Requests
      /\ (RS!check_room_access' <=> RS!check_room_access)
  BY DEF LoadFrame, RS!Requests, RS!check_room_access, RS!require_room_op
<1> QED BY <1>1, <1>2, <1>3 DEF Going

LEMMA RoomAnswered ==
    ASSUME SettingsInv, RS!get_room_detail
    PROVE  SettingsInv'
<1> DEFINE a == [found |-> RS!check_room_access, role |-> sRole,
                 visibility |-> sVisibility, fresh |-> TRUE]
           last == Len(sRoomAnswers) + 1
<1>1. /\ LoadFrame /\ sAskedRoom > 0 /\ sAskedRoom' = sAskedRoom - 1
      /\ sRoomAnswers' = Append(sRoomAnswers, a)
      /\ UNCHANGED <<sMembers, sRequests, sCurrent, sAskedRequests, sRequestAnswers, sBehind,
                     sEvents>>
  BY DEF RS!get_room_detail, LoadFrame, RS!server, RS!fields, RS!bounds
<1>2. /\ a \in RoomAnswer /\ a.role = sRole /\ a.fresh
      /\ (a.found <=> RS!check_room_access)
  <2>1. RS!check_room_access \in BOOLEAN
    BY DEF RS!check_room_access, SettingsInv, RS!TypeOK
  <2> QED BY <2>1 DEF SettingsInv, RS!TypeOK, RoomAnswer
<1> HIDE DEF a
<1>3. sRoomAnswers \in Seq(RoomAnswer)
  BY SettingsTypes DEF SettingsInv
<1>4. /\ sRoomAnswers' \in Seq(RoomAnswer) /\ sRoomAnswers'[last] = a
      /\ \A i \in DOMAIN sRoomAnswers : sRoomAnswers'[i] = sRoomAnswers[i]
      /\ DOMAIN sRoomAnswers' = DOMAIN sRoomAnswers \cup {last}
      /\ \A i \in DOMAIN sRoomAnswers : i < last /\ i \in Nat
      /\ last \in Nat
  <2>1. /\ sRoomAnswers' \in Seq(RoomAnswer) /\ Len(sRoomAnswers') = last
        /\ sRoomAnswers'[last] = a
        /\ \A i \in 1 .. Len(sRoomAnswers) : sRoomAnswers'[i] = sRoomAnswers[i]
    BY <1>1, <1>2, <1>3, AppendProperties
  <2>2. /\ DOMAIN sRoomAnswers' = 1 .. last /\ DOMAIN sRoomAnswers = 1 .. Len(sRoomAnswers)
        /\ Len(sRoomAnswers) \in Nat
    BY <1>3, <2>1
  <2> QED BY <2>1, <2>2
<1> HIDE DEF last
<1>5. NewRooms' = NewRooms \cup (IF RS!check_room_access THEN {last} ELSE {})
  BY <1>2, <1>4 DEF NewRooms
<1>6. /\ TopicInv' /\ VisibilityInv' /\ ArgsKnown' /\ Alone' /\ OkOps' = OkOps
      /\ Going' = Going /\ RS!Requests' = RS!Requests
      /\ (RS!check_room_access' <=> RS!check_room_access)
  BY <1>1, LoadLeaves
<1>7. RS!TypeOK'
  BY <1>1, <1>4 DEF SettingsInv, RS!TypeOK, LoadFrame, RoomAnswer
<1>8. RequestsInv'
  <2>1. RequestsCome => RequestsCome'
    BY <1>1, <1>6 DEF RequestsCome
  <2> QED BY <1>1, <1>6, <2>1, RequestsKept DEF SettingsInv, LoadFrame
<1>9. MembersInv'
  <2>1. CASE Going
    BY <1>6, <2>1 DEF MembersInv, RoomComes
  <2>2. CASE ~Going /\ ~RS!check_room_access
    <3>1. NewRooms' = NewRooms
      BY <1>5, <2>2
    <3>2. sOpen => "members" \in sBehind /\ NewRooms = {}
      BY <2>2 DEF SettingsInv, MembersInv
    <3> QED BY <1>1, <3>1, <3>2, MembersLeft DEF MembersInv, LoadFrame
  <2>3. CASE ~Going /\ RS!check_room_access
    <3>1. last \in NewRooms' /\ sRoomAnswers'[last].role = sRole'
      BY <1>1, <1>2, <1>4, <1>5, <2>3 DEF LoadFrame
    <3>2. \A i \in NewRooms' : i <= last
      BY <1>4, <1>5 DEF NewRooms
    <3>3. \A i \in NewRooms' : sOpen => sRoomAnswers'[i].role[Me] = sRole'[Me]
      <4>1. \A i \in NewRooms : sOpen => sRoomAnswers[i].role[Me] = sRole[Me]
        BY <2>3 DEF SettingsInv, MembersInv
      <4>2. sRole' = sRole
        BY <1>1 DEF LoadFrame
      <4> QED BY <1>4, <1>5, <3>1, <4>1, <4>2 DEF NewRooms
    <3>4. \A i \in DOMAIN sRoomAnswers' : \/ sRoomAnswers'[i].found
                                          \/ ~sOpen \/ \A k \in NewRooms' : k > i
      <4>1. ASSUME NEW i \in DOMAIN sRoomAnswers', ~sRoomAnswers'[i].found, sOpen,
                   NEW k \in NewRooms'
            PROVE  k > i
        <5>1. i \in DOMAIN sRoomAnswers /\ ~sRoomAnswers[i].found
          BY <1>2, <1>4, <2>3, <4>1
        <5>2. \A k2 \in NewRooms : k2 > i
          BY <2>3, <4>1, <5>1 DEF SettingsInv, MembersInv
        <5> QED BY <1>4, <1>5, <5>1, <5>2
      <4> QED BY <4>1
    <3> QED BY <1>1, <1>6, <2>3, <3>1, <3>2, <3>3, <3>4 DEF MembersInv, LoadFrame
  <2> QED BY <2>1, <2>2, <2>3
<1> QED BY <1>6, <1>7, <1>8, <1>9 DEF SettingsInv

LEMMA RequestsAnswered ==
    ASSUME SettingsInv, NEW f \in BOOLEAN, RS!list_join_requests(f)
    PROVE  SettingsInv'
<1> DEFINE a == [is |-> RS!Requests, follows |-> f, fresh |-> TRUE]
           last == Len(sRequestAnswers) + 1
<1>1. /\ LoadFrame /\ sAskedRequests[f] > 0
      /\ sAskedRequests' = [sAskedRequests EXCEPT ![f] = @ - 1]
      /\ sRequestAnswers' = Append(sRequestAnswers, a)
      /\ UNCHANGED <<sMembers, sRequests, sCurrent, sAskedRoom, sRoomAnswers, sBehind,
                     sEvents>>
  BY DEF RS!list_join_requests, LoadFrame, RS!server, RS!fields, RS!bounds
<1>2. a \in RequestAnswer /\ a.is = RS!Requests /\ a.fresh /\ a.follows = f
  BY DEF SettingsInv, RS!TypeOK, RequestAnswer, RS!Requests
<1> HIDE DEF a
<1>3. sRequestAnswers \in Seq(RequestAnswer)
  BY SettingsTypes DEF SettingsInv
<1>4. /\ sRequestAnswers' \in Seq(RequestAnswer) /\ sRequestAnswers'[last] = a
      /\ \A i \in DOMAIN sRequestAnswers : sRequestAnswers'[i] = sRequestAnswers[i]
      /\ DOMAIN sRequestAnswers' = DOMAIN sRequestAnswers \cup {last}
      /\ \A i \in DOMAIN sRequestAnswers' : i <= last
  <2>1. /\ sRequestAnswers' \in Seq(RequestAnswer) /\ Len(sRequestAnswers') = last
        /\ sRequestAnswers'[last] = a
        /\ \A i \in 1 .. Len(sRequestAnswers) : sRequestAnswers'[i] = sRequestAnswers[i]
    BY <1>1, <1>2, <1>3, AppendProperties
  <2>2. /\ DOMAIN sRequestAnswers' = 1 .. last
        /\ DOMAIN sRequestAnswers = 1 .. Len(sRequestAnswers) /\ Len(sRequestAnswers) \in Nat
    BY <1>3, <2>1
  <2> QED BY <2>1, <2>2
<1> HIDE DEF last
<1>5. /\ TopicInv' /\ VisibilityInv' /\ ArgsKnown' /\ Alone' /\ OkOps' = OkOps
      /\ Going' = Going /\ RS!Requests' = RS!Requests
      /\ (RS!check_room_access' <=> RS!check_room_access)
  BY <1>1, LoadLeaves
<1>6. RS!TypeOK'
  <2>1. sAskedRequests' \in [BOOLEAN -> Nat]
    BY <1>1 DEF SettingsInv, RS!TypeOK
  <2> QED BY <1>1, <1>4, <2>1 DEF SettingsInv, RS!TypeOK, LoadFrame, RequestAnswer
<1>7. RequestsInv'
  <2>1. last \in NewRequests' /\ sRequestAnswers'[last].is = RS!Requests'
    BY <1>2, <1>4, <1>5 DEF NewRequests
  <2>2. \A i \in NewRequests' : i <= last
    BY <1>4 DEF NewRequests
  <2> QED BY <2>1, <2>2 DEF RequestsInv
<1>8. MembersInv'
  <2>1. RoomComes => RoomComes'
    <3>1. CASE f = TRUE
      BY <1>2, <1>4, <3>1 DEF RoomComes
    <3>2. CASE f = FALSE
      <4>1. sAskedRequests'[TRUE] = sAskedRequests[TRUE]
        BY <1>1, <3>2 DEF SettingsInv, RS!TypeOK
      <4>2. \A i \in DOMAIN sRequestAnswers :
               /\ i \in DOMAIN sRequestAnswers'
               /\ sRequestAnswers'[i].follows = sRequestAnswers[i].follows
        BY <1>4
      <4> QED BY <1>1, <1>5, <4>1, <4>2 DEF RoomComes
    <3> QED BY <3>1, <3>2
  <2> QED BY <1>1, <1>5, <2>1, MembersKept DEF SettingsInv, LoadFrame
<1> QED BY <1>5, <1>6, <1>7, <1>8 DEF SettingsInv

LEMMA RoomLoadLost ==
    ASSUME SettingsInv, RS!ReloadLost
    PROVE  SettingsInv'
<1> DEFINE L == {"members"}
<1>1. /\ LoadFrame /\ sAskedRoom > 0 /\ sAskedRoom' = sAskedRoom - 1 /\ RS!LeftBehind(L)
      /\ sEvents < SettingsEvents /\ sEvents' = sEvents + 1
      /\ UNCHANGED <<sMembers, sRequests, sCurrent, sAskedRequests>>
  BY DEF RS!ReloadLost, RS!Event, LoadFrame, RS!server, RS!fields
<1>2. L \in SUBSET RS!Lists /\ "members" \in L /\ "requests" \notin L
  BY DEF RS!Lists
<1> HIDE DEF L
<1>3. /\ sBehind' = sBehind \cup L
      /\ sRoomAnswers' \in Seq(RoomAnswer) /\ sRequestAnswers' = sRequestAnswers
      /\ NewRooms' = {}
  BY <1>1, <1>2, LeftOld DEF SettingsInv
<1>4. /\ TopicInv' /\ VisibilityInv' /\ ArgsKnown' /\ Alone' /\ OkOps' = OkOps
      /\ Going' = Going /\ RS!Requests' = RS!Requests
  BY <1>1, <1>3, LoadLeaves
<1>5. RS!TypeOK'
  BY <1>1, <1>2, <1>3, RoomSettingsAssumption
  DEF SettingsInv, RS!TypeOK, LoadFrame, RoomAnswer, RS!Lists
<1>6. MembersInv'
  BY <1>2, <1>3, MembersLeft
<1>7. RequestsInv'
  <2>1. RequestsCome => RequestsCome'
    BY <1>1, <1>4 DEF RequestsCome
  <2> QED BY <1>1, <1>3, <1>4, <2>1, RequestsKept DEF SettingsInv, LoadFrame
<1> QED BY <1>4, <1>5, <1>6, <1>7 DEF SettingsInv

LEMMA RequestsLoadLost ==
    ASSUME SettingsInv, NEW f \in BOOLEAN, RS!RequestsLost(f)
    PROVE  SettingsInv'
<1> DEFINE L == {"requests"}
<1>1. /\ LoadFrame /\ sAskedRequests[f] > 0 /\ RS!LeftBehind(L)
      /\ sAskedRequests' = [sAskedRequests EXCEPT ![f] = @ - 1]
      /\ sAskedRoom' = (IF f THEN sAskedRoom + 1 ELSE sAskedRoom) /\ sRequests' = {}
      /\ sEvents < SettingsEvents /\ sEvents' = sEvents + 1
      /\ UNCHANGED <<sMembers, sCurrent>>
  BY DEF RS!RequestsLost, RS!Event, LoadFrame, RS!server, RS!fields
<1>2. L \in SUBSET RS!Lists /\ "requests" \in L /\ "members" \notin L
  BY DEF RS!Lists
<1> HIDE DEF L
<1>3. /\ sBehind' = sBehind \cup L
      /\ sRequestAnswers' \in Seq(RequestAnswer) /\ sRoomAnswers' = sRoomAnswers
      /\ NewRequests' = {} /\ DOMAIN sRequestAnswers' = DOMAIN sRequestAnswers
      /\ \A i \in DOMAIN sRequestAnswers :
            sRequestAnswers'[i].follows = sRequestAnswers[i].follows
  BY <1>1, <1>2, LeftOld DEF SettingsInv
<1>4. /\ TopicInv' /\ VisibilityInv' /\ ArgsKnown' /\ Alone' /\ OkOps' = OkOps
      /\ Going' = Going /\ RS!Requests' = RS!Requests
      /\ (RS!check_room_access' <=> RS!check_room_access)
  BY <1>1, <1>3, LoadLeaves
<1>5. RS!TypeOK'
  <2>1. sAskedRequests' \in [BOOLEAN -> Nat] /\ sAskedRoom' \in Nat
    BY <1>1 DEF SettingsInv, RS!TypeOK
  <2> QED BY <1>1, <1>2, <1>3, <2>1, RoomSettingsAssumption
          DEF SettingsInv, RS!TypeOK, LoadFrame, RequestAnswer, RS!Lists
<1>6. RequestsInv'
  BY <1>2, <1>3, RequestsLeft
<1>7. MembersInv'
  <2>1. RoomComes => RoomComes'
    <3>1. CASE f = TRUE
      <4>1. sAskedRoom' > 0
        BY <1>1, <3>1 DEF SettingsInv, RS!TypeOK
      <4> QED BY <4>1 DEF RoomComes
    <3>2. CASE f = FALSE
      <4>1. sAskedRequests'[TRUE] = sAskedRequests[TRUE] /\ sAskedRoom' = sAskedRoom
        BY <1>1, <3>2 DEF SettingsInv, RS!TypeOK
      <4> QED BY <1>3, <1>4, <4>1 DEF RoomComes
    <3> QED BY <3>1, <3>2
  <2> QED BY <1>1, <1>3, <1>4, <2>1, MembersKept DEF SettingsInv, LoadFrame
<1> QED BY <1>4, <1>5, <1>6, <1>7 DEF SettingsInv

-----------------------------------------------------------------------------
\* The page draws an answer: the others that are left, and which of them are new.
LEMMA WithoutOne ==
    ASSUME NEW S, NEW s \in Seq(S), NEW i \in DOMAIN s,
           \A x \in S : /\ x.fresh \in BOOLEAN /\ [x EXCEPT !.fresh = FALSE] \in S
                        /\ [x EXCEPT !.fresh = x.fresh] = x
    PROVE  /\ RS!Without(s, i) \in Seq(S)
           /\ DOMAIN RS!Without(s, i) = 1 .. Len(s) - 1
           /\ \A j \in 1 .. Len(s) - 1 :
                 RS!Without(s, i)[j] = IF j < i THEN [s[j] EXCEPT !.fresh = FALSE] ELSE s[j + 1]
<1> DEFINE A == [k \in DOMAIN s |-> [s[k] EXCEPT !.fresh = @ /\ k > i]]
<1>1. Len(s) \in Nat /\ DOMAIN s = 1 .. Len(s) /\ i \in 1 .. Len(s)
  OBVIOUS
<1>2. ASSUME NEW k \in DOMAIN s
      PROVE  /\ [s[k] EXCEPT !.fresh = @ /\ k > i] \in S
             /\ k > i => [s[k] EXCEPT !.fresh = @ /\ k > i] = s[k]
             /\ ~(k > i) => [s[k] EXCEPT !.fresh = @ /\ k > i] = [s[k] EXCEPT !.fresh = FALSE]
  <2>1. /\ s[k] \in S /\ s[k].fresh \in BOOLEAN /\ [s[k] EXCEPT !.fresh = FALSE] \in S
        /\ [s[k] EXCEPT !.fresh = s[k].fresh] = s[k]
    <3>1. s[k] \in S
      BY <1>1, ElementOfSeq
    <3> QED BY <3>1
  <2>2. CASE k > i
    <3>1. (s[k].fresh /\ k > i) = s[k].fresh
      BY <2>1, <2>2
    <3> QED BY <2>1, <2>2, <3>1
  <2>3. CASE ~(k > i)
    <3>1. (s[k].fresh /\ k > i) = FALSE
      BY <2>3
    <3> QED BY <2>1, <2>3, <3>1
  <2> QED BY <2>2, <2>3
<1>3. /\ A \in Seq(S) /\ Len(A) = Len(s) /\ DOMAIN A = DOMAIN s
      /\ \A k \in DOMAIN s : /\ k > i => A[k] = s[k]
                             /\ ~(k > i) => A[k] = [s[k] EXCEPT !.fresh = FALSE]
  <2>1. A \in Seq(S)
    <3>1. \A k \in 1 .. Len(s) : [s[k] EXCEPT !.fresh = @ /\ k > i] \in S
      BY <1>1, <1>2
    <3> QED BY <1>1, <3>1
  <2> QED BY <1>1, <1>2, <2>1
<1>4. RS!Without(s, i) = RemoveAt(A, i)
  BY DEF RS!Without, RS!RemoveAt, RemoveAt
<1> HIDE DEF A
<1>5. /\ RemoveAt(A, i) \in Seq(S) /\ Len(RemoveAt(A, i)) = Len(A) - 1
      /\ \A j \in 1 .. Len(A) - 1 : RemoveAt(A, i)[j] = A[IF j < i THEN j ELSE j + 1]
  <2>1. A \in Seq(S) /\ i \in DOMAIN A
    BY <1>3
  <2> QED BY <2>1, RemoveAtElements
<1>6. DOMAIN RemoveAt(A, i) = 1 .. Len(s) - 1
  BY <1>3, <1>5
<1>7. ASSUME NEW j \in 1 .. Len(s) - 1
      PROVE  RemoveAt(A, i)[j] = IF j < i THEN [s[j] EXCEPT !.fresh = FALSE] ELSE s[j + 1]
  <2>1. CASE j < i
    <3>1. j \in DOMAIN s /\ ~(j > i) /\ RemoveAt(A, i)[j] = A[j]
      BY <1>1, <1>3, <1>5, <2>1
    <3> QED BY <1>3, <2>1, <3>1
  <2>2. CASE ~(j < i)
    <3>1. j + 1 \in DOMAIN s /\ j + 1 > i /\ RemoveAt(A, i)[j] = A[j + 1]
      BY <1>1, <1>3, <1>5, <2>2
    <3> QED BY <1>3, <2>2, <3>1
  <2> QED BY <2>1, <2>2
<1> QED BY <1>4, <1>5, <1>6, <1>7

LEMMA RoomsLeft ==
    ASSUME RS!TypeOK, NEW i \in DOMAIN sRoomAnswers,
           sRoomAnswers' = RS!Without(sRoomAnswers, i)
    PROVE  /\ sRoomAnswers' \in Seq(RoomAnswer) /\ sRoomAnswers[i] \in RoomAnswer
           /\ \A k \in DOMAIN sRoomAnswers : k \in Nat
           /\ \A j \in DOMAIN sRoomAnswers' :
                 /\ j \in Nat
                 /\ \/ sRoomAnswers'[j].found = sRoomAnswers[j + 1].found
                       /\ j + 1 \in DOMAIN sRoomAnswers
                    \/ sRoomAnswers'[j].found = sRoomAnswers[j].found
                       /\ j \in DOMAIN sRoomAnswers /\ j < i
           /\ \A j \in NewRooms' :
                 j >= i /\ j + 1 \in NewRooms /\ sRoomAnswers'[j].role = sRoomAnswers[j + 1].role
           /\ \A k \in NewRooms : k > i =>
                 k - 1 \in NewRooms' /\ sRoomAnswers'[k - 1].role = sRoomAnswers[k].role
<1> DEFINE s == sRoomAnswers
<1>1. /\ s \in Seq(RoomAnswer) /\ Len(s) \in Nat /\ DOMAIN s = 1 .. Len(s)
      /\ i \in 1 .. Len(s)
  BY SettingsTypes
<1>2. \A x \in RoomAnswer :
         /\ x.fresh \in BOOLEAN /\ [x EXCEPT !.fresh = FALSE] \in RoomAnswer
         /\ [x EXCEPT !.fresh = x.fresh] = x
         /\ [x EXCEPT !.fresh = FALSE].found = x.found
         /\ ~[x EXCEPT !.fresh = FALSE].fresh
  BY DEF RoomAnswer
<1>3. /\ sRoomAnswers' \in Seq(RoomAnswer) /\ DOMAIN sRoomAnswers' = 1 .. Len(s) - 1
      /\ \A j \in 1 .. Len(s) - 1 :
            sRoomAnswers'[j] = IF j < i THEN [s[j] EXCEPT !.fresh = FALSE] ELSE s[j + 1]
  <2>1. \A x \in RoomAnswer :
           /\ x.fresh \in BOOLEAN /\ [x EXCEPT !.fresh = FALSE] \in RoomAnswer
           /\ [x EXCEPT !.fresh = x.fresh] = x
    BY <1>2
  <2> QED BY <1>1, <2>1, WithoutOne
<1>4. ASSUME NEW j \in DOMAIN sRoomAnswers'
      PROVE  /\ j \in Nat
             /\ j < i => /\ j \in DOMAIN s /\ sRoomAnswers'[j].found = s[j].found
                         /\ ~sRoomAnswers'[j].fresh
             /\ j >= i => j + 1 \in DOMAIN s /\ sRoomAnswers'[j] = s[j + 1]
  <2>1. j \in Nat /\ (j < i => j \in DOMAIN s) /\ (j >= i => j + 1 \in DOMAIN s)
    BY <1>1, <1>3
  <2>2. CASE j < i
    <3>1. s[j] \in RoomAnswer /\ sRoomAnswers'[j] = [s[j] EXCEPT !.fresh = FALSE]
      BY <1>1, <1>3, <2>1, <2>2, ElementOfSeq
    <3> QED BY <1>1, <1>2, <2>1, <2>2, <3>1
  <2>3. CASE j >= i
    BY <1>1, <1>3, <2>1, <2>3
  <2> QED BY <1>1, <2>1, <2>2, <2>3
<1>5. ASSUME NEW j \in NewRooms'
      PROVE  j >= i /\ j + 1 \in NewRooms /\ sRoomAnswers'[j].role = sRoomAnswers[j + 1].role
  <2>1. j \in DOMAIN sRoomAnswers' /\ sRoomAnswers'[j].fresh /\ sRoomAnswers'[j].found
    BY DEF NewRooms
  <2>2. j >= i
    BY <1>1, <1>4, <2>1
  <2> QED BY <1>4, <2>1, <2>2 DEF NewRooms
<1>6. ASSUME NEW k \in NewRooms, k > i
      PROVE  k - 1 \in NewRooms' /\ sRoomAnswers'[k - 1].role = sRoomAnswers[k].role
  <2>1. k \in DOMAIN s /\ s[k].fresh /\ s[k].found
    BY DEF NewRooms
  <2>2. k - 1 \in DOMAIN sRoomAnswers' /\ k - 1 >= i /\ (k - 1) + 1 = k
    BY <1>1, <1>3, <1>6, <2>1
  <2>3. sRoomAnswers'[k - 1] = s[k]
    BY <1>4, <2>2
  <2> QED BY <2>1, <2>2, <2>3 DEF NewRooms
<1>7. s[i] \in RoomAnswer /\ \A k \in DOMAIN s : k \in Nat
  BY <1>1, ElementOfSeq
<1>8. ASSUME NEW j \in DOMAIN sRoomAnswers'
      PROVE  /\ j \in Nat
             /\ \/ sRoomAnswers'[j].found = s[j + 1].found /\ j + 1 \in DOMAIN s
                \/ sRoomAnswers'[j].found = s[j].found /\ j \in DOMAIN s /\ j < i
  <2>1. j \in Nat /\ i \in Nat /\ (j < i \/ j >= i)
    BY <1>1, <1>4
  <2> QED BY <1>4, <2>1
<1> QED BY <1>3, <1>5, <1>6, <1>7, <1>8

LEMMA RequestsLeftOver ==
    ASSUME RS!TypeOK, NEW i \in DOMAIN sRequestAnswers,
           sRequestAnswers' = RS!Without(sRequestAnswers, i)
    PROVE  /\ sRequestAnswers' \in Seq(RequestAnswer) /\ sRequestAnswers[i] \in RequestAnswer
           /\ \A k \in DOMAIN sRequestAnswers : k \in Nat
           /\ \A k \in DOMAIN sRequestAnswers : k # i =>
                 \E j \in DOMAIN sRequestAnswers' :
                    sRequestAnswers'[j].follows = sRequestAnswers[k].follows
           /\ \A j \in NewRequests' :
                 /\ j >= i /\ j + 1 \in NewRequests
                 /\ sRequestAnswers'[j].is = sRequestAnswers[j + 1].is
           /\ \A k \in NewRequests : k > i =>
                 /\ k - 1 \in NewRequests'
                 /\ sRequestAnswers'[k - 1].is = sRequestAnswers[k].is
<1> DEFINE s == sRequestAnswers
<1>1. /\ s \in Seq(RequestAnswer) /\ Len(s) \in Nat /\ DOMAIN s = 1 .. Len(s)
      /\ i \in 1 .. Len(s)
  BY SettingsTypes
<1>2. \A x \in RequestAnswer :
         /\ x.fresh \in BOOLEAN /\ [x EXCEPT !.fresh = FALSE] \in RequestAnswer
         /\ [x EXCEPT !.fresh = x.fresh] = x
         /\ [x EXCEPT !.fresh = FALSE].follows = x.follows
         /\ ~[x EXCEPT !.fresh = FALSE].fresh
  BY DEF RequestAnswer
<1>3. /\ sRequestAnswers' \in Seq(RequestAnswer) /\ DOMAIN sRequestAnswers' = 1 .. Len(s) - 1
      /\ \A j \in 1 .. Len(s) - 1 :
            sRequestAnswers'[j] = IF j < i THEN [s[j] EXCEPT !.fresh = FALSE] ELSE s[j + 1]
  <2>1. \A x \in RequestAnswer :
           /\ x.fresh \in BOOLEAN /\ [x EXCEPT !.fresh = FALSE] \in RequestAnswer
           /\ [x EXCEPT !.fresh = x.fresh] = x
    BY <1>2
  <2> QED BY <1>1, <2>1, WithoutOne
<1>4. ASSUME NEW j \in DOMAIN sRequestAnswers'
      PROVE  /\ j \in Nat
             /\ j < i => /\ j \in DOMAIN s /\ sRequestAnswers'[j].follows = s[j].follows
                         /\ ~sRequestAnswers'[j].fresh
             /\ j >= i => j + 1 \in DOMAIN s /\ sRequestAnswers'[j] = s[j + 1]
  <2>1. j \in Nat /\ (j < i => j \in DOMAIN s) /\ (j >= i => j + 1 \in DOMAIN s)
    BY <1>1, <1>3
  <2>2. CASE j < i
    <3>1. s[j] \in RequestAnswer /\ sRequestAnswers'[j] = [s[j] EXCEPT !.fresh = FALSE]
      BY <1>1, <1>3, <2>1, <2>2, ElementOfSeq
    <3> QED BY <1>1, <1>2, <2>1, <2>2, <3>1
  <2>3. CASE j >= i
    BY <1>1, <1>3, <2>1, <2>3
  <2> QED BY <1>1, <2>1, <2>2, <2>3
<1>5. ASSUME NEW j \in NewRequests'
      PROVE  /\ j >= i /\ j + 1 \in NewRequests
             /\ sRequestAnswers'[j].is = sRequestAnswers[j + 1].is
  <2>1. j \in DOMAIN sRequestAnswers' /\ sRequestAnswers'[j].fresh
    BY DEF NewRequests
  <2>2. j >= i
    BY <1>1, <1>4, <2>1
  <2> QED BY <1>4, <2>1, <2>2 DEF NewRequests
<1>6. ASSUME NEW k \in NewRequests, k > i
      PROVE  k - 1 \in NewRequests' /\ sRequestAnswers'[k - 1].is = sRequestAnswers[k].is
  <2>1. k \in DOMAIN s /\ s[k].fresh
    BY DEF NewRequests
  <2>2. k - 1 \in DOMAIN sRequestAnswers' /\ k - 1 >= i /\ (k - 1) + 1 = k
    BY <1>1, <1>3, <1>6, <2>1
  <2>3. sRequestAnswers'[k - 1] = s[k]
    BY <1>4, <2>2
  <2> QED BY <2>1, <2>2, <2>3 DEF NewRequests
<1>7. s[i] \in RequestAnswer /\ \A k \in DOMAIN s : k \in Nat
  BY <1>1, ElementOfSeq
<1>8. ASSUME NEW k \in DOMAIN s, k # i
      PROVE  \E j \in DOMAIN sRequestAnswers' : sRequestAnswers'[j].follows = s[k].follows
  <2>1. CASE k < i
    <3>1. k \in DOMAIN sRequestAnswers'
      BY <1>1, <1>3, <2>1
    <3> QED BY <1>4, <2>1, <3>1
  <2>2. CASE k > i
    <3>1. k - 1 \in DOMAIN sRequestAnswers' /\ k - 1 >= i /\ (k - 1) + 1 = k
      BY <1>1, <1>3, <2>2
    <3>2. sRequestAnswers'[k - 1] = s[k]
      BY <1>4, <3>1
    <3> QED BY <3>1, <3>2
  <2> QED BY <1>1, <1>8, <2>1, <2>2
<1> QED BY <1>3, <1>5, <1>6, <1>7, <1>8

LEMMA OneMore ==
    ASSUME NEW a \in [BOOLEAN -> Nat], NEW f \in BOOLEAN
    PROVE  LET b == [a EXCEPT ![f] = @ + 1] IN
           /\ b \in [BOOLEAN -> Nat] /\ b[f] > 0
           /\ \A g \in BOOLEAN : (g # f => b[g] = a[g]) /\ (a[g] > 0 => b[g] > 0)
OBVIOUS

LEMMA RoomDrawn ==
    ASSUME SettingsInv, NEW i \in DOMAIN sRoomAnswers, RS!reloadRoomData(i)
    PROVE  SettingsInv'
<1> DEFINE a == sRoomAnswers[i]
           L == IF RS!Entitled(a.role[Me]) THEN {"members"} ELSE RS!Lists
           V == IF a.visibility = sVisibility THEN {} ELSE {"visibility"}
<1>1. /\ LoadFrame /\ sOpen /\ sRoomAnswers' = RS!Without(sRoomAnswers, i)
      /\ UNCHANGED <<sAskedRoom, sRequestAnswers, sEvents>>
      /\ a.found =>
            /\ sCurrent' = a.visibility /\ sMembers' = a.role
            /\ sBehind' = (IF a.fresh THEN sBehind \ L ELSE sBehind \cup L) \cup V
            /\ IF RS!Entitled(a.role[Me])
               THEN /\ sAskedRequests' = [sAskedRequests EXCEPT ![FALSE] = @ + 1]
                    /\ UNCHANGED sRequests
               ELSE sRequests' = {} /\ UNCHANGED sAskedRequests
      /\ ~a.found => UNCHANGED <<sMembers, sRequests, sCurrent, sAskedRequests, sBehind>>
  BY DEF RS!reloadRoomData, RS!displayMembers, RS!DrawnRoom, LoadFrame, RS!server, RS!bounds
<1>2. L \in {{"members"}, RS!Lists} /\ V \subseteq {"visibility"}
  OBVIOUS
<1>3. /\ sRoomAnswers' \in Seq(RoomAnswer) /\ a \in RoomAnswer
      /\ \A k \in DOMAIN sRoomAnswers : k \in Nat
      /\ \A j \in DOMAIN sRoomAnswers' :
            /\ j \in Nat
            /\ \/ sRoomAnswers'[j].found = sRoomAnswers[j + 1].found
                  /\ j + 1 \in DOMAIN sRoomAnswers
               \/ sRoomAnswers'[j].found = sRoomAnswers[j].found
                  /\ j \in DOMAIN sRoomAnswers /\ j < i
      /\ \A j \in NewRooms' :
            j >= i /\ j + 1 \in NewRooms /\ sRoomAnswers'[j].role = sRoomAnswers[j + 1].role
      /\ \A k \in NewRooms : k > i =>
            k - 1 \in NewRooms' /\ sRoomAnswers'[k - 1].role = sRoomAnswers[k].role
  BY <1>1, RoomsLeft DEF SettingsInv
<1>4. /\ a.role \in RS!Roles /\ a.visibility \in RS!Visibilities
      /\ a.found \in BOOLEAN /\ a.fresh \in BOOLEAN
  BY <1>3 DEF RoomAnswer
<1>5. a.found => sCurrent' = sVisibility \/ "visibility" \in sBehind'
  BY <1>1
<1>6. a.found /\ a.fresh <=> i \in NewRooms
  BY DEF NewRooms
<1>20. /\ sAskedRequests \in [BOOLEAN -> Nat]
       /\ \/ sAskedRequests' = sAskedRequests
          \/ sAskedRequests' = [sAskedRequests EXCEPT ![FALSE] = @ + 1]
  BY <1>1, <1>4 DEF SettingsInv, RS!TypeOK
<1>21. /\ sAskedRequests' \in [BOOLEAN -> Nat] /\ sAskedRequests'[TRUE] = sAskedRequests[TRUE]
       /\ \A f \in BOOLEAN : sAskedRequests[f] > 0 => sAskedRequests'[f] > 0
       /\ sAskedRequests' # sAskedRequests => sAskedRequests'[FALSE] > 0
  BY <1>20, OneMore
<1> HIDE DEF a, V
<1>7. /\ TopicInv' /\ VisibilityInv' /\ ArgsKnown' /\ Alone' /\ OkOps' = OkOps
      /\ Going' = Going /\ RS!Requests' = RS!Requests
      /\ (RS!check_room_access' <=> RS!check_room_access)
  <2>1. sCurrent' = sCurrent \/ sCurrent' = sVisibility \/ "visibility" \in sBehind'
    BY <1>1, <1>5
  <2>2. ("topic" \in sBehind => "topic" \in sBehind')
        /\ ("visibility" \in sBehind => "visibility" \in sBehind')
    BY <1>1, <1>2 DEF RS!Lists
  <2> QED BY <1>1, <2>1, <2>2, LoadLeaves
<1>8. RS!TypeOK'
  <2>1. sAskedRequests' \in [BOOLEAN -> Nat]
    BY <1>21
  <2>2. sMembers' \in RS!Roles /\ sRequests' \subseteq People /\ sCurrent' \in RS!Visibilities
    BY <1>1, <1>4 DEF SettingsInv, RS!TypeOK
  <2>3. sBehind' \subseteq RS!Lists \cup {"topic", "visibility"}
    BY <1>1, <1>2 DEF SettingsInv, RS!TypeOK, RS!Lists
  <2> QED BY <1>1, <1>3, <2>1, <2>2, <2>3 DEF SettingsInv, RS!TypeOK, LoadFrame, RoomAnswer
<1>9. sRole' = sRole /\ sExists' = sExists /\ sOpen' = sOpen
  BY <1>1 DEF LoadFrame
<1>10. RequestsCome => RequestsCome'
  <2>1. \A f \in BOOLEAN : sAskedRequests[f] > 0 => sAskedRequests'[f] > 0
    BY <1>21
  <2> QED BY <1>7, <2>1 DEF RequestsCome
<1>11. RoomComes => RoomComes'
  <2>1. sAskedRequests'[TRUE] = sAskedRequests[TRUE]
    BY <1>21
  <2> QED BY <1>1, <1>7, <2>1 DEF RoomComes
<1>12. MembersInv'
  <2>1. CASE Going
    BY <1>7, <2>1 DEF MembersInv, RoomComes
  <2>2. CASE ~Going
    <3>1. /\ "members" \notin sBehind =>
              sMembers = sRole \/ RoomComes \/ \E k \in NewRooms : sRoomAnswers[k].role = sRole
          /\ \A k \in NewRooms :
                /\ RoomComes \/ \E j \in NewRooms : j >= k /\ sRoomAnswers[j].role = sRole
                /\ sRoomAnswers[k].role[Me] = sRole[Me]
          /\ ~RS!check_room_access => "members" \in sBehind /\ NewRooms = {}
          /\ \A k \in DOMAIN sRoomAnswers :
                sRoomAnswers[k].found \/ \A j \in NewRooms : j > k
      BY <1>1, <2>2 DEF SettingsInv, MembersInv
    <3>2. \A j \in NewRooms' :
             /\ RoomComes' \/ \E k \in NewRooms' : k >= j /\ sRoomAnswers'[k].role = sRole'
             /\ sRoomAnswers'[j].role[Me] = sRole'[Me]
      <4>1. ASSUME NEW j \in NewRooms', ~RoomComes
            PROVE  \E k \in NewRooms' : k >= j /\ sRoomAnswers'[k].role = sRole
        <5>1. j >= i /\ j + 1 \in NewRooms /\ j \in Nat
          BY <1>3 DEF NewRooms
        <5>2. PICK k \in NewRooms : k >= j + 1 /\ sRoomAnswers[k].role = sRole
          BY <3>1, <4>1, <5>1
        <5>3. k \in Nat /\ i \in Nat
          BY <1>3 DEF NewRooms
        <5>4. k - 1 \in NewRooms' /\ sRoomAnswers'[k - 1].role = sRoomAnswers[k].role
          BY <1>3, <5>1, <5>2, <5>3
        <5> QED BY <5>1, <5>2, <5>3, <5>4
      <4>2. \A j \in NewRooms' : sRoomAnswers'[j].role[Me] = sRole[Me]
        BY <1>3, <3>1
      <4> QED BY <1>9, <1>11, <4>1, <4>2
    <3>3. \A j \in DOMAIN sRoomAnswers' :
             sRoomAnswers'[j].found \/ \A k \in NewRooms' : k > j
      <4>1. ASSUME NEW j \in DOMAIN sRoomAnswers', ~sRoomAnswers'[j].found,
                   NEW k \in NewRooms'
            PROVE  k > j
        <5>1. k >= i /\ k + 1 \in NewRooms /\ k \in Nat /\ j \in Nat /\ i \in Nat
          BY <1>3 DEF NewRooms
        <5>2. CASE j < i
          BY <5>1, <5>2
        <5>3. CASE ~(j < i)
          <6>1. j + 1 \in DOMAIN sRoomAnswers /\ ~sRoomAnswers[j + 1].found
            BY <1>3, <4>1, <5>3
          <6>2. k + 1 > j + 1
            BY <3>1, <5>1, <6>1
          <6> QED BY <5>1, <6>2
        <5> QED BY <5>2, <5>3
      <4> QED BY <4>1
    <3>4. /\ "members" \notin sBehind' =>
               \/ sMembers' = sRole \/ RoomComes'
               \/ \E k \in NewRooms' : sRoomAnswers'[k].role = sRole
          /\ ~RS!check_room_access => "members" \in sBehind' /\ NewRooms' = {}
      <4>1. NewRooms = {} => NewRooms' = {}
        BY <1>3
      <4>2. CASE ~a.found
        <5>1. \A k \in NewRooms : k > i
          BY <3>1, <4>2 DEF a
        <5>2. \A k \in NewRooms :
                 k - 1 \in NewRooms' /\ sRoomAnswers'[k - 1].role = sRoomAnswers[k].role
          BY <1>3, <5>1
        <5>3. sMembers' = sMembers /\ sBehind' = sBehind
          BY <1>1, <4>2
        <5>4. "members" \notin sBehind =>
               \/ sMembers' = sRole \/ RoomComes'
               \/ \E k \in NewRooms' : sRoomAnswers'[k].role = sRole
          <6>1. ASSUME NEW k \in NewRooms, sRoomAnswers[k].role = sRole
                PROVE  \E k2 \in NewRooms' : sRoomAnswers'[k2].role = sRole
            BY <5>2, <6>1
          <6> QED BY <1>11, <3>1, <5>3, <6>1
        <5> QED BY <3>1, <4>1, <5>3, <5>4
      <4>3. CASE a.found /\ ~a.fresh
        <5>1. "members" \in sBehind'
          BY <1>1, <4>3 DEF RS!Lists
        <5> QED BY <3>1, <4>1, <5>1
      <4>4. CASE a.found /\ a.fresh
        <5>1. i \in NewRooms /\ sMembers' = a.role
          BY <1>1, <1>6, <4>4
        <5>2. ASSUME ~RoomComes, sMembers' # sRole
              PROVE  \E k \in NewRooms' : sRoomAnswers'[k].role = sRole
          <6>1. PICK k \in NewRooms : k >= i /\ sRoomAnswers[k].role = sRole
            BY <3>1, <5>1, <5>2
          <6>2. k # i
            BY <5>1, <5>2, <6>1 DEF a
          <6>3. k \in Nat /\ i \in Nat
            BY <1>3 DEF NewRooms
          <6>4. k > i
            BY <6>1, <6>2, <6>3
          <6> QED BY <1>3, <6>1, <6>4
        <5> QED BY <1>11, <3>1, <5>1, <5>2
      <4> QED BY <1>4, <4>2, <4>3, <4>4
    <3> QED BY <1>7, <1>9, <3>2, <3>3, <3>4 DEF MembersInv
  <2> QED BY <2>1, <2>2
<1>13. RequestsInv'
  <2>1. NewRequests' = NewRequests /\ sRequestAnswers' = sRequestAnswers
    BY <1>1 DEF NewRequests
  <2>2. \A j \in NewRequests' :
           \/ RequestsCome'
           \/ \E k \in NewRequests' : k >= j /\ sRequestAnswers'[k].is = RS!Requests'
    BY <1>1, <1>7, <1>10, <2>1 DEF SettingsInv, RequestsInv
  <2>3. CASE ~a.found
    <3>1. sRequests' = sRequests /\ sBehind' = sBehind
      BY <1>1, <2>3
    <3> QED BY <1>1, <1>7, <1>9, <1>10, <3>1, RequestsKept DEF SettingsInv
  <2>4. CASE a.found /\ RS!Entitled(a.role[Me])
    <3>1. sAskedRequests'[FALSE] > 0
      <4>1. sAskedRequests' = [sAskedRequests EXCEPT ![FALSE] = @ + 1]
        BY <1>1, <2>4
      <4> QED BY <1>20, <4>1, OneMore
    <3>2. RequestsCome'
      BY <3>1 DEF RequestsCome
    <3> QED BY <3>2 DEF RequestsInv
  <2>5. CASE a.found /\ ~RS!Entitled(a.role[Me]) /\ ~a.fresh
    <3>1. "requests" \in sBehind'
      BY <1>1, <2>5 DEF RS!Lists
    <3> QED BY <2>2, <3>1 DEF RequestsInv
  <2>6. CASE a.found /\ ~RS!Entitled(a.role[Me]) /\ a.fresh
    <3>1. Going \/ a.role[Me] = sRole[Me]
      BY <1>1, <1>6, <2>6 DEF SettingsInv, MembersInv, a
    <3>2. CASE Going
      BY <1>7, <3>2 DEF RequestsInv, RequestsCome
    <3>3. CASE a.role[Me] = sRole[Me]
      <4>1. RS!Requests = {} /\ sRequests' = {}
        BY <1>1, <2>6, <3>3 DEF RS!Requests, RS!require_room_op
      <4> QED BY <1>7, <2>2, <4>1 DEF RequestsInv
    <3> QED BY <3>1, <3>2, <3>3
  <2> QED BY <1>4, <2>3, <2>4, <2>5, <2>6
<1> QED BY <1>7, <1>8, <1>12, <1>13 DEF SettingsInv

LEMMA RequestsDrawn ==
    ASSUME SettingsInv, NEW i \in DOMAIN sRequestAnswers, RS!loadJoinRequests(i)
    PROVE  SettingsInv'
<1> DEFINE a == sRequestAnswers[i]
<1>1. /\ LoadFrame /\ sOpen /\ sRequestAnswers' = RS!Without(sRequestAnswers, i)
      /\ sRequests' = a.is
      /\ sBehind' = (IF a.fresh THEN sBehind \ {"requests"} ELSE sBehind \cup {"requests"})
      /\ sAskedRoom' = (IF a.follows THEN sAskedRoom + 1 ELSE sAskedRoom)
      /\ UNCHANGED <<sMembers, sCurrent, sRoomAnswers, sAskedRequests, sEvents>>
  BY DEF RS!loadJoinRequests, LoadFrame, RS!server, RS!fields, RS!bounds
<1>2. /\ sRequestAnswers' \in Seq(RequestAnswer) /\ a \in RequestAnswer
      /\ \A k \in DOMAIN sRequestAnswers : k \in Nat
      /\ \A k \in DOMAIN sRequestAnswers : k # i =>
            \E j \in DOMAIN sRequestAnswers' :
               sRequestAnswers'[j].follows = sRequestAnswers[k].follows
      /\ \A j \in NewRequests' :
            /\ j >= i /\ j + 1 \in NewRequests
            /\ sRequestAnswers'[j].is = sRequestAnswers[j + 1].is
      /\ \A k \in NewRequests : k > i =>
            /\ k - 1 \in NewRequests'
            /\ sRequestAnswers'[k - 1].is = sRequestAnswers[k].is
  BY <1>1, RequestsLeftOver DEF SettingsInv
<1>3. a.is \in SUBSET People /\ a.follows \in BOOLEAN /\ a.fresh \in BOOLEAN
  BY <1>2 DEF RequestAnswer
<1>4. /\ TopicInv' /\ VisibilityInv' /\ ArgsKnown' /\ Alone' /\ OkOps' = OkOps
      /\ Going' = Going /\ RS!Requests' = RS!Requests
      /\ (RS!check_room_access' <=> RS!check_room_access)
  BY <1>1, LoadLeaves
<1>5. RS!TypeOK'
  <2>1. /\ sAskedRoom' \in Nat /\ sRequests' \subseteq People
        /\ sBehind' \subseteq RS!Lists \cup {"topic", "visibility"}
    BY <1>1, <1>3 DEF SettingsInv, RS!TypeOK, RS!Lists
  <2> QED BY <1>1, <1>2, <2>1 DEF SettingsInv, RS!TypeOK, LoadFrame, RequestAnswer
<1>6. a.fresh <=> i \in NewRequests
  BY DEF NewRequests
<1>7. sRole' = sRole /\ sOpen' = sOpen
  BY <1>1 DEF LoadFrame
<1>8. RoomComes => RoomComes'
  <2>1. CASE a.follows
    <3>1. sAskedRoom' > 0
      BY <1>1, <2>1 DEF SettingsInv, RS!TypeOK
    <3> QED BY <3>1 DEF RoomComes
  <2>2. CASE ~a.follows
    <3>1. ASSUME NEW k \in DOMAIN sRequestAnswers, sRequestAnswers[k].follows
          PROVE  \E j \in DOMAIN sRequestAnswers' : sRequestAnswers'[j].follows
      <4>1. k # i
        BY <2>2, <3>1
      <4> QED BY <1>2, <3>1, <4>1
    <3> QED BY <1>1, <1>4, <2>2, <3>1 DEF RoomComes
  <2> QED BY <2>1, <2>2
<1>9. MembersInv'
  <2>1. "members" \in sBehind => "members" \in sBehind'
    BY <1>1
  <2> QED BY <1>1, <1>4, <1>7, <1>8, <2>1, MembersKept DEF SettingsInv
<1> HIDE DEF a
<1>10. RequestsCome => RequestsCome'
  BY <1>1, <1>4 DEF RequestsCome
<1>11. RequestsInv'
  <2>1. CASE RequestsCome
    BY <1>10, <2>1 DEF RequestsInv
  <2>2. CASE ~RequestsCome
    <3>1. ASSUME NEW k \in NewRequests, k >= i
          PROVE  \/ i \in NewRequests /\ sRequests' = RS!Requests
                 \/ \E j \in NewRequests' : j >= k - 1 /\ sRequestAnswers'[j].is = RS!Requests
      <4>1. PICK m \in NewRequests : m >= k /\ sRequestAnswers[m].is = RS!Requests
        BY <1>1, <2>2 DEF SettingsInv, RequestsInv
      <4>2. m \in Nat /\ k \in Nat /\ i \in Nat
        BY <1>2 DEF NewRequests
      <4>3. CASE m = i
        BY <1>1, <4>1, <4>3 DEF a
      <4>4. CASE m # i
        <5>1. m > i /\ m - 1 >= k - 1
          BY <3>1, <4>1, <4>2, <4>4
        <5> QED BY <1>2, <4>1, <5>1
      <4> QED BY <4>3, <4>4
    <3>2. "requests" \notin sBehind' =>
             \/ sRequests' = RS!Requests
             \/ \E j \in NewRequests' : sRequestAnswers'[j].is = RS!Requests
      <4>1. SUFFICES ASSUME "requests" \notin sBehind'
                     PROVE  \/ sRequests' = RS!Requests
                            \/ \E j \in NewRequests' : sRequestAnswers'[j].is = RS!Requests
        OBVIOUS
      <4>2. i \in NewRequests
        BY <1>1, <1>6, <4>1
      <4>3. i >= i
        BY <1>2
      <4> QED BY <3>1, <4>2, <4>3
    <3>3. ASSUME NEW j \in NewRequests'
          PROVE  \E m \in NewRequests' : m >= j /\ sRequestAnswers'[m].is = RS!Requests
      <4>1. j >= i /\ j + 1 \in NewRequests /\ i \in Nat /\ j + 1 \in Nat
        BY <1>2 DEF NewRequests
      <4>2. PICK m \in NewRequests : m >= j + 1 /\ sRequestAnswers[m].is = RS!Requests
        BY <1>1, <2>2, <4>1 DEF SettingsInv, RequestsInv
      <4>3. m \in Nat
        BY <1>2 DEF NewRequests
      <4>4. j \in Int
        <5>1. DOMAIN sRequestAnswers' = 1 .. Len(sRequestAnswers')
          BY <1>2
        <5> QED BY <5>1 DEF NewRequests
      <4>5. m > i /\ m - 1 >= j
        BY <4>1, <4>2, <4>3, <4>4
      <4> QED BY <1>2, <4>2, <4>5
    <3> QED BY <1>4, <3>2, <3>3 DEF RequestsInv
  <2> QED BY <2>1, <2>2
<1> QED BY <1>4, <1>5, <1>9, <1>11 DEF SettingsInv

-----------------------------------------------------------------------------
\* Replies: what is left when one has come, or is lost.
ReplyFrame ==
    UNCHANGED <<sRole, sRequested, sTopic, sVisibility, sExists, sMembers>>

LEMMA ReplyTypes ==
    ASSUME SettingsInv, NEW n \in DOMAIN sCalls, RS!Finish(n), ReplyFrame,
           sOpen' \in BOOLEAN, sRequests' \subseteq People, sTopicInput' = sTopicInput,
           sOriginalTopic' \in Topics, sSelect' \in RS!Visibilities,
           sCurrent' \in RS!Visibilities, sAskedRoom' \in Nat,
           sAskedRequests' \in [BOOLEAN -> Nat], sRoomAnswers' \in Seq(RoomAnswer),
           sRequestAnswers' \in Seq(RequestAnswer), sBehind' \subseteq RS!Lists \cup
           {"topic", "visibility"}, sClicks' = sClicks, sEvents' \in 0 .. SettingsEvents
    PROVE  RS!TypeOK' /\ Alone' /\ ArgsKnown'
<1>1. sCalls' \in Seq(SetCall) /\ Alone' /\ ArgsKnown'
  BY CallFinished DEF SettingsInv
<1> QED BY <1>1
        DEF SettingsInv, RS!TypeOK, ReplyFrame, RoomAnswer, RequestAnswer, SetCall

LEMMA ListReplied ==
    ASSUME SettingsInv, NEW n \in DOMAIN sCalls, RS!RemoveReplied(n) \/ RS!RequestReplied(n)
    PROVE  SettingsInv'
<1> DEFINE c == sCalls[n]
<1>1. /\ RS!Finish(n) /\ ReplyFrame /\ sOpen /\ c.at = "ok"
      /\ c.op \in {"remove", "approve", "deny"}
      /\ UNCHANGED <<sOpen, sTopicInput, sOriginalTopic, sSelect, sCurrent, sRoomAnswers,
                     sClicks, sEvents>>
      /\ \/ /\ c.op = "remove" /\ sAskedRoom' = sAskedRoom + 1
            /\ UNCHANGED <<sRequests, sAskedRequests, sRequestAnswers, sBehind>>
         \/ /\ c.op # "remove" /\ sAskedRequests' = [sAskedRequests EXCEPT ![TRUE] = @ + 1]
            /\ UNCHANGED <<sRequests, sAskedRoom, sRequestAnswers, sBehind>>
         \/ /\ c.op # "remove" /\ sAskedRoom' = sAskedRoom + 1 /\ sRequests' = {}
            /\ RS!LeftBehind({"requests"}) /\ UNCHANGED sAskedRequests
  <2>1. CASE RS!RemoveReplied(n)
    BY <2>1 DEF RS!RemoveReplied, RS!Reply, ReplyFrame, RS!server, RS!fields, RS!bounds
  <2>2. CASE RS!RequestReplied(n)
    <3>1. /\ RS!Finish(n) /\ ReplyFrame /\ sOpen /\ c.at = "ok" /\ c.op \in {"approve", "deny"}
          /\ UNCHANGED <<sOpen, sTopicInput, sOriginalTopic, sSelect, sCurrent, sClicks,
                         sEvents>>
          /\ \/ /\ sAskedRequests' = [sAskedRequests EXCEPT ![TRUE] = @ + 1]
                /\ UNCHANGED <<sRequests, sAskedRoom, sRoomAnswers, sRequestAnswers, sBehind>>
             \/ /\ sAskedRoom' = sAskedRoom + 1 /\ sRequests' = {}
                /\ RS!LeftBehind({"requests"}) /\ UNCHANGED sAskedRequests
      BY <2>2 DEF RS!RequestReplied, RS!Reply, ReplyFrame, RS!server, RS!fields, RS!bounds
    <3>2. RS!LeftBehind({"requests"}) => sRoomAnswers' = sRoomAnswers
      BY DEF RS!LeftBehind
    <3> QED BY <3>1, <3>2
  <2> QED BY <2>1, <2>2
<1>2. /\ OkOps' \subseteq OkOps /\ OkOps \subseteq OkOps' \cup {c.op}
      /\ CallsTo("topic")' = CallsTo("topic")
      /\ CallsTo("visibility")' = CallsTo("visibility")
  BY <1>1, CallFinished DEF SettingsInv
<1> HIDE DEF c
<1>3. /\ Going => Going'
      /\ RS!Requests' = RS!Requests /\ sOpen' = sOpen
      /\ (RS!check_room_access' <=> RS!check_room_access) /\ sRole' = sRole
  BY <1>1, <1>2
  DEF Going, ReplyFrame, RS!Requests, RS!check_room_access, RS!require_room_op
<1>4. TopicInv' /\ VisibilityInv'
  <2>1. /\ "topic" \in sBehind => "topic" \in sBehind'
        /\ "visibility" \in sBehind => "visibility" \in sBehind'
    BY <1>1 DEF RS!LeftBehind
  <2> QED BY <1>1, <1>2, <2>1, TopicKept, VisibilityKept DEF SettingsInv, ReplyFrame
<1>5. /\ sAskedRoom \in Nat /\ sAskedRequests \in [BOOLEAN -> Nat] /\ sRequests \subseteq People
      /\ sRoomAnswers \in Seq(RoomAnswer) /\ sRequestAnswers \in Seq(RequestAnswer)
      /\ sBehind \subseteq RS!Lists \cup {"topic", "visibility"}
      /\ sOpen \in BOOLEAN /\ sOriginalTopic \in Topics /\ sSelect \in RS!Visibilities
      /\ sCurrent \in RS!Visibilities /\ sEvents \in 0 .. SettingsEvents
  BY SettingsTypes DEF SettingsInv, RS!TypeOK
<1>6. CASE /\ c.op = "remove" /\ sAskedRoom' = sAskedRoom + 1
           /\ UNCHANGED <<sRequests, sAskedRequests, sRequestAnswers, sBehind>>
  <2>1. RS!TypeOK' /\ Alone' /\ ArgsKnown'
    BY <1>1, <1>5, <1>6, ReplyTypes
  <2>2. RoomComes'
    <3>1. sAskedRoom' > 0
      BY <1>5, <1>6
    <3> QED BY <3>1 DEF RoomComes
  <2>3. RequestsCome => RequestsCome'
    BY <1>2, <1>3, <1>6 DEF RequestsCome
  <2>4. MembersInv'
    BY <1>1, <1>3, <1>6, <2>2, MembersKept DEF SettingsInv, ReplyFrame
  <2>5. RequestsInv'
    BY <1>1, <1>3, <1>6, <2>3, RequestsKept DEF SettingsInv
  <2> QED BY <1>4, <2>1, <2>4, <2>5 DEF SettingsInv
<1>7. CASE /\ c.op # "remove" /\ sAskedRequests' = [sAskedRequests EXCEPT ![TRUE] = @ + 1]
           /\ UNCHANGED <<sRequests, sAskedRoom, sRequestAnswers, sBehind>>
  <2>1. sAskedRequests' \in [BOOLEAN -> Nat] /\ sAskedRequests'[TRUE] > 0
    BY <1>5, <1>7, OneMore
  <2>2. RS!TypeOK' /\ Alone' /\ ArgsKnown'
    BY <1>1, <1>5, <1>7, <2>1, ReplyTypes
  <2>3. RoomComes' /\ RequestsCome'
    BY <2>1 DEF RoomComes, RequestsCome
  <2>4. MembersInv'
    BY <1>1, <1>3, <1>7, <2>3, MembersKept DEF SettingsInv, ReplyFrame
  <2>5. RequestsInv'
    BY <1>1, <1>3, <1>7, <2>3, RequestsKept DEF SettingsInv
  <2> QED BY <1>4, <2>2, <2>4, <2>5 DEF SettingsInv
<1>8. CASE /\ c.op # "remove" /\ sAskedRoom' = sAskedRoom + 1 /\ sRequests' = {}
           /\ RS!LeftBehind({"requests"}) /\ UNCHANGED sAskedRequests
  <2> DEFINE L == {"requests"}
  <2>1. L \in SUBSET RS!Lists /\ "requests" \in L /\ RS!LeftBehind(L)
    BY <1>8 DEF RS!Lists
  <2> HIDE DEF L
  <2>2. /\ sBehind' = sBehind \cup L /\ sRequestAnswers' \in Seq(RequestAnswer)
        /\ NewRequests' = {}
    BY <2>1, LeftOld DEF SettingsInv
  <2>3. RS!TypeOK' /\ Alone' /\ ArgsKnown'
    <3>1. sBehind' \subseteq RS!Lists \cup {"topic", "visibility"} /\ sAskedRoom' \in Nat
      BY <1>5, <1>8, <2>1, <2>2
    <3> QED BY <1>1, <1>5, <1>8, <2>2, <3>1, ReplyTypes
  <2>4. RoomComes'
    <3>1. sAskedRoom' > 0
      BY <1>5, <1>8
    <3> QED BY <3>1 DEF RoomComes
  <2>5. MembersInv'
    BY <1>1, <1>3, <2>2, <2>4, MembersKept DEF SettingsInv, ReplyFrame
  <2>6. RequestsInv'
    BY <2>1, <2>2, RequestsLeft
  <2> QED BY <1>4, <2>3, <2>5, <2>6 DEF SettingsInv
<1> QED BY <1>1, <1>6, <1>7, <1>8

\* The page has gone back: nothing is said of its lists any more.
LEMMA PageGone ==
    ASSUME SettingsInv, NEW n \in DOMAIN sCalls, RS!GoneReplied(n)
    PROVE  SettingsInv'
<1> DEFINE c == sCalls[n]
<1>1. /\ RS!Finish(n) /\ ReplyFrame /\ sOpen' = FALSE /\ c.op \in {"leave", "delete"}
      /\ UNCHANGED <<sRequests, sTopicInput, sOriginalTopic, sSelect, sCurrent, sAskedRoom,
                     sRoomAnswers, sAskedRequests, sRequestAnswers, sClicks, sEvents, sBehind>>
  BY DEF RS!GoneReplied, RS!Reply, ReplyFrame, RS!server, RS!fields, RS!loads, RS!bounds
<1>2. /\ CallsTo("topic")' = CallsTo("topic")
      /\ CallsTo("visibility")' = CallsTo("visibility")
  BY <1>1, CallFinished DEF SettingsInv
<1> HIDE DEF c
<1>3. RS!TypeOK' /\ Alone' /\ ArgsKnown'
  BY <1>1, ReplyTypes, SettingsTypes DEF SettingsInv, RS!TypeOK
<1>4. TopicInv' /\ VisibilityInv'
  BY <1>1, <1>2, TopicKept, VisibilityKept DEF SettingsInv, ReplyFrame
<1> QED BY <1>1, <1>3, <1>4 DEF SettingsInv, MembersInv, RequestsInv

LEMMA SaveReplied ==
    ASSUME SettingsInv, NEW n \in DOMAIN sCalls, RS!TopicReplied(n) \/ RS!VisibilityReplied(n)
    PROVE  SettingsInv'
<1> DEFINE c == sCalls[n]
<1>1. /\ RS!Finish(n) /\ ReplyFrame /\ sOpen /\ sOpen' \in BOOLEAN /\ c.at = "ok"
      /\ c.op \in {"topic", "visibility"}
      /\ sBehind' = (IF c.calm THEN sBehind \ {c.op} ELSE sBehind)
      /\ sOriginalTopic' = (IF c.op = "topic" THEN c.arg ELSE sOriginalTopic)
      /\ sCurrent' = (IF c.op = "topic" THEN sCurrent ELSE c.arg)
      /\ UNCHANGED <<sRequests, sTopicInput, sSelect, sAskedRoom, sRoomAnswers,
                     sAskedRequests, sRequestAnswers, sClicks, sEvents>>
  <2>1. CASE RS!TopicReplied(n)
    <3>1. sCalls[n] \in SetCall
      BY SettingsTypes, ElementOfSeq DEF SettingsInv
    <3> QED BY <2>1, <3>1 DEF RS!TopicReplied, RS!Reply, ReplyFrame, RS!server, RS!loads,
                              RS!bounds, SetCall
  <2>2. CASE RS!VisibilityReplied(n)
    BY <2>2 DEF RS!VisibilityReplied, RS!Reply, ReplyFrame, RS!server, RS!loads, RS!bounds,
                SettingsInv, RS!TypeOK
  <2> QED BY <2>1, <2>2
<1>2. /\ c \in SetCall /\ c \in CallsTo(c.op)
      /\ OkOps' \subseteq OkOps /\ OkOps \subseteq OkOps' \cup {c.op}
      /\ \A f : f # c.op => CallsTo(f)' = CallsTo(f)
      /\ \A f : f = c.op => /\ CallsTo(f)' \subseteq CallsTo(f)
                            /\ CallsTo(f) \ {c} \subseteq CallsTo(f)'
      /\ c.op = "visibility" /\ c.calm => CallsTo("visibility")' = {}
  BY <1>1, CallFinished DEF SettingsInv
<1>3. (c.op = "topic" => c.arg \in Topics) /\ (c.op = "visibility" => c.arg \in RS!Visibilities)
  BY <1>2 DEF SettingsInv, ArgsKnown, CallsTo
<1> HIDE DEF c
<1>4. RS!TypeOK' /\ Alone' /\ ArgsKnown'
  <2>1. /\ sOriginalTopic' \in Topics /\ sCurrent' \in RS!Visibilities
        /\ sBehind' \subseteq RS!Lists \cup {"topic", "visibility"}
    BY <1>1, <1>3 DEF SettingsInv, RS!TypeOK
  <2> QED BY <1>1, <2>1, ReplyTypes, SettingsTypes DEF SettingsInv, RS!TypeOK
<1>5. MembersInv' /\ RequestsInv'
  BY <1>1, <1>2, ListsKept DEF ReplyFrame
<1>6. CASE c.op = "topic"
  <2>1. VisibilityInv'
    BY <1>1, <1>2, <1>6, VisibilityKept DEF SettingsInv, ReplyFrame
  <2>2. /\ CallsTo("topic")' \subseteq CallsTo("topic") /\ c \in CallsTo("topic")
        /\ CallsTo("topic") \ {c} \subseteq CallsTo("topic")'
    BY <1>2, <1>6
  <2>3. /\ sOriginalTopic' = c.arg /\ UNCHANGED <<sTopic, sTopicInput>>
        /\ sBehind' = (IF c.calm THEN sBehind \ {"topic"} ELSE sBehind)
    BY <1>1, <1>6 DEF ReplyFrame
  <2>4. \A d \in CallsTo("topic") : d.at = "sent" => d \in CallsTo("topic")'
    BY <1>1, <2>2
  <2>5. CASE c.calm
    <3>1. (\A d \in CallsTo("topic") : d.arg = c.arg) /\ sTopicInput = c.arg /\ sTopic = c.arg
      BY <1>1, <2>2, <2>5 DEF SettingsInv, TopicInv
    <3>2. TopicInv'
      BY <2>2, <2>3, <3>1 DEF SettingsInv, TopicInv
    <3> QED BY <1>4, <1>5, <2>1, <3>2 DEF SettingsInv
  <2>6. CASE ~c.calm
    <3>1. TopicInv'
      BY <2>2, <2>3, <2>4, <2>6 DEF SettingsInv, TopicInv
    <3> QED BY <1>4, <1>5, <2>1, <3>1 DEF SettingsInv
  <2> QED BY <2>5, <2>6
<1>7. CASE c.op = "visibility"
  <2>1. TopicInv'
    BY <1>1, <1>2, <1>7, TopicKept DEF SettingsInv, ReplyFrame
  <2>2. CallsTo("visibility")' \subseteq CallsTo("visibility") /\ c \in CallsTo("visibility")
    BY <1>2, <1>7
  <2>3. /\ sCurrent' = c.arg /\ UNCHANGED <<sVisibility, sSelect>>
        /\ sBehind' = (IF c.calm THEN sBehind \ {"visibility"} ELSE sBehind)
    BY <1>1, <1>7 DEF ReplyFrame
  <2>4. CASE c.calm
    <3>1. CallsTo("visibility")' = {} /\ sSelect = c.arg /\ sVisibility = c.arg
      BY <1>1, <1>2, <1>7, <2>2, <2>4 DEF SettingsInv, VisibilityInv
    <3>2. VisibilityInv'
      BY <2>3, <3>1 DEF VisibilityInv
    <3> QED BY <1>4, <1>5, <2>1, <3>2 DEF SettingsInv
  <2>5. CASE ~c.calm
    <3>1. "visibility" \in sBehind'
      BY <2>2, <2>3, <2>5 DEF SettingsInv, VisibilityInv
    <3>2. VisibilityInv'
      BY <2>2, <2>3, <3>1 DEF SettingsInv, VisibilityInv
    <3> QED BY <1>4, <1>5, <2>1, <3>2 DEF SettingsInv
  <2> QED BY <2>4, <2>5
<1> QED BY <1>1, <1>6, <1>7

LEMMA SaveRefused ==
    ASSUME SettingsInv, NEW n \in DOMAIN sCalls, RS!Refused(n) \/ RS!VisibilityRefused(n)
    PROVE  SettingsInv'
<1> DEFINE c == sCalls[n]
<1>1. /\ RS!Finish(n) /\ ReplyFrame /\ sOpen /\ sOpen' \in BOOLEAN /\ c.at = "refused"
      /\ sSelect' = (IF c.op = "visibility" THEN sCurrent ELSE sSelect)
      /\ UNCHANGED <<sRequests, sTopicInput, sOriginalTopic, sCurrent, sAskedRoom, sBehind,
                     sRoomAnswers, sAskedRequests, sRequestAnswers, sClicks, sEvents>>
  <2>1. CASE RS!Refused(n)
    <3>1. sCalls[n] \in SetCall
      BY SettingsTypes, ElementOfSeq DEF SettingsInv
    <3> QED BY <2>1, <3>1 DEF RS!Refused, RS!Reply, ReplyFrame, RS!server, RS!loads,
                              RS!fields, RS!bounds, SetCall
  <2>2. CASE RS!VisibilityRefused(n)
    BY <2>2 DEF RS!VisibilityRefused, RS!Reply, ReplyFrame, RS!server, RS!loads, RS!bounds,
                SettingsInv, RS!TypeOK
  <2> QED BY <2>1, <2>2
<1>2. /\ c \in SetCall /\ c \in CallsTo(c.op) /\ OkOps' = OkOps
      /\ \A f : f # c.op => CallsTo(f)' = CallsTo(f)
      /\ \A f : f = c.op => /\ CallsTo(f)' \subseteq CallsTo(f)
                            /\ CallsTo(f) \ {c} \subseteq CallsTo(f)'
      /\ c.op = "visibility" /\ c.calm => CallsTo("visibility")' = {}
  BY <1>1, CallFinished DEF SettingsInv
<1> HIDE DEF c
<1>3. RS!TypeOK' /\ Alone' /\ ArgsKnown'
  <2>1. sSelect' \in RS!Visibilities
    BY <1>1 DEF SettingsInv, RS!TypeOK
  <2> QED BY <1>1, <2>1, ReplyTypes, SettingsTypes DEF SettingsInv, RS!TypeOK
<1>4. MembersInv' /\ RequestsInv'
  BY <1>1, <1>2, ListsKept DEF ReplyFrame
<1>5. TopicInv'
  <2>1. CASE c.op # "topic"
    BY <1>1, <1>2, <2>1, TopicKept DEF SettingsInv, ReplyFrame
  <2>2. CASE c.op = "topic"
    <3>1. /\ CallsTo("topic")' \subseteq CallsTo("topic") /\ c \in CallsTo("topic")
          /\ CallsTo("topic") \ {c} \subseteq CallsTo("topic")'
      BY <1>2, <2>2
    <3>2. \A d \in CallsTo("topic") : d.at # "refused" => d \in CallsTo("topic")'
      BY <1>1, <3>1
    <3>3. UNCHANGED <<sTopic, sTopicInput, sOriginalTopic, sBehind>>
      BY <1>1 DEF ReplyFrame
    <3>4. \A d \in CallsTo("topic") : d.at = "sent" => d \in CallsTo("topic")'
      BY <3>2
    <3> QED BY <3>1, <3>2, <3>3, <3>4 DEF SettingsInv, TopicInv
  <2> QED BY <2>1, <2>2
<1>6. VisibilityInv'
  <2>1. CASE c.op # "visibility"
    BY <1>1, <1>2, <2>1, VisibilityKept DEF SettingsInv, ReplyFrame
  <2>2. CASE c.op = "visibility"
    <3>1. CallsTo("visibility")' \subseteq CallsTo("visibility") /\ c \in CallsTo("visibility")
      BY <1>2, <2>2
    <3>2. /\ sSelect' = sCurrent
          /\ UNCHANGED <<sVisibility, sCurrent, sBehind>>
      BY <1>1, <2>2 DEF ReplyFrame
    <3>3. \A d \in CallsTo("visibility")' : ~d.calm
      <4>1. ASSUME NEW d \in CallsTo("visibility")', d.calm PROVE FALSE
        <5>1. d = c
          BY <3>1, <4>1, AloneInSet DEF SettingsInv
        <5> QED BY <1>2, <2>2, <4>1, <5>1
      <4> QED BY <4>1
    <3>4. CASE c.calm
      <4>1. CallsTo("visibility")' = {}
        BY <1>2, <2>2, <3>4
      <4>2. \A d \in CallsTo("visibility") : d = c
        BY <3>1, <3>4, AloneInSet DEF SettingsInv
      <4>3. "visibility" \notin sBehind => sCurrent = sVisibility
        BY <1>1, <4>2 DEF SettingsInv, VisibilityInv
      <4> QED BY <3>2, <4>1, <4>3 DEF VisibilityInv
    <3>5. CASE ~c.calm
      <4>1. "visibility" \in sBehind
        BY <3>1, <3>5 DEF SettingsInv, VisibilityInv
      <4> QED BY <3>2, <3>3, <4>1 DEF VisibilityInv
    <3> QED BY <1>2, <3>4, <3>5 DEF SetCall
  <2> QED BY <2>1, <2>2
<1> QED BY <1>3, <1>4, <1>5, <1>6 DEF SettingsInv

LEMMA CallLost ==
    ASSUME SettingsInv, NEW n \in DOMAIN sCalls, RS!Lost(n)
    PROVE  SettingsInv'
<1> DEFINE c == sCalls[n]
<1>1. /\ RS!Finish(n) /\ ReplyFrame /\ (sOpen' => sOpen) /\ sOpen' \in BOOLEAN
      /\ sEvents < SettingsEvents /\ sEvents' = sEvents + 1
      /\ sSelect' = (IF c.op = "visibility" THEN sCurrent ELSE sSelect)
      /\ \/ /\ c.op \in {"topic", "visibility"} /\ sBehind' = sBehind \cup {c.op}
            /\ UNCHANGED <<sRoomAnswers, sRequestAnswers>>
         \/ c.op \notin {"topic", "visibility"} /\ RS!LeftBehind(RS!Lists)
         \/ /\ c.op \notin {"topic", "visibility"} /\ c.at # "ok"
            /\ UNCHANGED <<sBehind, sRoomAnswers, sRequestAnswers>>
      /\ UNCHANGED <<sRequests, sTopicInput, sOriginalTopic, sCurrent, sAskedRoom,
                     sAskedRequests, sClicks>>
  <2>1. sCalls[n] \in SetCall /\ sOpen \in BOOLEAN
    BY SettingsTypes, ElementOfSeq DEF SettingsInv, RS!TypeOK
  <2>2. c.back \in BOOLEAN
    BY <2>1 DEF SetCall
  <2>3. /\ RS!Finish(n) /\ ReplyFrame /\ sOpen' = (sOpen /\ ~c.back)
        /\ sEvents < SettingsEvents /\ sEvents' = sEvents + 1
        /\ sSelect' = (IF c.op = "visibility" THEN sCurrent ELSE sSelect)
        /\ UNCHANGED <<sRequests, sTopicInput, sOriginalTopic, sCurrent, sAskedRoom,
                       sAskedRequests, sClicks>>
    BY DEF RS!Lost, RS!Event, ReplyFrame, RS!server
  <2> QED BY <2>1, <2>2, <2>3 DEF RS!Lost
<1>2. /\ c \in SetCall /\ c \in CallsTo(c.op)
      /\ OkOps' \subseteq OkOps /\ OkOps \subseteq OkOps' \cup {c.op}
      /\ c.at # "ok" => OkOps' = OkOps
      /\ \A f : f # c.op => CallsTo(f)' = CallsTo(f)
      /\ \A f : f = c.op => /\ CallsTo(f)' \subseteq CallsTo(f)
                            /\ CallsTo(f) \ {c} \subseteq CallsTo(f)'
      /\ c.op = "visibility" /\ c.calm => CallsTo("visibility")' = {}
  BY <1>1, CallFinished DEF SettingsInv
<1> HIDE DEF c
<1>3. /\ sBehind' \subseteq RS!Lists \cup {"topic", "visibility"} /\ sBehind \subseteq sBehind'
      /\ sRoomAnswers' \in Seq(RoomAnswer) /\ sRequestAnswers' \in Seq(RequestAnswer)
      /\ \/ /\ c.op \in {"topic", "visibility"} /\ sBehind' = sBehind \cup {c.op}
            /\ UNCHANGED <<sRoomAnswers, sRequestAnswers>>
         \/ /\ c.op \notin {"topic", "visibility"}
            /\ {"members", "requests"} \subseteq sBehind' /\ NewRooms' = {}
            /\ NewRequests' = {}
         \/ /\ c.op \notin {"topic", "visibility"} /\ c.at # "ok"
            /\ UNCHANGED <<sBehind, sRoomAnswers, sRequestAnswers>>
  <2>1. /\ sRoomAnswers \in Seq(RoomAnswer) /\ sRequestAnswers \in Seq(RequestAnswer)
        /\ sBehind \subseteq RS!Lists \cup {"topic", "visibility"}
    BY SettingsTypes DEF SettingsInv, RS!TypeOK
  <2>2. CASE c.op \notin {"topic", "visibility"} /\ RS!LeftBehind(RS!Lists)
    <3>1. RS!Lists \in SUBSET RS!Lists /\ "members" \in RS!Lists /\ "requests" \in RS!Lists
      BY DEF RS!Lists
    <3>2. /\ sBehind' = sBehind \cup RS!Lists /\ NewRooms' = {} /\ NewRequests' = {}
          /\ sRoomAnswers' \in Seq(RoomAnswer) /\ sRequestAnswers' \in Seq(RequestAnswer)
      BY <2>2, <3>1, LeftOld DEF SettingsInv
    <3> QED BY <2>1, <2>2, <3>1, <3>2
  <2>3. CASE ~(c.op \notin {"topic", "visibility"} /\ RS!LeftBehind(RS!Lists))
    BY <1>1, <2>1, <2>3
  <2> QED BY <2>2, <2>3
<1>4. RS!TypeOK' /\ Alone' /\ ArgsKnown'
  <2>1. sSelect' \in RS!Visibilities /\ sEvents' \in 0 .. SettingsEvents
    BY <1>1, RoomSettingsAssumption DEF SettingsInv, RS!TypeOK
  <2> QED BY <1>1, <1>3, <2>1, ReplyTypes DEF SettingsInv, RS!TypeOK
<1>5. MembersInv' /\ RequestsInv'
  <2>1. CASE /\ {"members", "requests"} \subseteq sBehind' /\ NewRooms' = {}
             /\ NewRequests' = {}
    BY <2>1, MembersLeft, RequestsLeft
  <2>2. CASE /\ c.op \in {"topic", "visibility"} \/ c.at # "ok"
             /\ UNCHANGED <<sRoomAnswers, sRequestAnswers>>
    <3>1. \A o \in {"leave", "delete", "remove", "approve", "deny"} :
             o \in OkOps => o \in OkOps'
      BY <1>2, <2>2
    <3> QED BY <1>1, <1>3, <2>2, <3>1, ListsKept DEF ReplyFrame
  <2> QED BY <1>3, <2>1, <2>2
<1>6. TopicInv'
  <2>1. CASE c.op # "topic"
    BY <1>1, <1>2, <1>3, <2>1, TopicKept DEF SettingsInv, ReplyFrame
  <2>2. CASE c.op = "topic"
    <3>1. CallsTo("topic")' \subseteq CallsTo("topic") /\ "topic" \in sBehind'
      BY <1>2, <1>3, <2>2
    <3>2. UNCHANGED <<sTopic, sTopicInput, sOriginalTopic>>
      BY <1>1 DEF ReplyFrame
    <3> QED BY <3>1, <3>2 DEF SettingsInv, TopicInv
  <2> QED BY <2>1, <2>2
<1>7. VisibilityInv'
  <2>1. CASE c.op # "visibility"
    BY <1>1, <1>2, <1>3, <2>1, VisibilityKept DEF SettingsInv, ReplyFrame
  <2>2. CASE c.op = "visibility"
    <3>1. /\ CallsTo("visibility")' \subseteq CallsTo("visibility")
          /\ c \in CallsTo("visibility") /\ "visibility" \in sBehind'
      BY <1>2, <1>3, <2>2
    <3>2. ASSUME NEW d \in CallsTo("visibility")', d.calm PROVE FALSE
      <4>1. d = c
        BY <3>1, <3>2, AloneInSet DEF SettingsInv
      <4> QED BY <1>2, <2>2, <3>2, <4>1
    <3> QED BY <3>1, <3>2 DEF VisibilityInv
  <2> QED BY <2>1, <2>2
<1> QED BY <1>4, <1>5, <1>6, <1>7 DEF SettingsInv

-----------------------------------------------------------------------------
LEMMA SettingsStart ==
    ASSUME RS!Init
    PROVE  SettingsInv
<1>1. /\ sCalls = <<>> /\ sRoomAnswers = <<>> /\ sRequestAnswers = <<>> /\ sBehind = {}
      /\ sExists /\ sRole[Me] # "none" /\ sMembers = sRole /\ sRequests = {}
      /\ sTopicInput = sTopic /\ sOriginalTopic = sTopic
      /\ sSelect = sVisibility /\ sCurrent = sVisibility
      /\ RS!Entitled(sRole[Me]) => sAskedRequests[FALSE] > 0
  BY DEF RS!Init
<1>2. RS!TypeOK
  <2>1. sAskedRequests \in [BOOLEAN -> Nat]
    BY DEF RS!Init
  <2> QED BY <2>1, RoomSettingsAssumption DEF RS!Init, RS!TypeOK
<1>3. /\ SetCalls = {} /\ \A f : CallsTo(f) = {}
      /\ NewRooms = {} /\ NewRequests = {}
  BY <1>1 DEF SetCalls, CallsTo, ToSet, NewRooms, NewRequests
<1>4. ArgsKnown /\ Alone
  BY <1>1, <1>3 DEF ArgsKnown, Alone
<1>5. MembersInv
  BY <1>1, <1>3 DEF MembersInv, RS!check_room_access
<1>6. RequestsInv
  <2>1. CASE RS!Entitled(sRole[Me])
    BY <1>1, <1>3, <2>1 DEF RequestsInv, RequestsCome
  <2>2. CASE ~RS!Entitled(sRole[Me])
    BY <1>1, <1>3, <2>2 DEF RequestsInv, RS!Requests, RS!require_room_op
  <2> QED BY <2>1, <2>2
<1>7. TopicInv /\ VisibilityInv
  BY <1>1, <1>3 DEF TopicInv, VisibilityInv
<1> QED BY <1>2, <1>4, <1>5, <1>6, <1>7 DEF SettingsInv

LEMMA SettingsStep ==
    ASSUME SettingsInv, [RS!Next]_RS!vars
    PROVE  SettingsInv'
<1>1. ASSUME NEW n \in DOMAIN sCalls,
             \/ RS!remove_member(n) \/ RS!resolve_join_request(n) \/ RS!update_room(n)
             \/ RS!delete_room(n) \/ RS!NoSuchRoute(n)
      PROVE  SettingsInv'
  BY <1>1, MemberRemoved, RequestResolved, RoomUpdated, RoomDeleted
<1>2. ASSUME NEW n \in DOMAIN sCalls,
             \/ RS!RemoveReplied(n) \/ RS!RequestReplied(n) \/ RS!GoneReplied(n)
             \/ RS!TopicReplied(n) \/ RS!VisibilityReplied(n) \/ RS!VisibilityRefused(n)
             \/ RS!Refused(n) \/ RS!Lost(n)
      PROVE  SettingsInv'
  BY <1>2, ListReplied, PageGone, SaveReplied, SaveRefused, CallLost
<1>3. ASSUME \/ RS!get_room_detail \/ RS!ReloadLost
             \/ \E f \in BOOLEAN : RS!list_join_requests(f) \/ RS!RequestsLost(f)
             \/ \E i \in DOMAIN sRoomAnswers : RS!reloadRoomData(i)
             \/ \E i \in DOMAIN sRequestAnswers : RS!loadJoinRequests(i)
      PROVE  SettingsInv'
  BY <1>3, RoomAnswered, RoomLoadLost, RequestsAnswered, RequestsLoadLost, RoomDrawn,
     RequestsDrawn
<1>4. ASSUME NEW u \in People,
             \/ \E r \in RS!Ranks \cup {"none"} : RS!RoleElsewhere(u, r)
             \/ RS!RequestElsewhere(u)
      PROVE  SettingsInv'
  BY <1>4, RoleChangedElsewhere, RequestChangedElsewhere
<1>5. ASSUME \/ \E u \in People : \/ RS!removeMember(u) \/ RS!toggleOp(u)
                                  \/ \E action \in {"approve", "deny"} :
                                        RS!handleJoinRequest(u, action)
             \/ RS!leaveRoom \/ RS!deleteRoom
      PROVE  SettingsInv'
  BY <1>5, Clicks
<1>6. ASSUME \/ \E t \in Topics : RS!EditTopic(t) \/ RS!Back
             \/ \E v \in RS!Visibilities : RS!saveVisibility(v)
             \/ \E t \in Topics, v \in RS!Visibilities : RS!FieldElsewhere(t, v)
      PROVE  SettingsInv'
  BY <1>6, TopicEdited, VisibilityChosen, FieldChangedElsewhere
<1>7. CASE UNCHANGED RS!vars
  <2>1. UNCHANGED <<sRole, sRequested, sTopic, sVisibility, sExists, sOpen, sMembers,
                    sRequests, sTopicInput, sOriginalTopic, sSelect, sCurrent, sAskedRoom,
                    sRoomAnswers, sAskedRequests, sRequestAnswers, sCalls, sClicks, sEvents,
                    sBehind>>
    BY <1>7 DEF RS!vars, RS!server, RS!fields, RS!loads, RS!bounds
  <2>2. RS!TypeOK' /\ ArgsKnown' /\ Alone'
    BY <2>1 DEF SettingsInv, RS!TypeOK, ArgsKnown, Alone, SetCalls
  <2>3. OkOps' = OkOps /\ \A f : CallsTo(f)' = CallsTo(f)
    BY <2>1 DEF OkOps, CallsTo, SetCalls
  <2>4. MembersInv' /\ RequestsInv'
    BY <2>1, <2>3, ListsKept
  <2>5. TopicInv' /\ VisibilityInv'
    BY <2>1, <2>3, TopicKept, VisibilityKept DEF SettingsInv
  <2> QED BY <2>2, <2>4, <2>5 DEF SettingsInv
<1>8. CASE RS!Back
  BY <1>8, TopicEdited
<1> QED BY <1>1, <1>2, <1>3, <1>4, <1>5, <1>6, <1>7, <1>8 DEF RS!Next

LEMMA SettingsShown ==
    ASSUME SettingsInv
    PROVE  ListsAreShown /\ SavesAreShown
<1>1. ASSUME RS!Quiet
      PROVE  /\ ~Going /\ ~RoomComes /\ ~RequestsCome
             /\ NewRooms = {} /\ NewRequests = {} /\ CallsTo("visibility") = {} /\ sOpen
  <2>1. /\ sCalls = <<>> /\ sRoomAnswers = <<>> /\ sRequestAnswers = <<>> /\ sAskedRoom = 0
        /\ sOpen /\ sAskedRequests[TRUE] = 0 /\ \A f \in BOOLEAN : sAskedRequests[f] = 0
    BY <1>1 DEF RS!Quiet
  <2>2. /\ SetCalls = {} /\ NewRooms = {} /\ NewRequests = {}
    BY <2>1 DEF SetCalls, ToSet, NewRooms, NewRequests
  <2>3. CallsTo("visibility") = {} /\ OkOps = {}
    BY <2>2 DEF CallsTo, OkOps
  <2>4. ~Going
    BY <2>3 DEF Going
  <2>5. ~(\E i \in DOMAIN sRequestAnswers : sRequestAnswers[i].follows)
    BY <2>1
  <2>6. ~RoomComes
    BY <2>1, <2>3, <2>4, <2>5 DEF RoomComes
  <2>7. ~RequestsCome
    BY <2>1, <2>3, <2>4 DEF RequestsCome
  <2> QED BY <2>1, <2>2, <2>3, <2>4, <2>6, <2>7
<1>2. RS!MembersAreShown
  BY <1>1 DEF SettingsInv, MembersInv, RS!MembersAreShown
<1>3. RS!RequestsAreShown
  BY <1>1 DEF SettingsInv, RequestsInv, RS!RequestsAreShown
<1>4. RS!VisibilityIsShown
  BY <1>1 DEF SettingsInv, VisibilityInv, RS!VisibilityIsShown
<1>5. RS!TopicIsKept
  <2> SUFFICES ASSUME \A n \in DOMAIN sCalls : sCalls[n].op = "topic" => sCalls[n].at # "sent",
                      "topic" \notin sBehind
               PROVE  sTopicInput = sTopic
    BY DEF RS!TopicIsKept
  <2>1. \A c \in CallsTo("topic") : c.at # "sent"
    BY DEF CallsTo, SetCalls, ToSet
  <2> QED BY <2>1 DEF SettingsInv, TopicInv
<1> QED BY <1>2, <1>3, <1>4, <1>5
        DEF ListsAreShown, SavesAreShown, RS!ListsAreShown, RS!SavesAreShown

\* The invariant of the page of settings: its lists, saves, answers under way and excuses
\* fit each other and the room.
THEOREM SettingsKnown == RS!Spec => []SettingsInv
BY SettingsStart, SettingsStep, PTL DEF RS!Spec

\* A page of settings at rest shows the members of its room, and the requests to it.
THEOREM ListsStayShown == RS!Spec => []ListsAreShown
<1>1. SettingsInv => ListsAreShown
  BY SettingsShown
<1> QED BY <1>1, SettingsKnown, PTL

\* The topic and the visibility on the page of settings are those of the room.
THEOREM SavesStayShown == RS!Spec => []SavesAreShown
<1>1. SettingsInv => SavesAreShown
  BY SettingsShown
<1> QED BY <1>1, SettingsKnown, PTL
===============================================================================
