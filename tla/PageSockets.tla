---------------------------- MODULE PageSockets -----------------------------
(***************************************************************************)
(* The WebSockets of one page: connectWebSocket with its handlers,         *)
(* heartbeat, backoff and visibilitychange, and selectRoom, all of         *)
(* frontend/src/app.js, with what the bus does to a socket (module WsBus). *)
(*                                                                         *)
(* The variable ws of the page names one socket at most, while the browser *)
(* may have others whose handlers still run: a socket that close() was     *)
(* called on takes its time to close when the network is gone.  Every      *)
(* handler writes the same ws, reconnectTimeout and pingInterval.          *)
(*                                                                         *)
(* A socket's identifier is used again when nothing is left of it.         *)
(***************************************************************************)
EXTENDS Naturals, FiniteSets

CONSTANTS
    Sockets, Rooms,
    None,                   \* null
    MaxReconnectAttempts,   \* maxReconnectAttempts
    MaxSelects,             \* bound: selections of a room
    MaxFaults               \* bound: what goes wrong in the network

ASSUME PageSocketsAssumption ==
    /\ None \notin Sockets \cup Rooms
    /\ MaxReconnectAttempts \in Nat /\ MaxSelects \in Nat /\ MaxFaults \in Nat

VARIABLES
    state,      \* [socket]: readyState ("none": not yet, or CLOSED and onclose done)
    ws, room,   \* ws and currentRoom
    attempts,   \* reconnectAttempts
    timer,      \* reconnectTimeout is a timer that has not fired
    olderTimers,\* how many timers are pending that no variable refers to any more
    pinging,    \* pingInterval is set
    opening,    \* the sockets whose onopen waits for the keys of the room
    selects,    \* [room]: how many calls of selectRoom wait for its keys
    known,      \* the sockets that the bus has
    joined,     \* [socket]: its rooms in the bus
    silent,     \* the sockets whose connection is gone and nobody has noticed
    replaced,   \* history: a socket was replaced while it was closing
    selected, faults    \* how many selections and faults there were

page == <<state, ws, room, attempts, timer, olderTimers, pinging, opening, selects>>
server == <<known, joined>>
vars == <<page, server, silent, replaced, selected, faults>>

States == {"none", "connecting", "open", "closing"}
OrNone(S) == S \cup {None}

TypeOK ==
    /\ state \in [Sockets -> States]
    /\ ws \in OrNone(Sockets) /\ room \in OrNone(Rooms)
    /\ attempts \in 0 .. MaxReconnectAttempts
    /\ timer \in BOOLEAN /\ olderTimers \in Nat /\ pinging \in BOOLEAN
    /\ opening \subseteq Sockets
    /\ selects \in [Rooms -> 0 .. MaxSelects]
    /\ known \subseteq Sockets /\ joined \in [Sockets -> SUBSET Rooms]
    /\ silent \subseteq Sockets
    /\ replaced \in BOOLEAN
    /\ selected \in 0 .. MaxSelects /\ faults \in 0 .. MaxFaults

\* initializeChatView: the first connection is being made, no room is selected.
Init ==
    /\ ws \in Sockets /\ room = None
    /\ state = [s \in Sockets |-> IF s = ws THEN "connecting" ELSE "none"]
    /\ attempts = 0 /\ timer = FALSE /\ olderTimers = 0 /\ pinging = FALSE
    /\ opening = {} /\ selects = [r \in Rooms |-> 0]
    /\ known = {} /\ joined = [s \in Sockets |-> {}]
    /\ silent = {} /\ replaced = FALSE
    /\ selected = 0 /\ faults = 0

-----------------------------------------------------------------------------
IsOpen(s) == s # None /\ state[s] = "open"
IsClosing(s) == s # None /\ state[s] = "closing"

\* ws.send of room:join and room:leave.  A socket keeps their order and the bus
\* serves one after the other, so each is served as it is sent; it is lost unless
\* ws is open on both sides.
Arrives == IsOpen(ws) /\ ws \in known \ silent
SendJoin(r) == joined' = IF Arrives THEN [joined EXCEPT ![ws] = @ \cup {r}] ELSE joined
SendLeave(r) == joined' = IF Arrives THEN [joined EXCEPT ![ws] = @ \ {r}] ELSE joined

Free(s) == state[s] = "none" /\ s \notin known \cup silent \cup opening

InProgress == ws # None /\ state[ws] \in {"connecting", "open"}

\* left: the timer that reconnectTimeout refers to, when it has not just fired.
connectWebSocket(left) ==
    IF InProgress THEN timer' = left /\ UNCHANGED <<state, ws>>
    ELSE /\ timer' = FALSE
         /\ \E s \in Sockets : /\ Free(s) /\ ws' = s
                               /\ state' = [state EXCEPT ![s] = "connecting"]

TriesAgain == attempts < MaxReconnectAttempts

\* The onclose handler of socket s.
onclose(s) ==
    /\ state' = [state EXCEPT ![s] = "none"]
    /\ pinging' = FALSE
    /\ ws' = None
    /\ IF TriesAgain
       THEN /\ attempts' = attempts + 1
            /\ timer' = TRUE
            /\ olderTimers' = olderTimers + (IF timer THEN 1 ELSE 0)
       ELSE UNCHANGED <<attempts, timer, olderTimers>>
    /\ UNCHANGED <<room, opening, selects>>

\* disconnect of the bus.
Forgotten(s) ==
    /\ known' = known \ {s}
    /\ joined' = [joined EXCEPT ![s] = {}]

-----------------------------------------------------------------------------
\* Mutant of Rejoins: only the first onopen of the page does not join.
RejoinsFirst(s) == opening' = IF room # None /\ attempts = 0 THEN opening \cup {s} ELSE opening

\* The current room is joined again, after its keys.
Rejoins(s) == opening' = IF room # None THEN opening \cup {s} ELSE opening

\* Mutant of startHeartbeat: it is started with the page.
startHeartbeatOnce == pinging' = (pinging \/ room = None)

startHeartbeat == pinging' = TRUE

\* onopen; the server has accepted the socket.
Opened(s) ==
    /\ state[s] = "connecting"
    /\ state' = [state EXCEPT ![s] = "open"]
    /\ known' = known \cup {s}
    /\ attempts' = 0
    /\ startHeartbeat
    /\ Rejoins(s)
    /\ UNCHANGED <<ws, room, timer, olderTimers, selects, joined, silent, replaced,
                   selected, faults>>

\* The rest of onopen: the join of what is the room by now, on what is ws by now.
OpenedKeys(s) ==
    /\ s \in opening
    /\ opening' = opening \ {s}
    /\ SendJoin(room)
    /\ UNCHANGED <<state, ws, room, attempts, timer, olderTimers, pinging, selects,
                   known, silent, replaced, selected, faults>>

SelectRoom(r) ==
    /\ r # room
    /\ selected < MaxSelects /\ selected' = selected + 1
    /\ room' = r
    /\ selects' = [selects EXCEPT ![r] = @ + 1]
    /\ IF room # None THEN SendLeave(room) ELSE UNCHANGED joined
    /\ UNCHANGED <<state, ws, attempts, timer, olderTimers, pinging, opening,
                   known, silent, replaced, faults>>

\* The rest of selectRoom, when loadRoomKeys has returned.
SelectKeys(r) ==
    /\ selects[r] > 0
    /\ selects' = [selects EXCEPT ![r] = @ - 1]
    /\ SendJoin(r)
    /\ UNCHANGED <<state, ws, room, attempts, timer, olderTimers, pinging, opening,
                   known, silent, replaced, selected, faults>>

TimerFires ==
    /\ \/ timer /\ connectWebSocket(FALSE) /\ UNCHANGED olderTimers
       \/ olderTimers > 0 /\ connectWebSocket(timer) /\ olderTimers' = olderTimers - 1
    /\ UNCHANGED <<room, attempts, pinging, opening, selects, server, silent, replaced,
                   selected, faults>>

\* visibilitychange.
Visible ==
    /\ ws = None \/ IsClosing(ws)
    /\ attempts' = 0
    /\ connectWebSocket(timer)
    /\ replaced' = (replaced \/ ws # None)
    /\ UNCHANGED <<room, olderTimers, pinging, opening, selects, server, silent,
                   selected, faults>>

\* The heartbeat of the page: the pong of a silent connection is overdue.
PongTimeout ==
    /\ pinging /\ IsOpen(ws) /\ ws \in silent
    /\ state' = [state EXCEPT ![ws] = "closing"]
    /\ UNCHANGED <<ws, room, attempts, timer, olderTimers, pinging, opening, selects,
                   server, silent, replaced, selected, faults>>

\* The browser gives up on the closing handshake.
Closed(s) ==
    /\ state[s] = "closing"
    /\ onclose(s)
    /\ UNCHANGED <<server, silent, replaced, selected, faults>>

-----------------------------------------------------------------------------
(* The server, and the network.                                            *)

\* The heartbeat of the bus.  The page answers a ping with ws.send, whatever
\* socket the ping came from: only ws is known to be alive.
HeartbeatTimeout(s) ==
    /\ s \in known
    /\ s \in silent \/ s # ws
    /\ Forgotten(s)
    /\ UNCHANGED <<page, silent, replaced, selected, faults>>

\* The server has closed the socket.
ClosedByServer(s) ==
    /\ state[s] = "open" /\ s \notin known \cup silent
    /\ onclose(s)
    /\ UNCHANGED <<server, silent, replaced, selected, faults>>

\* Nothing is left of a silent socket on either side.
Vanished(s) ==
    /\ s \in silent /\ s \notin known /\ state[s] = "none"
    /\ silent' = silent \ {s}
    /\ UNCHANGED <<page, server, replaced, selected, faults>>

Fault == faults < MaxFaults /\ faults' = faults + 1

\* The connection breaks, or is not made, and both sides see it.
Breaks(s) ==
    /\ state[s] \in {"connecting", "open"} /\ s \notin silent /\ Fault
    /\ onclose(s)
    /\ Forgotten(s)
    /\ UNCHANGED <<silent, replaced, selected>>

\* It goes silent, and neither side does.
GoesSilent(s) ==
    /\ state[s] = "open" /\ s \in known \ silent /\ Fault
    /\ silent' = silent \cup {s}
    /\ UNCHANGED <<page, server, replaced, selected>>

-----------------------------------------------------------------------------
\* What happens by itself in the end.
SocketStep(s) ==
    \/ Opened(s) \/ OpenedKeys(s) \/ Closed(s)
    \/ HeartbeatTimeout(s) \/ ClosedByServer(s) \/ Vanished(s)

Next ==
    \/ \E s \in Sockets : SocketStep(s) \/ Breaks(s) \/ GoesSilent(s)
    \/ \E r \in Rooms : SelectRoom(r) \/ SelectKeys(r)
    \/ TimerFires \/ Visible \/ PongTimeout

Spec == Init /\ [][Next]_vars

\* Handlers run, timers fire, requests are answered, and both heartbeats notice.
FairSpec ==
    /\ Spec
    /\ \A s \in Sockets :
          /\ WF_vars(Opened(s)) /\ WF_vars(OpenedKeys(s)) /\ WF_vars(Closed(s))
          /\ WF_vars(HeartbeatTimeout(s)) /\ WF_vars(ClosedByServer(s))
          /\ WF_vars(Vanished(s))
    /\ \A r \in Rooms : WF_vars(SelectKeys(r))
    /\ WF_vars(TimerFires) /\ WF_vars(PongTimeout)

-----------------------------------------------------------------------------
\* The sockets over which the page hears of the room it shows.
Listening == {s \in known \ silent : state[s] = "open" /\ room \in joined[s]}

Quiet == opening = {} /\ \A r \in Rooms : selects[r] = 0

\* A page whose handlers have run hears of the room it
\* shows on the socket it has, however selections, reconnections and their waits for
\* keys were interleaved.
RoomIsJoined ==
    Quiet /\ room # None /\ IsOpen(ws) /\ ws \in known \ silent => ws \in Listening

\* Whatever breaks or goes silent, a page is back in its room in the end, unless it
\* gave up after its last attempt.
ComesBack ==
    room # None ~> \/ Listening # {} \/ replaced
                   \/ attempts = MaxReconnectAttempts /\ ws = None /\ ~timer

\* What the documentation says of every page: it has a single connection, when the
\* network has been in order for long enough.
SingleConnection == <>[](Cardinality({s \in Sockets : state[s] = "open"}) <= 1)
=============================================================================
