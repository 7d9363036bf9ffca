------------------------------- MODULE WsClient -------------------------------
(***************************************************************************)
(* One browser tab and its way into a room: the page that is mounted, left *)
(* and reloaded, the RoomWsClient each visit creates, the sockets it goes  *)
(* through, the session it keeps, and the row the server gives it.         *)
(*                                                                         *)
(* A network is modelled by what a WebSocket allows: messages on one       *)
(* socket keep their order, a socket may be cut long before the browser    *)
(* notices, what is on the wire may still reach the server after the       *)
(* browser has given the socket up, and a socket that is not open          *)
(* delivers nothing to the page.  Visits and Failures bound the model.     *)
(***************************************************************************)
EXTENDS Naturals, Sequences

CONSTANTS
    Visits,     \* how often the page is opened
    Failures,   \* how often a socket fails
    Command     \* messages the user sends, each once

ASSUME WsAssumption ==
    /\ Visits \in Nat /\ Failures \in Nat
    /\ "JOIN_ROOM" \notin Command

Client == 1..Visits
Link == 1..Visits + Failures
NoRow == 0
Row == 1..Visits + Failures + 1

VARIABLES
    mounted,      \* the client of the page, 0 while no room is open
    visits,       \* clients so far
    ws,           \* each client's socket, 0 for null
    intentional,  \* disconnect() was called
    timer,        \* reconnectTimer is set
    keepalive,    \* keepaliveTimer is set
    outbound,     \* each client's queue
    known,        \* each client's voterId and resume token
    connection,   \* the store's connection
    hydrated,     \* the store has a room
    invite,       \* the row in the location's state, which the creator has
    saved,        \* the session of the tab
    unsent        \* commands the user has yet to send

VARIABLES
    links,        \* sockets so far
    ready,        \* each socket's readyState; "gone" after its close event
    cut,          \* nothing passes any more
    up,           \* messages on their way to the server
    down,         \* the row of a snapshot on its way to the browser
    bound,        \* the row the server has bound to the socket
    rows          \* voter rows the server holds for this tab

clientVars == <<mounted, visits, ws, intentional, timer, keepalive, outbound,
                known, connection, hydrated, invite, saved, unsent>>
netVars == <<links, ready, cut, up, down, bound, rows>>
wsVars == <<clientVars, netVars>>

Message == [id : Command \cup {"JOIN_ROOM"}, as : Row \cup {NoRow}]

-----------------------------------------------------------------------------
(* RoomWsClient.  An operation names the client c it is about and what     *)
(* becomes of the variables it writes.                                     *)

(* connect(): the client's next socket.                                    *)
Connect(c, status) ==
    /\ links' = links + 1
    /\ ready' = [ready EXCEPT ![links'] = "connecting"]
    /\ ws' = [ws EXCEPT ![c] = links']
    /\ connection' = status
    /\ UNCHANGED <<cut, up, down, bound, rows>>

(* The page is opened: a client that knows the row of the creator's link,  *)
(* or the one saved in the session.                                        *)
Mount ==
    /\ mounted = 0 /\ visits < Visits
    /\ visits' = visits + 1 /\ mounted' = visits'
    /\ known' = [known EXCEPT ![visits'] = IF invite # NoRow THEN invite ELSE saved]
    /\ Connect(visits', "connecting")
    /\ UNCHANGED <<intentional, timer, keepalive, outbound, hydrated, invite, saved, unsent>>

(* Mutant: the reconnect timer survives the disconnect.                    *)
Disconnect_TimerRuns(c) ==
    /\ intentional' = [intentional EXCEPT ![c] = TRUE]
    /\ keepalive' = [keepalive EXCEPT ![c] = FALSE]
    /\ outbound' = [outbound EXCEPT ![c] = <<>>]
    /\ ready' = [k \in Link |-> IF k = ws[c] THEN "closing" ELSE ready[k]]
    /\ UNCHANGED timer

Disconnect(c) ==
    /\ intentional' = [intentional EXCEPT ![c] = TRUE]
    /\ timer' = [timer EXCEPT ![c] = FALSE]
    /\ keepalive' = [keepalive EXCEPT ![c] = FALSE]
    /\ outbound' = [outbound EXCEPT ![c] = <<>>]
    /\ ready' = [k \in Link |-> IF k = ws[c] THEN "closing" ELSE ready[k]]

(* The page is left: useRoomClient disconnects and resets the store.       *)
Unmount ==
    /\ mounted # 0
    /\ Disconnect(mounted)
    /\ connection' = "disconnected" /\ hydrated' = FALSE
    /\ mounted' = 0
    /\ UNCHANGED <<visits, invite, ws, known, saved, unsent, links, cut, up, down, bound, rows>>

(* A reload ends every script and socket of the page; the session stays.   *)
Reload ==
    /\ mounted # 0
    /\ mounted' = 0
    /\ ws' = [c \in Client |-> 0]
    /\ timer' = [c \in Client |-> FALSE] /\ keepalive' = timer'
    /\ outbound' = [c \in Client |-> <<>>]
    /\ ready' = [k \in Link |-> IF k <= links THEN "gone" ELSE ready[k]]
    /\ connection' = "disconnected" /\ hydrated' = FALSE
    /\ UNCHANGED <<visits, invite, intentional, known, saved, unsent, links, cut, up, down, bound, rows>>

(* send(): on the wire if the socket is open, else into the queue.  The    *)
(* page offers it only while it shows the room.                            *)
Send(m) ==
    /\ mounted # 0 /\ connection = "connected" /\ hydrated
    /\ m \in unsent
    /\ unsent' = unsent \ {m}
    /\ LET k == ws[mounted]  msg == [id |-> m, as |-> known[mounted]] IN
       IF k # 0 /\ ready[k] = "open"
       THEN /\ up' = [up EXCEPT ![k] = IF cut[k] THEN @ ELSE Append(@, msg)]
            /\ UNCHANGED outbound
       ELSE /\ outbound' = [outbound EXCEPT ![mounted] = Append(@, msg)]
            /\ UNCHANGED up
    /\ UNCHANGED <<mounted, visits, invite, ws, intentional, timer, keepalive, known, connection,
                   hydrated, saved, links, ready, cut, down, bound, rows>>

(* Mutant: the queue is flushed ahead of the JOIN.                         *)
OnOpen_FlushFirst(c) ==
    \E k \in Link :
        /\ ws[c] = k /\ ready[k] = "connecting"
        /\ ready' = [ready EXCEPT ![k] = "open"]
        /\ up' = [up EXCEPT ![k] = Append(outbound[c], [id |-> "JOIN_ROOM", as |-> known[c]])]
        /\ outbound' = [outbound EXCEPT ![c] = <<>>]
        /\ UNCHANGED <<mounted, visits, invite, ws, intentional, timer, keepalive, known, connection,
                       hydrated, saved, unsent, links, cut, down, bound, rows>>

(* Mutant: the JOIN of a reconnect does not carry the row.                 *)
OnOpen_ForgetsRow(c) ==
    \E k \in Link :
        /\ ws[c] = k /\ ready[k] = "connecting"
        /\ ready' = [ready EXCEPT ![k] = "open"]
        /\ up' = [up EXCEPT ![k] = <<[id |-> "JOIN_ROOM", as |-> NoRow]>> \o outbound[c]]
        /\ outbound' = [outbound EXCEPT ![c] = <<>>]
        /\ UNCHANGED <<mounted, visits, invite, ws, intentional, timer, keepalive, known, connection,
                       hydrated, saved, unsent, links, cut, down, bound, rows>>

(* onOpen: JOIN_ROOM with the row that is known, then the queue.           *)
OnOpen(c) ==
    \E k \in Link :
        /\ ws[c] = k /\ ready[k] = "connecting"
        /\ ready' = [ready EXCEPT ![k] = "open"]
        /\ up' = [up EXCEPT ![k] = <<[id |-> "JOIN_ROOM", as |-> known[c]]>> \o outbound[c]]
        /\ outbound' = [outbound EXCEPT ![c] = <<>>]
        /\ UNCHANGED <<mounted, visits, invite, ws, intentional, timer, keepalive, known, connection,
                       hydrated, saved, unsent, links, cut, down, bound, rows>>

(* onMessage with a snapshot.                                              *)
OnSnapshot(c) ==
    \E k \in Link :
        /\ ws[c] = k /\ ready[k] = "open" /\ down[k] # NoRow
        /\ down' = [down EXCEPT ![k] = NoRow]
        /\ known' = [known EXCEPT ![c] = down[k]]
        /\ saved' = down[k]
        /\ hydrated' = TRUE /\ connection' = "connected"
        /\ keepalive' = [keepalive EXCEPT ![c] = TRUE]
        /\ UNCHANGED <<mounted, visits, invite, ws, intentional, timer, outbound, unsent,
                       links, ready, cut, up, bound, rows>>

(* Mutant: a close is taken for the end of the visit.                      *)
OnClose_GivesUp(c) ==
    \E k \in Link :
        /\ ws[c] = k /\ ready[k] = "closing"
        /\ ready' = [ready EXCEPT ![k] = "gone"]
        /\ ws' = [ws EXCEPT ![c] = 0]
        /\ keepalive' = [keepalive EXCEPT ![c] = FALSE]
        /\ connection' = "disconnected"
        /\ UNCHANGED <<mounted, visits, invite, intentional, timer, outbound, known, hydrated, saved, unsent,
                       links, cut, up, down, bound, rows>>

(* Mutant: the store is not told.                                          *)
OnClose_Silent(c) ==
    \E k \in Link :
        /\ ws[c] = k /\ ready[k] = "closing"
        /\ ready' = [ready EXCEPT ![k] = "gone"]
        /\ ws' = [ws EXCEPT ![c] = 0]
        /\ keepalive' = [keepalive EXCEPT ![c] = FALSE]
        /\ timer' = [timer EXCEPT ![c] = ~intentional[c]]
        /\ UNCHANGED <<mounted, visits, invite, intentional, outbound, known, connection, hydrated, saved, unsent,
                       links, cut, up, down, bound, rows>>

(* onClose: unless the page was left, another attempt after the backoff.   *)
OnClose(c) ==
    \E k \in Link :
        /\ ws[c] = k /\ ready[k] = "closing"
        /\ ready' = [ready EXCEPT ![k] = "gone"]
        /\ ws' = [ws EXCEPT ![c] = 0]
        /\ keepalive' = [keepalive EXCEPT ![c] = FALSE]
        /\ timer' = [timer EXCEPT ![c] = ~intentional[c]]
        /\ connection' = IF intentional[c] THEN "disconnected" ELSE "reconnecting"
        /\ UNCHANGED <<mounted, visits, invite, intentional, outbound, known, hydrated, saved, unsent,
                       links, cut, up, down, bound, rows>>

(* The backoff is over.                                                    *)
Reconnect(c) ==
    /\ timer[c]
    /\ timer' = [timer EXCEPT ![c] = FALSE]
    /\ Connect(c, "reconnecting")
    /\ UNCHANGED <<mounted, visits, invite, intentional, keepalive, outbound, known, hydrated,
                   saved, unsent>>

-----------------------------------------------------------------------------
(* The network and the server.                                             *)

(* The browser notices that a socket is over: a refused handshake, a close *)
(* by the server, a connection that timed out.                             *)
SocketFails(k) ==
    /\ ready[k] \in {"connecting", "open"}
    /\ ready' = [ready EXCEPT ![k] = "closing"]
    /\ UNCHANGED <<clientVars, links, cut, up, down, bound, rows>>

(* The connection is lost with what is on it; the browser may not know.    *)
LinkBreaks(k) ==
    /\ ready[k] \in {"open", "closing", "gone"} /\ ~cut[k]
    /\ cut' = [cut EXCEPT ![k] = TRUE]
    /\ up' = [up EXCEPT ![k] = <<>>] /\ down' = [down EXCEPT ![k] = NoRow]
    /\ UNCHANGED <<clientVars, links, ready, bound, rows>>

(* The server handles the next message of a socket: a JOIN binds the row   *)
(* it resumes or a new one and is answered with a snapshot.                *)
Receive(k) ==
    /\ up[k] # <<>>
    /\ up' = [up EXCEPT ![k] = Tail(@)]
    /\ IF Head(up[k]).id = "JOIN_ROOM"
       THEN LET row == IF Head(up[k]).as = NoRow THEN rows + 1 ELSE Head(up[k]).as IN
            /\ bound' = [bound EXCEPT ![k] = row]
            /\ rows' = IF row > rows THEN row ELSE rows
            /\ down' = [down EXCEPT ![k] = row]
       ELSE UNCHANGED <<bound, rows, down>>
    /\ UNCHANGED <<clientVars, links, ready, cut>>

-----------------------------------------------------------------------------
(* A failure is counted when it costs the page a socket it was using.      *)
VARIABLE failures

vars == <<wsVars, failures>>

Fails ==
    /\ failures < Failures /\ failures' = failures + 1
    /\ \E k \in Link : SocketFails(k)

Breaks ==
    /\ failures < Failures /\ failures' = failures + 1
    /\ \E k \in Link : ready[k] = "open" /\ LinkBreaks(k)

(* What a socket left on the wire is lost.                                 *)
Drops == failures' = failures /\ \E k \in Link : ready[k] # "open" /\ LinkBreaks(k)

(* The browser may notice a broken connection at any time.  The failure    *)
(* was counted when it broke.                                              *)
Noticed == failures' = failures /\ \E k \in Link : cut[k] /\ SocketFails(k)

Init ==
    /\ mounted = 0 /\ visits = 0
    /\ ws = [c \in Client |-> 0]
    /\ intentional = [c \in Client |-> FALSE]
    /\ timer = [c \in Client |-> FALSE] /\ keepalive = timer
    /\ outbound = [c \in Client |-> <<>>]
    /\ known = [c \in Client |-> NoRow]
    /\ connection = "disconnected" /\ hydrated = FALSE
    /\ invite \in {NoRow, 1} /\ saved = NoRow
    /\ unsent = Command
    /\ links = 0
    /\ ready = [k \in Link |-> "unused"]
    /\ cut = [k \in Link |-> FALSE]
    /\ up = [k \in Link |-> <<>>]
    /\ down = [k \in Link |-> NoRow]
    /\ bound = [k \in Link |-> NoRow]
    /\ rows = invite
    /\ failures = 0

Page == Mount \/ Unmount \/ Reload \/ \E m \in Command : Send(m)

Next ==
    \/ /\ \/ Page
          \/ \E c \in Client : OnOpen(c) \/ OnSnapshot(c) \/ OnClose(c) \/ Reconnect(c)
          \/ \E k \in Link : Receive(k)
       /\ UNCHANGED failures
    \/ Fails \/ Breaks \/ Drops \/ Noticed

Spec == Init /\ [][Next]_vars

(* A ping that is never acknowledged ends a broken connection.  Only a     *)
(* page that took a snapshot on its socket sends pings.                    *)
PingLost ==
    /\ failures' = failures
    /\ \E c \in Client : /\ keepalive[c] /\ ws[c] # 0 /\ cut[ws[c]]
                        /\ SocketFails(ws[c])

(* The browser dispatches its events and timers, the server answers, and   *)
(* pings find a broken connection out.  Nothing else does for certain: no  *)
(* timer runs between the JOIN and its answer.                             *)
Fairness ==
    /\ \A c \in Client : /\ WF_vars(OnOpen(c) /\ UNCHANGED failures)
                         /\ WF_vars(OnSnapshot(c) /\ UNCHANGED failures)
                         /\ WF_vars(OnClose(c) /\ UNCHANGED failures)
                         /\ WF_vars(Reconnect(c) /\ UNCHANGED failures)
    /\ \A k \in Link : WF_vars(Receive(k) /\ UNCHANGED failures)
    /\ WF_vars(PingLost)

LiveSpec == Spec /\ Fairness

-----------------------------------------------------------------------------
(* Safety.                                                                 *)

WsTypeOK ==
    /\ mounted \in 0..visits /\ visits \in 0..Visits
    /\ ws \in [Client -> Link \cup {0}]
    /\ intentional \in [Client -> BOOLEAN]
    /\ timer \in [Client -> BOOLEAN] /\ keepalive \in [Client -> BOOLEAN]
    /\ outbound \in [Client -> Seq(Message)]
    /\ known \in [Client -> Row \cup {NoRow}]
    /\ invite \in {NoRow, 1} /\ saved \in Row \cup {NoRow}
    /\ connection \in {"connecting", "connected", "reconnecting", "disconnected"}
    /\ hydrated \in BOOLEAN
    /\ unsent \subseteq Command
    /\ links \in Link \cup {0}
    /\ ready \in [Link -> {"unused", "connecting", "open", "closing", "gone"}]
    /\ cut \in [Link -> BOOLEAN]
    /\ up \in [Link -> Seq(Message)]
    /\ down \in [Link -> Row \cup {NoRow}] /\ bound \in [Link -> Row \cup {NoRow}]
    /\ rows \in Row \cup {0}

(* The page that is open has a socket or a timer that will bring one, and  *)
(* never two lines; a page that was left has neither, whatever events its  *)
(* last socket still brings: no visit goes on behind the user's back.      *)
OneLinePerPage ==
    /\ mounted # 0 => (ws[mounted] # 0 <=> ~timer[mounted])
    /\ \A c \in Client : c # mounted =>
          /\ ~timer[c] /\ ~keepalive[c] /\ outbound[c] = <<>>
          /\ ws[c] # 0 => ready[ws[c]] = "closing"

(* The page shows the room only while its own socket is up or just about   *)
(* to be reported closed, and that socket has been answered.               *)
ConnectedIsHonest ==
    connection = "connected" =>
        /\ mounted # 0 /\ ws[mounted] # 0 /\ hydrated
        /\ ready[ws[mounted]] \in {"open", "closing"}
        /\ bound[ws[mounted]] = known[mounted] /\ saved = known[mounted]

(* Whatever is on the wire or in the queue is executed by the server for   *)
(* the row the page showed when the user sent it: it follows a JOIN of     *)
(* that row on its own socket, through every reconnect and reload.         *)
CommandsAttributed ==
    /\ \A k \in Link : \A i \in 1..Len(up[k]) : up[k][i].id # "JOIN_ROOM" =>
          \/ bound[k] = up[k][i].as
          \/ \E j \in 1..i - 1 : up[k][j] = [id |-> "JOIN_ROOM", as |-> up[k][i].as]
    /\ \A c \in Client : \A i \in 1..Len(outbound[c]) : outbound[c][i].as = known[c]

(* Once the tab has a row it keeps it: no reconnect, reload or new visit   *)
(* leaves the user as somebody else.                                       *)
IdentityKept ==
    [][saved # NoRow => saved' = saved]_vars

(* The page shows the room, not "Joining" (RoomPage.tsx).                  *)
Shows(c) == mounted = c /\ connection = "connected" /\ hydrated

(* The connection broke before the answer to the JOIN was there, and no    *)
(* ping will find it out.                                                  *)
Deaf(c) == ws[c] # 0 /\ ready[ws[c]] = "open" /\ cut[ws[c]] /\ ~keepalive[c]

(* The answer was there, and then the close event of a page that was left  *)
(* wrote "disconnected" into the store.                                    *)
Overtaken(c) == connection = "disconnected" /\ keepalive[c]

(* A page that is opened comes to show its room, and comes back to it      *)
(* after every failure, unless it is left.  In two cases the code gives no *)
(* such promise: the connection breaks between a JOIN and its answer, and  *)
(* a late close event overtakes the answer.                                *)
EventuallyJoins ==
    \A c \in Client :
        mounted = c ~> Shows(c) \/ mounted # c \/ Deaf(c) \/ Overtaken(c)

-----------------------------------------------------------------------------
(* What comments of the code say of it and some behaviour refutes.         *)

(* A "reconnect re-runs JOIN_ROOM with resumeVoterId so the server rebinds *)
(* the same voter": one tab, one row.                                      *)
OneRowPerTab == rows <= 1

(* "Intentional disconnect - no reconnect, no further state changes": a    *)
(* client that was disconnected does not touch the store again.            *)
QuietAfterDisconnect ==
    [][\A c \in Client :
          intentional[c] /\ mounted' = mounted /\ ws'[c] # ws[c]
              => connection' = connection]_vars
=============================================================================
