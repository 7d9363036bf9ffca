-------------------------------- MODULE Intake --------------------------------
(***************************************************************************)
(* What a room does with a handshake and with a frame before and after a   *)
(* handler sees it: the handshake counter of rateLimit.ts, the socket      *)
(* budget and the closing of sockets that break the rules in room.ts, and  *)
(* the absorbing of replays in dispatcher.ts.  The handlers themselves are *)
(* in Room; here one either succeeds or answers with an error.             *)
(*                                                                         *)
(* Time is a counter: a tick is a fraction of a minute.                    *)
(***************************************************************************)
EXTENDS Integers, FiniteSets

CONSTANTS
    Person,      \* voters
    NoPerson,    \* the voterId of an attachment before JOIN_ROOM
    Socket,      \* WebSockets that may be open at the same time
    Address,     \* CF-Connecting-IP
    Command,     \* ids of messages whose handler asks alreadyProcessed first
    SeatMessage, \* ids of CLAIM_HOST and TRANSFER_HOST messages
    MessageLimit,   \* MAX_WS_MESSAGES_PER_MINUTE
    HandshakeLimit, \* RL_WS_PER_MIN
    Minute,         \* MINUTE_MS, and the 60_000 of the socket budget
    Memory,         \* FIVE_MIN_MS
    MaxHandshakes,  \* bound: tries of one address counted in one minute
    MaxTime         \* bound: the clock of an instance stops here

ASSUME NamesAssumption == NoPerson \notin Person /\ Command \cap SeatMessage = {}
ASSUME LimitAssumption ==
    /\ MessageLimit \in Nat \ {0} /\ HandshakeLimit \in Nat \ {0}
    /\ Minute \in Nat \ {0} /\ Memory \in Nat \ {0}
    /\ MaxHandshakes \in Nat /\ MaxTime \in Nat

VARIABLES
    open,       \* the sockets the room has accepted and not seen closed
    boundTo,    \* the voterId in each socket's attachment
    budget,     \* messageWindowStart and messageCount in the attachment
    conn,       \* voter.connection_state
    processed,  \* processed_message: the time of each id, NoTime: no row
    handshakes, \* ws_handshake_rate: the row of each address
    now,        \* Date.now()
    applied,    \* history: how often (2: twice or more) a message changed
                \* the room, by time
    served,     \* history: messages given to a handler, by socket and time
    admitted,   \* history: handshakes let in during this clock minute
    refused     \* history: addresses turned away during this clock minute

socketVars    == <<open, boundTo, budget, conn, served>>
messageVars   == <<processed, applied>>
handshakeVars == <<handshakes, admitted, refused>>
vars == <<open, boundTo, budget, conn, processed, handshakes, now,
          applied, served, admitted, refused>>

Message == Command \cup SeatMessage
NoTime  == -1
Time    == Nat \cup {NoTime}
Clock   == 0..MaxTime
Fresh   == [start |-> NoTime, count |-> 0]

MinuteOf(t) == (t \div Minute) * Minute

Unserved == [t \in Clock |-> 0]

Init ==
    /\ open = {}
    /\ boundTo = [s \in Socket |-> NoPerson]
    /\ budget = [s \in Socket |-> Fresh]
    /\ conn = [p \in Person |-> "none"]
    /\ processed = [m \in Message |-> NoTime]
    /\ handshakes = [a \in Address |-> Fresh]
    /\ now = 0
    /\ applied = [m \in Message |-> [t \in Clock |-> 0]]
    /\ served = [s \in Socket |-> Unserved]
    /\ admitted = [a \in Address |-> 0]
    /\ refused = {}

-----------------------------------------------------------------------------
(* Handshakes.                                                             *)

(* Mutant: the row of the present minute is pruned with the stale ones.    *)
CountedHandshakes_PrunesAll(a) ==
    [b \in Address |->
        IF b = a THEN [start |-> MinuteOf(now), count |-> 1] ELSE Fresh]

(* checkWsHandshakeRate: the rows of earlier minutes go, and the address   *)
(* has one more in this minute.                                            *)
CountedHandshakes(a) ==
    LET kept == [b \in Address |-> IF handshakes[b].start < MinuteOf(now)
                                   THEN Fresh ELSE handshakes[b]]
    IN  [kept EXCEPT ![a] = [start |-> MinuteOf(now), count |-> @.count + 1]]

Handshake(s, a) ==
    /\ s \notin open
    /\ handshakes[a].count < MaxHandshakes
    /\ handshakes' = CountedHandshakes(a)
    /\ \/ /\ handshakes'[a].count <= HandshakeLimit
          /\ open' = open \cup {s}
          /\ admitted' = [admitted EXCEPT ![a] = @ + 1]
          /\ UNCHANGED refused
       \/ /\ handshakes'[a].count > HandshakeLimit
          /\ refused' = refused \cup {a}
          /\ UNCHANGED <<open, admitted>>
    /\ UNCHANGED <<boundTo, budget, conn, served, messageVars, now>>

-----------------------------------------------------------------------------
(* The budget of a socket.                                                 *)

(* consumeSocketMessageBudget: the window starts with its first message.   *)
Spent(s) ==
    IF budget[s].start # NoTime /\ now - budget[s].start < Minute
    THEN [budget[s] EXCEPT !.count = @ + 1]
    ELSE [start |-> now, count |-> 1]

WithinBudget(s) == s \in open /\ Spent(s).count <= MessageLimit

(* webSocketClose: the voter's row says left; the attachment goes with the *)
(* socket.                                                                 *)
Gone(s) ==
    /\ open' = open \ {s}
    /\ boundTo' = [boundTo EXCEPT ![s] = NoPerson]
    /\ budget' = [budget EXCEPT ![s] = Fresh]
    /\ served' = [served EXCEPT ![s] = Unserved]
    /\ conn' = [p \in Person |-> IF p = boundTo[s] THEN "left" ELSE conn[p]]

(* The peer, or the network, closes the socket.                            *)
PeerCloses(s) ==
    /\ s \in open
    /\ Gone(s)
    /\ UNCHANGED <<messageVars, handshakeVars, now>>

(* Mutant: ws.close alone; the runtime does not call webSocketClose back.  *)
ProtocolViolation_CloseOnly(s) ==
    /\ s \in open
    /\ open' = open \ {s}
    /\ boundTo' = [boundTo EXCEPT ![s] = NoPerson]
    /\ budget' = [budget EXCEPT ![s] = Fresh]
    /\ served' = [served EXCEPT ![s] = Unserved]
    /\ UNCHANGED <<conn, messageVars, handshakeVars, now>>

(* closeForProtocolViolation: a frame that is binary or too large, at any  *)
(* time, or one more than the budget allows.  The room closes the socket   *)
(* and runs the close handler itself.                                      *)
ProtocolViolation(s) ==
    /\ s \in open
    /\ Gone(s)
    /\ UNCHANGED <<messageVars, handshakeVars, now>>

-----------------------------------------------------------------------------
(* Frames within the budget.                                               *)

Serve(s) ==
    /\ WithinBudget(s)
    /\ served' = [served EXCEPT ![s][now] = @ + 1]

(* Rows older than the memory go before the id is looked up, whatever the  *)
(* message.                                                                *)
Remembered == [m \in Message |-> IF processed[m] < now - Memory
                                 THEN NoTime ELSE processed[m]]

(* Mutant: the look-up forgets a little sooner than the table does.        *)
AlreadyProcessed_Short(m) ==
    Remembered[m] # NoTime /\ now - Remembered[m] < Memory - 1

AlreadyProcessed(m) ==
    Remembered[m] # NoTime /\ now - Remembered[m] < Memory

(* Mutant: JOIN_ROOM writes the attachment anew.                           *)
JoinRoom_NewAttachment(s, p) ==
    /\ Serve(s)
    /\ boundTo[s] \in {NoPerson, p}
    /\ boundTo' = [boundTo EXCEPT ![s] = p]
    /\ budget' = [budget EXCEPT ![s] = Fresh]
    /\ conn' = [conn EXCEPT ![p] = IF boundTo[s] = p THEN @ ELSE "connected"]
    /\ processed' = Remembered
    /\ UNCHANGED <<open, applied, handshakeVars, now>>

(* JOIN_ROOM binds a fresh socket and keeps the rest of its attachment; on *)
(* a bound one it repeats the binding.                                     *)
JoinRoom(s, p) ==
    /\ Serve(s)
    /\ boundTo[s] \in {NoPerson, p}
    /\ boundTo' = [boundTo EXCEPT ![s] = p]
    /\ budget' = [budget EXCEPT ![s] = Spent(s)]
    /\ conn' = [conn EXCEPT ![p] = IF boundTo[s] = p THEN @ ELSE "connected"]
    /\ processed' = Remembered
    /\ UNCHANGED <<open, applied, handshakeVars, now>>

(* The handler records the id: it has changed the room, or it is           *)
(* ACCEPT_AGREED and found no story to commit.                             *)
Succeed(m) ==
    /\ processed' = [Remembered EXCEPT ![m] = now]
    /\ \/ applied' = [applied EXCEPT ![m][now] = IF @ = 0 THEN 1 ELSE 2]
       \/ m \in Command /\ UNCHANGED applied

(* The handler answers with an error, or has nothing to say.               *)
Refuse(m) ==
    /\ processed' = Remembered
    /\ UNCHANGED applied

(* A message with an id; the same one may come again, on this socket or    *)
(* another.  Only a bound socket's message can succeed.                    *)
Receive(s, m) ==
    /\ Serve(s)
    /\ budget' = [budget EXCEPT ![s] = Spent(s)]
    /\ \/ Refuse(m)
       \/ /\ boundTo[s] # NoPerson
          /\ m \in Command => ~AlreadyProcessed(m)
          /\ Succeed(m)
    /\ UNCHANGED <<open, boundTo, conn, handshakeVars, now>>

(* The next unit of time; the histories of the minute end with it.         *)
Tick ==
    /\ now < MaxTime
    /\ now' = now + 1
    /\ \/ /\ MinuteOf(now + 1) = MinuteOf(now)
          /\ UNCHANGED <<admitted, refused>>
       \/ /\ MinuteOf(now + 1) # MinuteOf(now)
          /\ admitted' = [a \in Address |-> 0]
          /\ refused' = {}
    /\ UNCHANGED <<socketVars, messageVars, handshakes>>

Next ==
    \/ \E s \in Socket :
        \/ \E a \in Address : Handshake(s, a)
        \/ \E p \in Person : JoinRoom(s, p)
        \/ \E m \in Message : Receive(s, m)
        \/ PeerCloses(s)
        \/ ProtocolViolation(s)
    \/ Tick

Spec == Init /\ [][Next]_vars

-----------------------------------------------------------------------------
(* Properties.                                                             *)

IntakeTypeOK ==
    /\ open \subseteq Socket
    /\ boundTo \in [Socket -> Person \cup {NoPerson}]
    /\ budget \in [Socket -> [start : Time, count : 0..MessageLimit]]
    /\ conn \in [Person -> {"none", "connected", "left"}]
    /\ processed \in [Message -> Time]
    /\ handshakes \in [Address -> [start : Time, count : 0..MaxHandshakes]]
    /\ now \in Clock
    /\ applied \in [Message -> [Clock -> 0..2]]
    /\ served \in [Socket -> [Clock -> Nat]]
    /\ admitted \in [Address -> Nat]
    /\ refused \subseteq Address

Twice(m) == \E t, u \in Clock :
    /\ applied[m][t] > 0 /\ applied[m][u] > 0
    /\ t <= u /\ u - t < Memory
    /\ t = u => applied[m][t] > 1

(* A command whose handler looks at alreadyProcessed changes the room at   *)
(* most once in five minutes however often and on whatever sockets it      *)
(* arrives (dispatcher.ts: record on success, absorb while remembered).    *)
AppliedOnce == \A m \in Command : ~Twice(m)

(* What dispatcher.ts says of markProcessed, "handlers call this after a   *)
(* successful mutation to dedupe future replays", of the two handlers that *)
(* call it and never ask alreadyProcessed: CLAIM_HOST and TRANSFER_HOST.   *)
SeatMovedOnce == \A m \in SeatMessage : ~Twice(m)

(* The messages handlers were given from t to u, by time and number.       *)
ServedWithin(s, t, u) ==
    UNION {{x} \X (1..served[s][x]) : x \in {y \in Clock : t <= y /\ y <= u}}

(* The budget of a socket holds through every JOIN_ROOM it repeats and     *)
(* every window it starts: in no minute, wherever it is laid, do the       *)
(* handlers see twice the limit (room.ts consumeSocketMessageBudget).      *)
FloodStopped ==
    \A s \in Socket, t \in Clock :
        Cardinality(ServedWithin(s, t, t + Minute - 1)) < 2 * MessageLimit

(* A voter row says connected only while an accepted socket is bound to    *)
(* the voter: the room runs the close handler for the sockets it closes    *)
(* itself (room.ts closeForProtocolViolation).                             *)
NoGhosts ==
    \A p \in Person : conn[p] = "connected" =>
        \E s \in open : boundTo[s] = p

(* In each clock minute an address gets exactly its limit: never more, and *)
(* nobody is turned away before (rateLimit.ts checkWsHandshakeRate).       *)
HandshakesExact ==
    \A a \in Address :
        /\ admitted[a] <= HandshakeLimit
        /\ a \in refused => admitted[a] = HandshakeLimit
=============================================================================
