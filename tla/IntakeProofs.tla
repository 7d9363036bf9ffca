----------------------------- MODULE IntakeProofs -----------------------------
(***************************************************************************)
(* What holds of Intake for any number of sockets, addresses, voters and   *)
(* messages, and any limits.                                               *)
(***************************************************************************)
EXTENDS Intake, FiniteSetTheorems, TLAPS

USE DEF NoTime

(* The minute of the next instant is this one or a later one.              *)
LEMMA MinuteGrows ==
    ASSUME NEW t \in Nat
    PROVE  /\ MinuteOf(t) \in Nat
           /\ MinuteOf(t) <= MinuteOf(t + 1)
<1> DEFINE q == t \div Minute
           r == (t + 1) \div Minute
<1>1. Minute \in Nat /\ Minute > 0
  BY LimitAssumption
<1>2. q \in Nat /\ r \in Nat
  BY <1>1
<1>3. q <= r
  BY <1>1
<1>4. q * Minute \in Nat /\ r * Minute \in Nat /\ q * Minute <= r * Minute
  BY <1>1, <1>2, <1>3
<1> QED
  BY <1>4 DEF MinuteOf

-----------------------------------------------------------------------------
(* Type correctness.                                                       *)

(* What is left in the table is still a row.                               *)
LEMMA RememberedType ==
    IntakeTypeOK => Remembered \in [Message -> Time]
BY DEF IntakeTypeOK, Remembered, Time, NoTime

(* A message within the budget leaves a budget that is within the limit.   *)
LEMMA SpentType ==
    ASSUME IntakeTypeOK, NEW s \in Socket, WithinBudget(s)
    PROVE  Spent(s) \in [start : Time, count : 0..MessageLimit]
BY DEF IntakeTypeOK, WithinBudget, Spent, Time, Clock

(* Counting a handshake keeps the table of rows and one row per address.   *)
LEMMA CountedType ==
    ASSUME IntakeTypeOK, NEW a \in Address, handshakes[a].count < MaxHandshakes
    PROVE  CountedHandshakes(a)
             \in [Address -> [start : Time, count : 0..MaxHandshakes]]
<1>1. MinuteOf(now) \in Nat
  BY MinuteGrows DEF IntakeTypeOK, Clock
<1>2. handshakes \in [Address -> [start : Time, count : 0..MaxHandshakes]]
  BY DEF IntakeTypeOK
<1>3. 0 \in 0..MaxHandshakes /\ MaxHandshakes \in Nat
  BY LimitAssumption
<1> DEFINE kept == [b \in Address |-> IF handshakes[b].start < MinuteOf(now)
                                      THEN Fresh ELSE handshakes[b]]
<1>4. kept \in [Address -> [start : Time, count : 0..MaxHandshakes]]
  BY <1>2, <1>3 DEF Fresh, Time
<1>5. kept[a].count + 1 \in 0..MaxHandshakes
  BY <1>2, <1>3 DEF Fresh
<1> QED
  BY <1>1, <1>4, <1>5 DEF CountedHandshakes, Time

(* The initial state is well typed.                                        *)
LEMMA InitTyped == Init => IntakeTypeOK
BY LimitAssumption
   DEF Init, IntakeTypeOK, Unserved, Fresh, Time, NoTime, Clock

(* Every step keeps the types.                                             *)
LEMMA TypeStep == IntakeTypeOK /\ [Next]_vars => IntakeTypeOK'
<1> SUFFICES ASSUME IntakeTypeOK, [Next]_vars PROVE IntakeTypeOK'
  OBVIOUS
<1> USE LimitAssumption DEF Clock
<1>1. ASSUME NEW s \in Socket, NEW a \in Address, Handshake(s, a)
      PROVE  IntakeTypeOK'
  <2>1. handshakes' \in [Address -> [start : Time, count : 0..MaxHandshakes]]
    BY <1>1, CountedType DEF Handshake
  <2>2. admitted[a] + 1 \in Nat
    BY DEF IntakeTypeOK
  <2> QED
    BY <1>1, <2>1, <2>2 DEF IntakeTypeOK, Handshake, messageVars
<1>2. ASSUME NEW s \in Socket, NEW p \in Person, JoinRoom(s, p)
      PROVE  IntakeTypeOK'
  <2>1. processed' \in [Message -> Time]
    BY <1>2, RememberedType DEF JoinRoom
  <2>2. budget' \in [Socket -> [start : Time, count : 0..MessageLimit]]
    BY <1>2, SpentType DEF JoinRoom, Serve, IntakeTypeOK
  <2>3. served' \in [Socket -> [Clock -> Nat]]
    BY <1>2 DEF JoinRoom, Serve, IntakeTypeOK
  <2>4. conn' \in [Person -> {"none", "connected", "left"}]
    BY <1>2 DEF JoinRoom, IntakeTypeOK
  <2>5. boundTo' \in [Socket -> Person \cup {NoPerson}]
    BY <1>2 DEF JoinRoom, IntakeTypeOK
  <2> QED
    BY <1>2, <2>1, <2>2, <2>3, <2>4, <2>5
       DEF IntakeTypeOK, JoinRoom, handshakeVars
<1>3. ASSUME NEW s \in Socket, NEW m \in Message, Receive(s, m)
      PROVE  IntakeTypeOK'
  <2>1. now \in Time /\ now \in Clock
    BY DEF IntakeTypeOK, Time
  <2>2. processed' \in [Message -> Time]
    BY <1>3, <2>1, RememberedType DEF Receive, Refuse, Succeed
  <2>3. applied' \in [Message -> [Clock -> 0..2]]
    <3>1. applied \in [Message -> [Clock -> 0..2]]
      BY DEF IntakeTypeOK
    <3>2. applied[m] \in [Clock -> 0..2]
      BY <3>1
    <3>3. CASE Refuse(m)
      BY <3>1, <3>3 DEF Refuse
    <3>4. CASE Succeed(m) /\ applied' # applied
      <4> DEFINE n == IF applied[m][now] = 0 THEN 1 ELSE 2
      <4>1. applied' = [applied EXCEPT ![m] = [applied[m] EXCEPT ![now] = n]]
        BY <3>4 DEF Succeed
      <4>2. n \in 0..2
        OBVIOUS
      <4> HIDE DEF n
      <4>3. [applied[m] EXCEPT ![now] = n] \in [Clock -> 0..2]
        BY <3>2, <4>2
      <4> QED
        BY <3>1, <4>1, <4>3
    <3> QED
      BY <1>3, <3>1, <3>3, <3>4 DEF Receive
  <2>4. budget' \in [Socket -> [start : Time, count : 0..MessageLimit]]
    BY <1>3, SpentType DEF Receive, Serve, IntakeTypeOK
  <2>5. served' \in [Socket -> [Clock -> Nat]]
    BY <1>3, <2>1 DEF Receive, Serve, IntakeTypeOK
  <2> QED
    BY <1>3, <2>2, <2>3, <2>4, <2>5 DEF IntakeTypeOK, Receive, handshakeVars
<1>4. ASSUME NEW s \in Socket, PeerCloses(s) \/ ProtocolViolation(s)
      PROVE  IntakeTypeOK'
  <2>1. Gone(s) /\ UNCHANGED <<messageVars, handshakeVars, now>>
    BY <1>4 DEF PeerCloses, ProtocolViolation
  <2>2. Fresh \in [start : Time, count : 0..MessageLimit]
    BY DEF Fresh, Time
  <2>3. budget' \in [Socket -> [start : Time, count : 0..MessageLimit]]
    BY <2>1, <2>2 DEF Gone, IntakeTypeOK
  <2>4. Unserved \in [Clock -> Nat]
    BY DEF Unserved
  <2>5. served' \in [Socket -> [Clock -> Nat]]
    BY <2>1, <2>4 DEF Gone, IntakeTypeOK
  <2>6. conn' \in [Person -> {"none", "connected", "left"}]
    BY <2>1 DEF Gone, IntakeTypeOK
  <2>7. boundTo' \in [Socket -> Person \cup {NoPerson}] /\ open' \subseteq Socket
    BY <2>1 DEF Gone, IntakeTypeOK
  <2> QED
    BY <2>1, <2>3, <2>5, <2>6, <2>7
       DEF IntakeTypeOK, messageVars, handshakeVars
<1>5. CASE Tick
  BY <1>5 DEF IntakeTypeOK, Tick, socketVars, messageVars
<1>6. CASE UNCHANGED vars
  BY <1>6 DEF IntakeTypeOK, vars
<1> QED
  BY <1>1, <1>2, <1>3, <1>4, <1>5, <1>6 DEF Next

(* Every reachable state of a room's intake is well typed: no socket has   *)
(* more in its window than the limit (room.ts, rateLimit.ts).              *)
THEOREM IntakeTypeCorrect == Spec => []IntakeTypeOK
BY InitTyped, TypeStep, PTL DEF Spec

-----------------------------------------------------------------------------
(* Handshakes.                                                             *)

(* The row of an address counts its tries of the present minute, let in or *)
(* not; an address without such a row has not been seen in this minute.    *)
RowCounts ==
    \A a \in Address :
        /\ handshakes[a].start <= MinuteOf(now)
        /\ handshakes[a].start = MinuteOf(now) =>
             /\ handshakes[a].count <= HandshakeLimit =>
                  admitted[a] = handshakes[a].count /\ a \notin refused
             /\ handshakes[a].count > HandshakeLimit =>
                  admitted[a] = HandshakeLimit
        /\ handshakes[a].start # MinuteOf(now) =>
             admitted[a] = 0 /\ a \notin refused

(* Every step keeps the rows honest.                                       *)
LEMMA RowStep ==
    IntakeTypeOK /\ RowCounts /\ [Next]_vars => RowCounts'
<1> SUFFICES ASSUME IntakeTypeOK, RowCounts, [Next]_vars PROVE RowCounts'
  OBVIOUS
<1> USE LimitAssumption
<1>1. MinuteOf(now) \in Nat /\ now \in Nat
  BY MinuteGrows DEF IntakeTypeOK, Clock
<1>2. \A a \in Address : /\ handshakes[a].start \in Time
                         /\ handshakes[a].count \in Nat
                         /\ admitted[a] \in Nat
  BY DEF IntakeTypeOK
<1>3. ASSUME NEW s \in Socket, NEW a \in Address, Handshake(s, a)
      PROVE  RowCounts'
  <2>1. handshakes' = CountedHandshakes(a) /\ now' = now
    BY <1>3 DEF Handshake
  <2>2. SUFFICES ASSUME NEW b \in Address
                 PROVE  /\ handshakes'[b].start <= MinuteOf(now)
                        /\ handshakes'[b].start = MinuteOf(now) =>
                             /\ handshakes'[b].count <= HandshakeLimit =>
                                  /\ admitted'[b] = handshakes'[b].count
                                  /\ b \notin refused'
                             /\ handshakes'[b].count > HandshakeLimit =>
                                  admitted'[b] = HandshakeLimit
                        /\ handshakes'[b].start # MinuteOf(now) =>
                             admitted'[b] = 0 /\ b \notin refused'
    BY <2>1 DEF RowCounts, MinuteOf
  <2>3. CASE b # a
    <3>1. handshakes'[b] = IF handshakes[b].start < MinuteOf(now)
                           THEN Fresh ELSE handshakes[b]
      BY <2>1, <2>3 DEF CountedHandshakes
    <3>2. admitted'[b] = admitted[b] /\ (b \in refused' <=> b \in refused)
      BY <1>3, <2>3 DEF Handshake, IntakeTypeOK
    <3> QED
      BY <1>1, <1>2, <3>1, <3>2 DEF RowCounts, Fresh, Time
  <2>4. CASE b = a
    <3> DEFINE old == IF handshakes[a].start < MinuteOf(now)
                      THEN 0 ELSE handshakes[a].count
    <3>1. /\ handshakes'[a].start = MinuteOf(now)
          /\ handshakes'[a].count = old + 1
      BY <2>1 DEF CountedHandshakes, Fresh
    <3>2. /\ old <= HandshakeLimit => admitted[a] = old /\ a \notin refused
          /\ old > HandshakeLimit => admitted[a] = HandshakeLimit
          /\ old \in Nat
      BY <1>1, <1>2 DEF RowCounts, Time
    <3>3. \/ /\ old + 1 <= HandshakeLimit
             /\ admitted'[a] = admitted[a] + 1 /\ refused' = refused
          \/ /\ old + 1 > HandshakeLimit
             /\ admitted'[a] = admitted[a]
      BY <1>3, <3>1 DEF Handshake, IntakeTypeOK
    <3> HIDE DEF old
    <3> QED
      BY <1>1, <1>2, <2>4, <3>1, <3>2, <3>3
  <2> QED
    BY <2>3, <2>4
<1>4. CASE Tick
  <2>1. now' = now + 1 /\ handshakes' = handshakes
    BY <1>4 DEF Tick
  <2>2. MinuteOf(now) <= MinuteOf(now + 1) /\ MinuteOf(now + 1) \in Nat
    BY <1>1, MinuteGrows
  <2>3. MinuteOf(now)' = MinuteOf(now + 1)
    BY <2>1 DEF MinuteOf
  <2>4. CASE MinuteOf(now + 1) = MinuteOf(now)
    BY <1>4, <2>1, <2>3, <2>4 DEF RowCounts, Tick
  <2>5. CASE MinuteOf(now + 1) # MinuteOf(now)
    <3>1. \A a \in Address : handshakes[a].start < MinuteOf(now + 1)
      BY <1>1, <1>2, <2>2, <2>5 DEF RowCounts, Time
    <3>2. admitted' = [a \in Address |-> 0] /\ refused' = {}
      BY <1>4, <2>5 DEF Tick
    <3> QED
      BY <1>2, <2>1, <2>2, <2>3, <3>1, <3>2 DEF RowCounts, Time
  <2> QED
    BY <2>4, <2>5
<1>5. ASSUME UNCHANGED <<handshakeVars, now>>
      PROVE  RowCounts'
  BY <1>5 DEF RowCounts, MinuteOf, handshakeVars
<1> QED
  BY <1>3, <1>4, <1>5
     DEF Next, JoinRoom, Receive, PeerCloses, ProtocolViolation, vars,
         handshakeVars

(* In each clock minute an address gets exactly its limit of handshakes,   *)
(* whatever the other addresses do (rateLimit.ts checkWsHandshakeRate).    *)
THEOREM HandshakesAlwaysExact == Spec => []HandshakesExact
<1>1. Init => RowCounts
  <2> SUFFICES ASSUME Init PROVE RowCounts
    OBVIOUS
  <2>1. now = 0 /\ MinuteOf(now) \in Nat
    BY MinuteGrows DEF Init
  <2> QED
    BY <2>1 DEF Init, RowCounts, Fresh
<1>2. IntakeTypeOK /\ RowCounts => HandshakesExact
  BY LimitAssumption DEF IntakeTypeOK, RowCounts, HandshakesExact
<1> QED
  BY <1>1, <1>2, InitTyped, TypeStep, RowStep, PTL DEF Spec

-----------------------------------------------------------------------------
(* Replays.                                                                *)

(* What the table knows of the past: no message was applied after the time *)
(* of its row; and one applied less than five minutes ago has a row.       *)
TableTellsPast ==
    /\ \A m \in Message, t \in Clock : applied[m][t] > 0 =>
         /\ t <= now
         /\ processed[m] # NoTime => t <= processed[m]
         /\ now - t < Memory => processed[m] # NoTime
    /\ \A m \in Message : processed[m] # NoTime => processed[m] \in Clock

ReplayInv == TableTellsPast /\ AppliedOnce

(* Dropping the old rows loses nothing that is still to be remembered.     *)
LEMMA PruningIsSafe ==
    ASSUME IntakeTypeOK, TableTellsPast, now' = now, applied' = applied,
           processed' = Remembered
    PROVE  TableTellsPast'
<1> USE LimitAssumption DEF Clock
<1>1. \A m \in Message : /\ processed[m] \in Time
                         /\ Remembered[m] = IF processed[m] < now - Memory
                                            THEN NoTime ELSE processed[m]
  BY DEF IntakeTypeOK, Remembered
<1> QED
  BY <1>1 DEF TableTellsPast, IntakeTypeOK, Time

(* Every step keeps the past told and no command applied twice.            *)
LEMMA ReplayStep ==
    IntakeTypeOK /\ ReplayInv /\ [Next]_vars => ReplayInv'
<1> SUFFICES ASSUME IntakeTypeOK, ReplayInv, [Next]_vars PROVE ReplayInv'
  OBVIOUS
<1> USE LimitAssumption DEF Clock
<1>1. ASSUME now' = now, applied' = applied, processed' = Remembered
      PROVE  ReplayInv'
  BY <1>1, PruningIsSafe DEF ReplayInv, AppliedOnce, Twice
<1>2. ASSUME UNCHANGED <<messageVars, now>>
      PROVE  ReplayInv'
  BY <1>2 DEF ReplayInv, TableTellsPast, AppliedOnce, Twice, messageVars
<1>3. ASSUME NEW m \in Message, Succeed(m), now' = now, applied' # applied,
             m \in Command => ~AlreadyProcessed(m)
      PROVE  ReplayInv'
  <2> DEFINE n == IF applied[m][now] = 0 THEN 1 ELSE 2
  <2>1. /\ now \in Clock /\ now \in Nat
        /\ applied \in [Message -> [Clock -> 0..2]]
        /\ applied[m] \in [Clock -> 0..2]
        /\ processed \in [Message -> Time]
    BY DEF IntakeTypeOK
  <2>2. applied' = [applied EXCEPT ![m] = [applied[m] EXCEPT ![now] = n]]
    BY <1>3 DEF Succeed
  <2>3. n > 0 /\ (applied[m][now] = 0 => n = 1)
    OBVIOUS
  <2> HIDE DEF n
  <2>4. \A k \in Message, t \in Clock :
          applied'[k][t] = IF k = m /\ t = now THEN n ELSE applied[k][t]
    BY <2>1, <2>2
  <2>5. \A k \in Message :
          /\ Remembered[k] = IF processed[k] < now - Memory
                             THEN NoTime ELSE processed[k]
          /\ processed'[k] = IF k = m THEN now ELSE Remembered[k]
    BY <1>3, <2>1 DEF Succeed, Remembered
  <2>6. TableTellsPast'
    <3>1. \A k \in Message, t \in Clock : applied'[k][t] > 0 =>
            /\ t <= now
            /\ processed'[k] # NoTime => t <= processed'[k]
            /\ now - t < Memory => processed'[k] # NoTime
      <4> SUFFICES ASSUME NEW k \in Message, NEW t \in Clock, applied'[k][t] > 0
                   PROVE  /\ t <= now
                          /\ processed'[k] # NoTime => t <= processed'[k]
                          /\ now - t < Memory => processed'[k] # NoTime
        OBVIOUS
      <4>1. CASE k = m
        <5>1. processed'[k] = now /\ (t = now \/ applied[k][t] > 0)
          BY <2>1, <2>4, <2>5, <4>1
        <5>2. t <= now
          BY <2>1, <5>1 DEF ReplayInv, TableTellsPast
        <5> QED
          BY <2>1, <5>1, <5>2
      <4>2. CASE k # m
        BY <2>1, <2>4, <2>5, <4>2 DEF ReplayInv, TableTellsPast, Time
      <4> QED
        BY <4>1, <4>2
    <3>2. \A k \in Message : processed'[k] # NoTime => processed'[k] \in Clock
      BY <2>1, <2>5 DEF ReplayInv, TableTellsPast
    <3> QED
      BY <1>3, <3>1, <3>2 DEF TableTellsPast
  <2>7. AppliedOnce'
    <3> SUFFICES ASSUME NEW k \in Command, NEW t \in Clock, NEW u \in Clock,
                        applied'[k][t] > 0, applied'[k][u] > 0,
                        t <= u, u - t < Memory, t = u => applied'[k][t] > 1
                 PROVE  FALSE
      BY DEF AppliedOnce, Twice
    <3>1. k \in Message
      BY DEF Message
    <3>2. CASE k # m
      BY <3>1, <3>2, <2>4 DEF ReplayInv, AppliedOnce, Twice
    <3>3. CASE k = m
      <4>1. \A x \in Clock : applied[m][x] > 0 => x <= now /\ ~(now - x < Memory)
        <5> SUFFICES ASSUME NEW x \in Clock, applied[m][x] > 0, now - x < Memory
                     PROVE  FALSE
          BY <2>1 DEF ReplayInv, TableTellsPast
        <5>1. processed[m] # NoTime /\ x <= processed[m] /\ x <= now
          BY DEF ReplayInv, TableTellsPast
        <5>2. processed[m] \in Clock
          BY <5>1 DEF ReplayInv, TableTellsPast
        <5>3. AlreadyProcessed(m)
          BY <2>1, <2>5, <5>1, <5>2 DEF AlreadyProcessed
        <5> QED
          BY <1>3, <3>3, <5>3
      <4>2. applied[m][now] = 0
        BY <2>1, <4>1
      <4> QED
        BY <2>1, <2>3, <2>4, <3>1, <3>3, <4>1, <4>2
           DEF ReplayInv, AppliedOnce, Twice
    <3> QED
      BY <3>2, <3>3
  <2> QED
    BY <2>6, <2>7 DEF ReplayInv
<1>7. ASSUME NEW m \in Message, Succeed(m), now' = now, applied' = applied
      PROVE  ReplayInv'
  <2>1. now \in Clock /\ now \in Nat /\ processed \in [Message -> Time]
    BY DEF IntakeTypeOK
  <2>2. \A k \in Message :
          /\ Remembered[k] = IF processed[k] < now - Memory
                             THEN NoTime ELSE processed[k]
          /\ processed'[k] = IF k = m THEN now ELSE Remembered[k]
    BY <1>7, <2>1 DEF Succeed, Remembered
  <2>3. TableTellsPast'
    BY <1>7, <2>1, <2>2 DEF ReplayInv, TableTellsPast, Time
  <2> QED
    BY <1>7, <2>3 DEF ReplayInv, AppliedOnce, Twice
<1>4. CASE Tick
  <2>1. now' = now + 1 /\ applied' = applied /\ processed' = processed
    BY <1>4 DEF Tick, messageVars
  <2> QED
    BY <2>1 DEF ReplayInv, TableTellsPast, AppliedOnce, Twice, IntakeTypeOK
<1>5. ASSUME NEW s \in Socket, NEW m \in Message, Receive(s, m)
      PROVE  ReplayInv'
  BY <1>1, <1>3, <1>5, <1>7 DEF Receive, Refuse
<1>6. ASSUME NEW s \in Socket, NEW p \in Person, JoinRoom(s, p)
      PROVE  ReplayInv'
  BY <1>1, <1>6 DEF JoinRoom
<1> QED
  BY <1>2, <1>4, <1>5, <1>6
     DEF Next, Handshake, PeerCloses, ProtocolViolation, vars, messageVars

(* No state is initial in which anything has been applied.                 *)
LEMMA ReplayInit == Init => ReplayInv
BY LimitAssumption
   DEF Init, ReplayInv, TableTellsPast, AppliedOnce, Twice, Message, Clock

(* A command is applied at most once in five minutes, for any number of    *)
(* sockets, replays and commands in between (dispatcher.ts handleMessage). *)
THEOREM CommandsAppliedOnce == Spec => []AppliedOnce
BY InitTyped, TypeStep, ReplayInit, ReplayStep, PTL DEF Spec, ReplayInv

-----------------------------------------------------------------------------
(* Presence.                                                               *)

(* Every step keeps presence rows backed by a socket.                      *)
LEMMA GhostStep ==
    IntakeTypeOK /\ NoGhosts /\ [Next]_vars => NoGhosts'
<1> SUFFICES ASSUME IntakeTypeOK, NoGhosts, [Next]_vars,
                    NEW q \in Person, conn'[q] = "connected"
             PROVE  \E s \in open' : boundTo'[s] = q
  BY DEF NoGhosts
<1> USE NamesAssumption
<1>1. ASSUME NEW s \in Socket, NEW a \in Address, Handshake(s, a)
      PROVE  \E x \in open' : boundTo'[x] = q
  BY <1>1 DEF NoGhosts, Handshake
<1>2. ASSUME NEW s \in Socket, NEW p \in Person, JoinRoom(s, p)
      PROVE  \E x \in open' : boundTo'[x] = q
  <2>1. s \in open /\ open' = open
    BY <1>2 DEF JoinRoom, Serve, WithinBudget
  <2>2. /\ boundTo' = [boundTo EXCEPT ![s] = p]
        /\ boundTo[s] \in {NoPerson, p}
        /\ boundTo \in [Socket -> Person \cup {NoPerson}]
    BY <1>2 DEF JoinRoom, IntakeTypeOK
  <2>3. CASE q = p
    BY <2>1, <2>2, <2>3
  <2>4. CASE q # p
    <3>1. conn[q] = "connected"
      BY <1>2, <2>4 DEF JoinRoom, IntakeTypeOK
    <3>2. PICK x \in open : boundTo[x] = q
      BY <3>1 DEF NoGhosts
    <3> QED
      BY <2>1, <2>2, <2>4, <3>2 DEF IntakeTypeOK
  <2> QED
    BY <2>3, <2>4
<1>3. ASSUME NEW s \in Socket, NEW m \in Message, Receive(s, m)
      PROVE  \E x \in open' : boundTo'[x] = q
  BY <1>3 DEF NoGhosts, Receive
<1>4. ASSUME NEW s \in Socket, PeerCloses(s) \/ ProtocolViolation(s)
      PROVE  \E x \in open' : boundTo'[x] = q
  <2>1. Gone(s)
    BY <1>4 DEF PeerCloses, ProtocolViolation
  <2>2. conn[q] = "connected" /\ q # boundTo[s]
    BY <2>1 DEF Gone, IntakeTypeOK
  <2>3. PICK x \in open : boundTo[x] = q
    BY <2>2 DEF NoGhosts
  <2> QED
    BY <2>1, <2>2, <2>3 DEF Gone, IntakeTypeOK
<1>5. CASE Tick
  BY <1>5 DEF NoGhosts, Tick, socketVars
<1>6. CASE UNCHANGED vars
  BY <1>6 DEF NoGhosts, vars
<1> QED
  BY <1>1, <1>2, <1>3, <1>4, <1>5, <1>6 DEF Next

(* No voter is shown as connected without a socket behind it, however the  *)
(* socket ended (room.ts closeForProtocolViolation, webSocketClose).       *)
THEOREM NeverAGhost == Spec => []NoGhosts
<1>1. Init => NoGhosts
  BY DEF Init, NoGhosts
<1> QED
  BY <1>1, InitTyped, TypeStep, GhostStep, PTL DEF Spec

-----------------------------------------------------------------------------
(* Floods.  What handlers were given on one socket is a function from the  *)
(* clock; Given is what ServedWithin says of such a function.              *)
Given(f, t, u) ==
    UNION {{x} \X (1..f[x]) : x \in {y \in Clock : t <= y /\ y <= u}}

(* No minute has twice the limit in it.                                    *)
Calm(f) ==
    \A t \in Clock : Cardinality(Given(f, t, t + Minute - 1)) < 2 * MessageLimit

(* What a budget that started its window knows of the past: the window     *)
(* began with a message, its count covers all messages since, there was    *)
(* none after the window's minute, and the part of any minute that lies    *)
(* before the window has at least one less than the limit, for the window  *)
(* before this one began with a message before that part.                  *)
WindowTells(f, b, n) ==
    /\ b.start <= n /\ f[b.start] > 0
    /\ \A x \in Clock : x > n \/ x >= b.start + Minute => f[x] = 0
    /\ Cardinality(Given(f, b.start, MaxTime)) <= b.count
    /\ \A t \in Clock : b.start - Minute < t /\ t <= b.start =>
          Cardinality(Given(f, t, b.start - 1)) <= MessageLimit - 1

BudgetTells(f, b, n) ==
    /\ IsFiniteSet(Given(f, 0, MaxTime))
    /\ b.start = NoTime => \A x \in Clock : f[x] = 0
    /\ b.start # NoTime => WindowTells(f, b, n)

FloodInv ==
    \A s \in Socket : BudgetTells(served[s], budget[s], now) /\ Calm(served[s])

(* A message is its time and its number.                                   *)
LEMMA GivenMember ==
    ASSUME NEW f, NEW t, NEW u
    PROVE  \A e : e \in Given(f, t, u) <=>
             \E x \in Clock : \E k \in 1..f[x] : t <= x /\ x <= u /\ e = <<x, k>>
BY DEF Given

(* A shorter time has no more messages in it.                              *)
LEMMA GivenFits ==
    ASSUME NEW f, IsFiniteSet(Given(f, 0, MaxTime)),
           NEW t \in Int, NEW u \in Int, NEW v \in Int, NEW w \in Int,
           \A x \in Clock : t <= x /\ x <= u => v <= x /\ x <= w
    PROVE  /\ IsFiniteSet(Given(f, t, u)) /\ Cardinality(Given(f, t, u)) \in Nat
           /\ Given(f, t, u) \subseteq Given(f, v, w)
           /\ Cardinality(Given(f, t, u)) <= Cardinality(Given(f, v, w))
<1> USE LimitAssumption
<1>1. Given(f, t, u) \subseteq Given(f, v, w)
  BY GivenMember
<1>2. Given(f, v, w) \subseteq Given(f, 0, MaxTime)
  BY GivenMember DEF Clock
<1>3. IsFiniteSet(Given(f, v, w))
  BY <1>2, FS_Subset
<1> QED
  BY <1>1, <1>3, FS_Subset, FS_CardinalityType

(* A time cut in two.                                                      *)
LEMMA GivenCut ==
    ASSUME NEW f, IsFiniteSet(Given(f, 0, MaxTime)),
           NEW t \in Int, NEW u \in Int, NEW c \in Int
    PROVE  Cardinality(Given(f, t, u))
             <= Cardinality(Given(f, t, c - 1)) + Cardinality(Given(f, c, MaxTime))
<1> DEFINE S == Given(f, t, c - 1)
           T == Given(f, c, MaxTime)
<1> USE LimitAssumption
<1>1. Given(f, t, u) \subseteq S \cup T
  BY GivenMember DEF Clock
<1>2. IsFiniteSet(S) /\ Cardinality(S) \in Nat
  <2>1. \A x \in Clock : t <= x /\ x <= c - 1 => 0 <= x /\ x <= MaxTime
    BY DEF Clock
  <2>2. c - 1 \in Int /\ 0 \in Int /\ MaxTime \in Int
    OBVIOUS
  <2> QED
    BY <2>1, <2>2, GivenFits
<1>3. IsFiniteSet(T) /\ Cardinality(T) \in Nat
  <2>1. \A x \in Clock : c <= x /\ x <= MaxTime => 0 <= x /\ x <= MaxTime
    BY DEF Clock
  <2>2. 0 \in Int /\ MaxTime \in Int
    OBVIOUS
  <2> QED
    BY <2>1, <2>2, GivenFits
<1> HIDE DEF S, T
<1>4. /\ IsFiniteSet(S \cup T)
      /\ Cardinality(S \cup T) = Cardinality(S) + Cardinality(T) - Cardinality(S \cap T)
  BY <1>2, <1>3, FS_Union
<1>5. Cardinality(S \cap T) \in Nat
  BY <1>2, FS_Subset, FS_CardinalityType
<1>6. /\ Cardinality(Given(f, t, u)) <= Cardinality(S \cup T)
      /\ Cardinality(Given(f, t, u)) \in Nat
  BY <1>1, <1>4, FS_Subset, FS_CardinalityType
<1> QED
  BY <1>2, <1>3, <1>4, <1>5, <1>6 DEF S, T

(* Where nothing was given there is nothing.                               *)
LEMMA GivenNone ==
    ASSUME NEW f, NEW t \in Int, NEW u \in Int,
           \A x \in Clock : t <= x /\ x <= u => f[x] = 0
    PROVE  IsFiniteSet(Given(f, t, u)) /\ Cardinality(Given(f, t, u)) = 0
<1>1. Given(f, t, u) = {}
  BY GivenMember
<1> QED
  BY <1>1, FS_EmptySet

(* A socket that was given nothing is calm.                                *)
LEMMA NothingServed ==
    ASSUME NEW f, \A x \in Clock : f[x] = 0, NEW n
    PROVE  BudgetTells(f, Fresh, n) /\ Calm(f)
<1> USE LimitAssumption
<1>1. IsFiniteSet(Given(f, 0, MaxTime))
  BY GivenNone
<1>2. Calm(f)
  <2> SUFFICES ASSUME NEW t \in Clock
               PROVE  Cardinality(Given(f, t, t + Minute - 1)) < 2 * MessageLimit
    BY DEF Calm
  <2>1. t \in Int /\ t + Minute - 1 \in Int
    BY DEF Clock
  <2> QED
    BY <2>1, GivenNone
<1> QED
  BY <1>1, <1>2 DEF BudgetTells, Fresh

(* One message more.                                                       *)
OneMore(f, g, n) ==
    \A x \in Clock : g[x] = IF x = n THEN f[n] + 1 ELSE f[x]

(* It is one more in every stretch of time that it falls into.             *)
LEMMA GivenOneMore ==
    ASSUME NEW f \in [Clock -> Nat], IsFiniteSet(Given(f, 0, MaxTime)), NEW n \in Clock,
           NEW g, OneMore(f, g, n), NEW t \in Int, NEW u \in Int
    PROVE  /\ Given(g, t, u) = IF t <= n /\ n <= u
                              THEN Given(f, t, u) \cup {<<n, f[n] + 1>>}
                              ELSE Given(f, t, u)
           /\ IsFiniteSet(Given(g, t, u)) /\ Cardinality(Given(g, t, u)) \in Nat
           /\ Cardinality(Given(g, t, u)) <= Cardinality(Given(f, t, u)) + 1
<1>1. \A x \in Clock : f[x] \in Nat /\ g[x] = IF x = n THEN f[n] + 1 ELSE f[x]
  BY DEF OneMore
<1>2. Given(g, t, u) = IF t <= n /\ n <= u
                      THEN Given(f, t, u) \cup {<<n, f[n] + 1>>} ELSE Given(f, t, u)
  <2>1. CASE t <= n /\ n <= u
    <3>1. ASSUME NEW e \in Given(g, t, u)
          PROVE  e \in Given(f, t, u) \cup {<<n, f[n] + 1>>}
      <4>1. PICK x \in Clock : \E k \in 1..g[x] : t <= x /\ x <= u /\ e = <<x, k>>
        BY <3>1, GivenMember
      <4>2. PICK k \in 1..g[x] : t <= x /\ x <= u /\ e = <<x, k>>
        BY <4>1
      <4>3. CASE x = n /\ k = f[n] + 1
        BY <4>2, <4>3
      <4>4. CASE ~(x = n /\ k = f[n] + 1)
        <5>1. k \in 1..f[x]
          BY <1>1, <4>4
        <5> QED
          BY <4>2, <5>1, GivenMember
      <4> QED
        BY <4>3, <4>4
    <3>2. ASSUME NEW e \in Given(f, t, u)
          PROVE  e \in Given(g, t, u)
      <4>1. PICK x \in Clock : \E k \in 1..f[x] : t <= x /\ x <= u /\ e = <<x, k>>
        BY <3>2, GivenMember
      <4>2. PICK k \in 1..f[x] : t <= x /\ x <= u /\ e = <<x, k>>
        BY <4>1
      <4>3. k \in 1..g[x]
        BY <1>1
      <4> QED
        BY <4>2, <4>3, GivenMember
    <3>3. <<n, f[n] + 1>> \in Given(g, t, u)
      <4>1. f[n] + 1 \in 1..g[n]
        BY <1>1
      <4> QED
        BY <2>1, <4>1, GivenMember
    <3> QED
      BY <2>1, <3>1, <3>2, <3>3
  <2>2. CASE ~(t <= n /\ n <= u)
    <3>1. \A x \in Clock : t <= x /\ x <= u => g[x] = f[x]
      BY <1>1, <2>2
    <3>2. \A e : e \in Given(g, t, u) <=> e \in Given(f, t, u)
      BY <3>1, GivenMember
    <3> QED
      BY <2>2, <3>2
  <2> QED
    BY <2>1, <2>2
<1>3. IsFiniteSet(Given(f, t, u)) /\ Cardinality(Given(f, t, u)) \in Nat
  <2>1. \A x \in Clock : t <= x /\ x <= u => 0 <= x /\ x <= MaxTime
    BY LimitAssumption DEF Clock
  <2>2. 0 \in Int /\ MaxTime \in Int
    BY LimitAssumption
  <2> QED
    BY <2>1, <2>2, GivenFits
<1>4. /\ IsFiniteSet(Given(f, t, u) \cup {<<n, f[n] + 1>>})
      /\ Cardinality(Given(f, t, u) \cup {<<n, f[n] + 1>>})
           = IF <<n, f[n] + 1>> \in Given(f, t, u)
             THEN Cardinality(Given(f, t, u)) ELSE Cardinality(Given(f, t, u)) + 1
  BY <1>3, FS_AddElement
<1>5. CASE t <= n /\ n <= u
  BY <1>2, <1>3, <1>4, <1>5
<1>6. CASE ~(t <= n /\ n <= u)
  BY <1>2, <1>3, <1>6
<1> QED
  BY <1>5, <1>6

(* With a window that tells, no minute has twice the limit in it if none   *)
(* did that ended before the window began.                                 *)
LEMMA CalmByWindow ==
    ASSUME NEW f, NEW b \in [start : Clock, count : 0..MessageLimit], NEW n \in Clock,
           IsFiniteSet(Given(f, 0, MaxTime)), WindowTells(f, b, n),
           \A t \in Clock : t <= b.start - Minute =>
               Cardinality(Given(f, t, t + Minute - 1)) < 2 * MessageLimit
    PROVE  Calm(f)
<1> SUFFICES ASSUME NEW t \in Clock
             PROVE  Cardinality(Given(f, t, t + Minute - 1)) < 2 * MessageLimit
  BY DEF Calm
<1> DEFINE W == b.start
           u == t + Minute - 1
<1> USE LimitAssumption
<1>1. t \in Int /\ W \in Int /\ u \in Int /\ b.count \in Int /\ b.count <= MessageLimit
  BY DEF Clock
<1>2. Cardinality(Given(f, W, MaxTime)) <= b.count
  BY DEF WindowTells
<1>3. W - 1 \in Int /\ MaxTime \in Int /\ 0 \in Int
  BY <1>1
<1>4. Cardinality(Given(f, W, MaxTime)) \in Nat
  <2>1. \A x \in Clock : W <= x /\ x <= MaxTime => 0 <= x /\ x <= MaxTime
    BY DEF Clock
  <2> QED
    BY <1>1, <1>3, <2>1, GivenFits
<1>5. CASE t <= W - Minute
  BY <1>5
<1>6. CASE W - Minute < t /\ t <= W
  <2>1. Cardinality(Given(f, t, W - 1)) <= MessageLimit - 1
    BY <1>6 DEF WindowTells
  <2>2. Cardinality(Given(f, t, u))
          <= Cardinality(Given(f, t, W - 1)) + Cardinality(Given(f, W, MaxTime))
    BY <1>1, GivenCut
  <2>3. Cardinality(Given(f, t, u)) \in Nat /\ Cardinality(Given(f, t, W - 1)) \in Nat
    <3>1. /\ \A x \in Clock : t <= x /\ x <= u => 0 <= x /\ x <= MaxTime
          /\ \A x \in Clock : t <= x /\ x <= W - 1 => 0 <= x /\ x <= MaxTime
      BY DEF Clock
    <3> HIDE DEF W, u
    <3> QED
      BY <1>1, <1>3, <3>1, GivenFits
  <2> QED
    BY <1>1, <1>2, <1>4, <2>1, <2>2, <2>3
<1>7. CASE W < t
  <2>1. \A x \in Clock : t <= x /\ x <= u => W <= x /\ x <= MaxTime
    BY <1>1, <1>7 DEF Clock
  <2>2. /\ Cardinality(Given(f, t, u)) <= Cardinality(Given(f, W, MaxTime))
        /\ Cardinality(Given(f, t, u)) \in Nat
    <3> HIDE DEF W, u
    <3> QED
      BY <1>1, <1>3, <2>1, GivenFits
  <2> QED
    BY <1>1, <1>2, <1>4, <2>2
<1> QED
  BY <1>1, <1>5, <1>6, <1>7

(* The budget after one more message.                                      *)
After(b, n) ==
    IF b.start # NoTime /\ n - b.start < Minute
    THEN [b EXCEPT !.count = @ + 1]
    ELSE [start |-> n, count |-> 1]

(* A message within a window is one more of it.                            *)
LEMMA WindowGoesOn ==
    ASSUME NEW f \in [Clock -> Nat], NEW n \in Clock,
           NEW b \in [start : Clock, count : 0..MessageLimit],
           IsFiniteSet(Given(f, 0, MaxTime)), WindowTells(f, b, n), n - b.start < Minute,
           NEW g, OneMore(f, g, n)
    PROVE  WindowTells(g, [b EXCEPT !.count = @ + 1], n)
<1> DEFINE W == b.start
<1> USE LimitAssumption
<1>1. W \in Int /\ W \in Clock /\ n \in Int /\ b.count \in Int /\ W <= n /\ n < W + Minute
  BY DEF WindowTells, Clock
<1>2. \A x \in Clock : f[x] \in Nat /\ g[x] = IF x = n THEN f[n] + 1 ELSE f[x]
  BY DEF OneMore
<1>3. f[W] > 0 /\ \A x \in Clock : x > n \/ x >= W + Minute => f[x] = 0
  BY DEF WindowTells
<1>4. g[W] > 0 /\ \A x \in Clock : x > n \/ x >= W + Minute => g[x] = 0
  BY <1>1, <1>2, <1>3
<1>5. Cardinality(Given(g, W, MaxTime)) <= b.count + 1
  <2>1. Cardinality(Given(f, W, MaxTime)) <= b.count
    BY DEF WindowTells
  <2>2. W \in Int /\ MaxTime \in Int
    BY <1>1
  <2>3. Cardinality(Given(f, W, MaxTime)) \in Nat
    <3>1. \A x \in Clock : W <= x /\ x <= MaxTime => 0 <= x /\ x <= MaxTime
      BY DEF Clock
    <3> HIDE DEF W
    <3> QED
      BY <2>2, <3>1, GivenFits
  <2>4. /\ Cardinality(Given(g, W, MaxTime)) \in Nat
        /\ Cardinality(Given(g, W, MaxTime)) <= Cardinality(Given(f, W, MaxTime)) + 1
    BY <2>2, GivenOneMore
  <2> QED
    BY <1>1, <2>1, <2>3, <2>4
<1>6. ASSUME NEW t \in Clock, W - Minute < t, t <= W
      PROVE  Cardinality(Given(g, t, W - 1)) <= MessageLimit - 1
  <2>1. t \in Int /\ W - 1 \in Int /\ ~(n <= W - 1)
    BY <1>1 DEF Clock
  <2>2. Given(g, t, W - 1) = Given(f, t, W - 1)
    BY <2>1, GivenOneMore
  <2> QED
    BY <1>6, <2>2 DEF WindowTells
<1> QED
  BY <1>1, <1>4, <1>5, <1>6 DEF WindowTells

(* A message that starts a window, over an old one.                        *)
LEMMA WindowStarts ==
    ASSUME NEW f \in [Clock -> Nat], NEW n \in Clock,
           NEW b \in [start : Clock, count : 0..MessageLimit],
           IsFiniteSet(Given(f, 0, MaxTime)), WindowTells(f, b, n), ~(n - b.start < Minute),
           NEW g, OneMore(f, g, n)
    PROVE  WindowTells(g, [start |-> n, count |-> 1], n)
<1> DEFINE W == b.start
<1> USE LimitAssumption
<1>1. /\ W \in Int /\ W \in Clock /\ n \in Int /\ b.count \in Int
      /\ b.count <= MessageLimit /\ n >= W + Minute /\ MaxTime \in Int /\ n - 1 \in Int
  BY DEF Clock
<1>2. \A x \in Clock : f[x] \in Nat /\ g[x] = IF x = n THEN f[n] + 1 ELSE f[x]
  BY DEF OneMore
<1>3. f[W] > 0 /\ \A x \in Clock : x > n \/ x >= W + Minute => f[x] = 0
  BY DEF WindowTells
<1>4. g[n] > 0 /\ \A x \in Clock : x > n \/ x >= n + Minute => g[x] = 0
  <2>1. g[n] > 0
    BY <1>2
  <2>2. ASSUME NEW x \in Clock, x > n \/ x >= n + Minute
        PROVE  g[x] = 0
    <3>1. x > n
      BY <1>1, <2>2 DEF Clock
    <3>2. f[x] = 0 /\ x # n
      BY <1>1, <1>3, <3>1
    <3> QED
      BY <1>2, <3>2
  <2> QED
    BY <2>1, <2>2
<1>5. Cardinality(Given(g, n, MaxTime)) <= 1
  <2>1. \A x \in Clock : n <= x /\ x <= MaxTime => f[x] = 0
    BY <1>1, <1>3 DEF Clock
  <2>2. Cardinality(Given(f, n, MaxTime)) = 0
    BY <1>1, <2>1, GivenNone
  <2>3. /\ Cardinality(Given(g, n, MaxTime)) \in Nat
        /\ Cardinality(Given(g, n, MaxTime)) <= Cardinality(Given(f, n, MaxTime)) + 1
    BY <1>1, GivenOneMore
  <2> QED
    BY <2>2, <2>3
<1>6. ASSUME NEW t \in Clock, n - Minute < t, t <= n
      PROVE  Cardinality(Given(g, t, n - 1)) <= MessageLimit - 1
  <2> DEFINE S == Given(f, W, MaxTime)
             first == <<W, 1>>
  <2>1. t \in Int /\ t > W
    BY <1>1, <1>6 DEF Clock
  <2>2. Given(g, t, n - 1) = Given(f, t, n - 1)
    <3>1. ~(n <= n - 1)
      BY <1>1
    <3> QED
      BY <1>1, <2>1, <3>1, GivenOneMore
  <2>3. IsFiniteSet(S) /\ Cardinality(S) \in Nat /\ Cardinality(S) <= b.count
    <3>1. \A x \in Clock : W <= x /\ x <= MaxTime => 0 <= x /\ x <= MaxTime
      BY DEF Clock
    <3>2. IsFiniteSet(S) /\ Cardinality(S) \in Nat
      BY <1>1, <3>1, GivenFits
    <3> QED
      BY <3>2 DEF WindowTells
  <2>4. first \in S
    <3>1. W <= W /\ W <= MaxTime
      BY <1>1 DEF Clock
    <3>2. 1 \in 1..f[W]
      <4>1. f[W] \in Nat /\ f[W] > 0
        BY <1>1, <1>2, <1>3
      <4> QED
        BY <4>1
    <3> QED
      BY <1>1, <3>1, <3>2, GivenMember
  <2>5. Given(f, t, n - 1) \subseteq S \ {first}
    <3> SUFFICES ASSUME NEW e \in Given(f, t, n - 1)
                 PROVE  e \in S /\ e # first
      OBVIOUS
    <3>1. PICK x \in Clock : \E k \in 1..f[x] : t <= x /\ x <= n - 1 /\ e = <<x, k>>
      BY GivenMember
    <3>2. t <= x /\ x \in Int /\ x <= MaxTime
      BY <3>1 DEF Clock
    <3>3. W <= x /\ x # W
      <4> HIDE DEF W
      <4> QED
        BY <1>1, <2>1, <3>2
    <3>4. e \in S
      BY <3>1, <3>2, <3>3, GivenMember
    <3>5. e # first
      BY <3>1, <3>3
    <3> QED
      BY <3>4, <3>5
  <2> HIDE DEF S, first
  <2>6. IsFiniteSet(S \ {first}) /\ Cardinality(S \ {first}) = Cardinality(S) - 1
    BY <2>3, <2>4, FS_RemoveElement
  <2>7. /\ Cardinality(Given(f, t, n - 1)) <= Cardinality(S \ {first})
        /\ Cardinality(Given(f, t, n - 1)) \in Nat
    BY <2>5, <2>6, FS_Subset, FS_CardinalityType
  <2> QED
    BY <1>1, <2>2, <2>3, <2>6, <2>7
<1> QED
  BY <1>1, <1>4, <1>5, <1>6 DEF WindowTells

(* The first message of a socket starts its first window.                  *)
LEMMA FirstWindow ==
    ASSUME NEW f \in [Clock -> Nat], NEW n \in Clock, \A x \in Clock : f[x] = 0,
           IsFiniteSet(Given(f, 0, MaxTime)), NEW g, OneMore(f, g, n)
    PROVE  WindowTells(g, [start |-> n, count |-> 1], n)
<1> USE LimitAssumption
<1>1. n \in Int /\ MaxTime \in Int /\ n - 1 \in Int
  BY DEF Clock
<1>2. \A x \in Clock : g[x] = IF x = n THEN 1 ELSE 0
  BY DEF OneMore
<1>3. Cardinality(Given(g, n, MaxTime)) <= 1
  <2>1. Cardinality(Given(f, n, MaxTime)) = 0
    BY <1>1, GivenNone
  <2>2. /\ Cardinality(Given(g, n, MaxTime)) \in Nat
        /\ Cardinality(Given(g, n, MaxTime)) <= Cardinality(Given(f, n, MaxTime)) + 1
    BY <1>1, GivenOneMore
  <2> QED
    BY <2>1, <2>2
<1>4. ASSUME NEW t \in Clock
      PROVE  Cardinality(Given(g, t, n - 1)) <= MessageLimit - 1
  <2>1. t \in Int
    BY DEF Clock
  <2>2. \A x \in Clock : t <= x /\ x <= n - 1 => g[x] = 0
    BY <1>1, <1>2 DEF Clock
  <2>3. Cardinality(Given(g, t, n - 1)) = 0
    BY <1>1, <2>1, <2>2, GivenNone
  <2> QED
    BY <2>3
<1> QED
  BY <1>1, <1>2, <1>3, <1>4 DEF WindowTells, Clock

(* One message more, within the budget, keeps the socket calm.             *)
LEMMA BudgetKept ==
    ASSUME NEW f \in [Clock -> Nat], NEW n \in Clock,
           NEW b \in [start : Time, count : 0..MessageLimit],
           BudgetTells(f, b, n), Calm(f), b.start # NoTime => b.start \in Clock,
           After(b, n).count <= MessageLimit,
           NEW g, OneMore(f, g, n)
    PROVE  BudgetTells(g, After(b, n), n) /\ Calm(g)
<1> USE LimitAssumption
<1> DEFINE c == After(b, n)
<1>1. IsFiniteSet(Given(f, 0, MaxTime))
  BY DEF BudgetTells
<1>2. IsFiniteSet(Given(g, 0, MaxTime))
  <2>1. 0 \in Int /\ MaxTime \in Int
    OBVIOUS
  <2> QED
    BY <1>1, <2>1, GivenOneMore
<1>3. c \in [start : Clock, count : 0..MessageLimit]
  <2>1. CASE b.start # NoTime /\ n - b.start < Minute
    <3>1. c = [start |-> b.start, count |-> b.count + 1]
      BY <2>1 DEF After
    <3>2. b.start \in Clock /\ b.count \in Nat /\ b.count + 1 <= MessageLimit
      BY <2>1, <3>1
    <3> QED
      BY <3>1, <3>2
  <2>2. CASE ~(b.start # NoTime /\ n - b.start < Minute)
    <3>1. c = [start |-> n, count |-> 1]
      BY <2>2 DEF After
    <3> QED
      BY <3>1
  <2> QED
    BY <2>1, <2>2
<1>4. WindowTells(g, c, n)
  <2>1. CASE b.start = NoTime
    BY <1>1, <2>1, FirstWindow DEF BudgetTells, After
  <2>2. CASE b.start # NoTime
    <3>1. b \in [start : Clock, count : 0..MessageLimit] /\ WindowTells(f, b, n)
      BY <2>2 DEF BudgetTells
    <3>2. CASE n - b.start < Minute
      BY <1>1, <2>2, <3>1, <3>2, WindowGoesOn DEF After
    <3>3. CASE ~(n - b.start < Minute)
      BY <1>1, <2>2, <3>1, <3>3, WindowStarts DEF After
    <3> QED
      BY <3>2, <3>3
  <2> QED
    BY <2>1, <2>2
<1>5. c.start \in Clock /\ c.start <= n /\ c.start # NoTime
  BY <1>3, <1>4 DEF WindowTells, Clock
<1>6. ASSUME NEW t \in Clock, t <= c.start - Minute
      PROVE  Cardinality(Given(g, t, t + Minute - 1)) < 2 * MessageLimit
  <2>1. t \in Int /\ t + Minute - 1 \in Int /\ ~(n <= t + Minute - 1)
    <3> HIDE DEF c
    <3> QED
      BY <1>5, <1>6 DEF Clock
  <2>2. Given(g, t, t + Minute - 1) = Given(f, t, t + Minute - 1)
    BY <1>1, <2>1, GivenOneMore
  <2> QED
    BY <2>2 DEF Calm
<1> HIDE DEF c
<1>7. Calm(g)
  BY <1>2, <1>3, <1>4, <1>6, CalmByWindow
<1>8. BudgetTells(g, c, n)
  BY <1>2, <1>4, <1>5 DEF BudgetTells
<1> QED
  BY <1>7, <1>8 DEF c

(* Every step keeps every socket's budget honest and every minute calm.    *)
LEMMA FloodStep ==
    IntakeTypeOK /\ FloodInv /\ [Next]_vars => FloodInv'
<1> SUFFICES ASSUME IntakeTypeOK, FloodInv, [Next]_vars,
                    NEW z \in Socket
             PROVE  BudgetTells(served'[z], budget'[z], now') /\ Calm(served'[z])
  BY DEF FloodInv
<1> USE LimitAssumption
<1>1. /\ BudgetTells(served[z], budget[z], now) /\ Calm(served[z])
      /\ now \in Clock /\ served[z] \in [Clock -> Nat]
      /\ budget[z] \in [start : Time, count : 0..MessageLimit]
      /\ served \in [Socket -> [Clock -> Nat]] /\ DOMAIN budget = Socket
  BY DEF FloodInv, IntakeTypeOK
<1>2. budget[z].start # NoTime => budget[z].start \in Clock
  BY <1>1 DEF BudgetTells, WindowTells, Clock, Time
<1>3. ASSUME NEW s \in Socket, Serve(s), budget' = [budget EXCEPT ![s] = Spent(s)],
             now' = now
      PROVE  BudgetTells(served'[z], budget'[z], now') /\ Calm(served'[z])
  <2>1. served' = [served EXCEPT ![s][now] = @ + 1] /\ Spent(s).count <= MessageLimit
    BY <1>3 DEF Serve, WithinBudget
  <2>2. CASE z # s
    <3>1. served'[z] = served[z] /\ budget'[z] = budget[z]
      BY <1>1, <1>3, <2>1, <2>2
    <3> QED
      BY <1>1, <1>3, <3>1
  <2>3. CASE z = s
    <3>1. /\ OneMore(served[z], served'[z], now)
          /\ budget'[z] = After(budget[z], now)
          /\ After(budget[z], now).count <= MessageLimit
      BY <1>1, <1>3, <2>1, <2>3 DEF Spent, After, OneMore
    <3> QED
      BY <1>1, <1>2, <1>3, <3>1, BudgetKept
  <2> QED
    BY <2>2, <2>3
<1>4. ASSUME NEW s \in Socket, Gone(s), now' = now
      PROVE  BudgetTells(served'[z], budget'[z], now') /\ Calm(served'[z])
  <2>1. CASE z # s
    <3>1. served'[z] = served[z] /\ budget'[z] = budget[z]
      BY <1>1, <1>4, <2>1 DEF Gone
    <3> QED
      BY <1>1, <1>4, <3>1
  <2>2. CASE z = s
    <3>1. budget'[z] = Fresh /\ \A x \in Clock : served'[z][x] = 0
      BY <1>1, <1>4, <2>2 DEF Gone, Unserved
    <3> QED
      BY <3>1, NothingServed
  <2> QED
    BY <2>1, <2>2
<1>5. ASSUME UNCHANGED <<served, budget>>, now' \in Int, now' >= now
      PROVE  BudgetTells(served'[z], budget'[z], now') /\ Calm(served'[z])
  <2>1. WindowTells(served[z], budget[z], now) /\ budget[z].start # NoTime
          => WindowTells(served[z], budget[z], now')
    BY <1>1, <1>2, <1>5 DEF WindowTells, Clock
  <2> QED
    BY <1>1, <1>5, <2>1 DEF BudgetTells
<1>6. CASE Tick
  <2>1. UNCHANGED <<served, budget>> /\ now' = now + 1
    BY <1>6 DEF Tick, socketVars
  <2> QED
    BY <1>1, <1>5, <2>1 DEF Clock
<1>7. ASSUME UNCHANGED <<served, budget, now>>
      PROVE  BudgetTells(served'[z], budget'[z], now') /\ Calm(served'[z])
  BY <1>1, <1>7
<1> QED
  BY <1>3, <1>4, <1>6, <1>7
     DEF Next, Handshake, JoinRoom, Receive, PeerCloses, ProtocolViolation, vars

(* However a peer floods a socket, in no minute, wherever it is laid, do   *)
(* the handlers see twice the limit, for any limit and any sockets         *)
(* (room.ts consumeSocketMessageBudget).                                   *)
THEOREM FloodsAlwaysStopped == Spec => []FloodStopped
<1>1. Init => FloodInv
  <2> SUFFICES ASSUME Init, NEW s \in Socket
               PROVE  BudgetTells(served[s], budget[s], now) /\ Calm(served[s])
    BY DEF FloodInv
  <2>1. budget[s] = Fresh /\ \A x \in Clock : served[s][x] = 0
    BY DEF Init, Unserved
  <2> QED
    BY <2>1, NothingServed
<1>2. FloodInv => FloodStopped
  BY DEF FloodInv, FloodStopped, Calm, Given, ServedWithin
<1> QED
  BY <1>1, <1>2, InitTyped, TypeStep, FloodStep, PTL DEF Spec
=============================================================================
