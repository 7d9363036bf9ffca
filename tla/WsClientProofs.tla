---------------------------- MODULE WsClientProofs ----------------------------
(***************************************************************************)
(* For any visits, failures and commands: a page has one line, what it     *)
(* shows is so, what it sends is executed for the row it showed, and the   *)
(* tab keeps its row.                                                      *)
(***************************************************************************)
EXTENDS WsClient, TLAPS

-----------------------------------------------------------------------------
(* The sockets and whose they are.                                         *)

(* Rows are numbers: how many there are is not bounded here.               *)
Sent == [id : Command \cup {"JOIN_ROOM"}, as : Nat]

PageTypes ==
    /\ mounted \in Client \cup {0} /\ visits \in Nat /\ visits <= Visits
    /\ mounted <= visits
    /\ ws \in [Client -> Link \cup {0}]
    /\ intentional \in [Client -> BOOLEAN]
    /\ timer \in [Client -> BOOLEAN] /\ keepalive \in [Client -> BOOLEAN]

TabTypes ==
    /\ outbound \in [Client -> Seq(Sent)]
    /\ known \in [Client -> Nat]
    /\ invite \in Nat /\ saved \in Nat
    /\ hydrated \in BOOLEAN
    /\ unsent \subseteq Command

NetTypes ==
    /\ links \in Nat
    /\ ready \in [Link -> {"unused", "connecting", "open", "closing", "gone"}]
    /\ cut \in [Link -> BOOLEAN]
    /\ failures \in Nat /\ failures <= Failures

WireTypes ==
    /\ up \in [Link -> Seq(Sent)]
    /\ down \in [Link -> Nat] /\ bound \in [Link -> Nat]
    /\ rows \in Nat

Types == PageTypes /\ TabTypes /\ NetTypes /\ WireTypes

(* The page has used up a socket and has no new one yet.                   *)
Owed ==
    /\ mounted # 0
    /\ \/ timer[mounted]
       \/ ws[mounted] # 0 /\ (ready[ws[mounted]] = "closing" \/ cut[ws[mounted]])

(* There is a socket left for every attempt: one a visit, one a failure.   *)
LinksSuffice ==
    /\ links <= visits + failures
    /\ Owed => links < visits + failures

Owners ==
    /\ \A c \in Client : ws[c] # 0 =>
          ws[c] <= links /\ ready[ws[c]] \in {"connecting", "open", "closing"}
    /\ \A c, d \in Client : ws[c] # 0 /\ ws[c] = ws[d] => c = d
    /\ \A k \in Link : ready[k] = "unused" <=> k > links

(* A client was disconnected by the page that was left, and no other.      *)
Leavings ==
    /\ \A c \in Client : intentional[c] => c # mounted /\ c <= visits
    /\ \A c \in Client : c # mounted /\ ws[c] # 0 => intentional[c]

LineInv == Types /\ LinksSuffice /\ Owners /\ Leavings /\ OneLinePerPage

-----------------------------------------------------------------------------
(* What is on the sockets.                                                 *)

IsJoin(msg) == msg.id = "JOIN_ROOM"

(* A socket has one JOIN, ahead of the commands, which are all for the row *)
(* that it binds.                                                          *)
Ordered(k) ==
    \A i \in 1..Len(up[k]) :
        IF IsJoin(up[k][i])
        THEN i = 1 /\ bound[k] = NoRow
        ELSE /\ up[k][i].as # NoRow
             /\ \/ bound[k] = up[k][i].as
                \/ IsJoin(up[k][1]) /\ up[k][1].as = up[k][i].as

(* Nothing is on a socket that was never open.                             *)
Fresh(k) ==
    ready[k] \in {"unused", "connecting"} =>
        ~cut[k] /\ up[k] = <<>> /\ down[k] = NoRow /\ bound[k] = NoRow

Wires ==
    \A k \in Link : Ordered(k) /\ Fresh(k) /\ (down[k] # NoRow => down[k] = bound[k])

(* Who the tab is, once that is known.                                     *)
Self == IF invite # NoRow THEN invite ELSE saved

Identity ==
    /\ invite # NoRow => saved \in {NoRow, invite}
    /\ mounted # 0 => known[mounted] = Self

(* The socket of the page is, or will be, bound to the row the page knows. *)
Belongs ==
    mounted # 0 /\ ws[mounted] # 0 =>
        /\ Len(up[ws[mounted]]) > 0 /\ IsJoin(up[ws[mounted]][1])
              => up[ws[mounted]][1].as = known[mounted]
        /\ known[mounted] # NoRow => bound[ws[mounted]] \in {NoRow, known[mounted]}

Queued ==
    \A c \in Client : \A i \in 1..Len(outbound[c]) :
        ~IsJoin(outbound[c][i]) /\ outbound[c][i].as = known[c] /\ known[c] # NoRow

Shown ==
    connection = "connected" =>
        /\ mounted # 0 /\ ws[mounted] # 0 /\ hydrated
        /\ ready[ws[mounted]] \in {"open", "closing"}
        /\ known[mounted] # NoRow
        /\ bound[ws[mounted]] = known[mounted] /\ saved = known[mounted]

TabInv == LineInv /\ Wires /\ Identity /\ Belongs /\ Queued /\ Shown

-----------------------------------------------------------------------------
(* The steps.                                                              *)

LEMMA Numbers ==
    /\ Client \subseteq Nat /\ 0 \notin Client
    /\ Link \subseteq Nat /\ 0 \notin Link
  BY WsAssumption DEF Client, Link

(* A queue is emptied, a message is added, the first one is taken.         *)
LEMMA Emptied ==
    ASSUME NEW A, NEW S, NEW f \in [A -> Seq(S)], NEW a
    PROVE  [f EXCEPT ![a] = <<>>] \in [A -> Seq(S)]
<1>1. <<>> \in Seq(S)
  OBVIOUS
<1> QED  BY <1>1

LEMMA Added ==
    ASSUME NEW A, NEW S, NEW f \in [A -> Seq(S)], NEW a \in A, NEW m \in S
    PROVE  [f EXCEPT ![a] = Append(@, m)] \in [A -> Seq(S)]
<1>1. Append(f[a], m) \in Seq(S)
  OBVIOUS
<1> QED  BY <1>1

LEMMA Taken ==
    ASSUME NEW S, NEW s \in Seq(S), s # <<>>
    PROVE  /\ Head(s) \in S /\ Head(s) = s[1]
           /\ Tail(s) \in Seq(S) /\ Len(Tail(s)) = Len(s) - 1
           /\ \A i \in 1..Len(Tail(s)) : Tail(s)[i] = s[i + 1] /\ i + 1 \in 2..Len(s)
  OBVIOUS

LEMMA Prefixed ==
    ASSUME NEW S, NEW s \in Seq(S), NEW m \in S
    PROVE  /\ <<m>> \o s \in Seq(S) /\ Len(<<m>> \o s) = Len(s) + 1
           /\ (<<m>> \o s)[1] = m
           /\ \A i \in 2..Len(s) + 1 : (<<m>> \o s)[i] = s[i - 1]
<1>1. <<m>> \in Seq(S)
  OBVIOUS
<1> QED  BY <1>1

LEMMA TabInit == Init => TabInv
<1> SUFFICES ASSUME Init PROVE TabInv
  OBVIOUS
<1> USE Numbers, WsAssumption DEF Init, NoRow
<1>1. Types
  <2>1. PageTypes
    BY DEF PageTypes
  <2>2. TabTypes
    <3>1. outbound \in [Client -> Seq(Sent)]
      OBVIOUS
    <3>2. known \in [Client -> Nat]
      OBVIOUS
    <3>3. invite \in Nat /\ saved \in Nat
      OBVIOUS
    <3>4. hydrated \in BOOLEAN /\ unsent \subseteq Command
      BY Zenon
    <3> QED  BY <3>1, <3>2, <3>3, <3>4 DEF TabTypes
  <2>3. NetTypes
    BY DEF NetTypes
  <2>4. WireTypes
    <3>1. up \in [Link -> Seq(Sent)]
      OBVIOUS
    <3> QED  BY <3>1 DEF WireTypes
  <2> QED  BY <2>1, <2>2, <2>3, <2>4 DEF Types
<1>2. LinksSuffice /\ Owners /\ Leavings /\ OneLinePerPage
  BY DEF LinksSuffice, Owed, Owners, Leavings, OneLinePerPage
<1>3. Wires
  BY DEF Wires, Ordered, Fresh
<1>4. Queued
  BY DEF Queued
<1>5. Identity /\ Belongs /\ Shown
  BY DEF Identity, Self, Belongs, Shown
<1> QED  BY <1>1, <1>2, <1>3, <1>4, <1>5 DEF TabInv, LineInv

(* The actions, one by one.                                                *)
LEMMA NextCases ==
    ASSUME [Next]_vars, NEW P,
           Mount /\ UNCHANGED failures => P,
           Unmount /\ UNCHANGED failures => P,
           Reload /\ UNCHANGED failures => P,
           \A m \in Command : Send(m) /\ UNCHANGED failures => P,
           \A c \in Client : OnOpen(c) /\ UNCHANGED failures => P,
           \A c \in Client : OnSnapshot(c) /\ UNCHANGED failures => P,
           \A c \in Client : OnClose(c) /\ UNCHANGED failures => P,
           \A c \in Client : Reconnect(c) /\ UNCHANGED failures => P,
           \A k \in Link : Receive(k) /\ UNCHANGED failures => P,
           Fails \/ Noticed => P,
           Breaks \/ Drops => P,
           UNCHANGED vars => P
    PROVE  P
  BY Zenon DEF Next, Page

(* A socket that fails was counted, if it was not broken already.          *)
LEMMA FailsCases ==
    ASSUME Fails \/ Noticed, Types
    PROVE  \E k \in Link :
             /\ SocketFails(k)
             /\ \/ failures' = failures + 1 /\ failures < Failures
                \/ failures' = failures /\ cut[k]
  BY DEF Fails, Noticed

LEMMA BreaksCases ==
    ASSUME Breaks \/ Drops, Types
    PROVE  \E k \in Link :
             /\ LinkBreaks(k)
             /\ \/ failures' = failures + 1 /\ failures < Failures
                \/ failures' = failures /\ ready[k] # "open"
  BY DEF Breaks, Drops

(* A client's next socket is its own.                                      *)
LEMMA NextSocket ==
    ASSUME Types, Owners, NEW c \in Client, links' \in Link, links' = links + 1,
           ws' = [ws EXCEPT ![c] = links'], ready' = [ready EXCEPT ![links'] = "connecting"]
    PROVE  Owners'
<1>1. /\ links \in Nat /\ links' \in Nat
      /\ \A d \in Client : ws[d] \in Link \cup {0}
      /\ \A k \in Link : k \in Nat
  BY Numbers DEF Types, PageTypes, NetTypes
<1>2. \A k \in Link : ready'[k] = IF k = links' THEN "connecting" ELSE ready[k]
  BY DEF Types, NetTypes
<1>3. \A d \in Client : ws'[d] = IF d = c THEN links' ELSE ws[d]
  BY DEF Types, PageTypes
<1>4. \A k \in Link : ready'[k] = "unused" <=> k > links'
  BY <1>1, <1>2 DEF Owners
<1>5. ASSUME NEW d \in Client, ws'[d] # 0
      PROVE  ws'[d] <= links' /\ ready'[ws'[d]] \in {"connecting", "open", "closing"}
  <2>1. CASE d = c
    BY <1>1, <1>2, <1>3, <2>1
  <2>2. CASE d # c
    <3>1. ws'[d] = ws[d] /\ ws[d] \in Link /\ ws[d] <= links
      BY <1>1, <1>3, <1>5, <2>2 DEF Owners
    <3>0. ws[d] \in Nat
      BY <1>1, <3>1
    <3>2. ws[d] # links' /\ ws[d] <= links'
      BY <1>1, <3>0, <3>1
    <3>3. ready'[ws[d]] = ready[ws[d]]
      BY <1>2, <3>1, <3>2
    <3> QED  BY <1>5, <3>1, <3>2, <3>3 DEF Owners
  <2> QED  BY <2>1, <2>2
<1>6. ASSUME NEW d \in Client, NEW e \in Client, ws'[d] # 0, ws'[d] = ws'[e], d # e
      PROVE  FALSE
  <2>1. \A x \in Client : ws[x] # 0 => ws[x] # links'
    BY <1>1 DEF Owners
  <2> QED  BY <1>3, <1>6, <2>1, Numbers DEF Owners
<1> QED  BY <1>4, <1>5, <1>6 DEF Owners

(* The next socket of a client.                                            *)
LEMMA MountLines ==
    ASSUME LineInv, Wires, Mount, UNCHANGED failures
    PROVE  LineInv'
<1> USE Numbers DEF LineInv, Mount, Connect, NoRow
<1>1. links' \in Link /\ visits' \in Client /\ links' = links + 1 /\ visits' = visits + 1
  BY WsAssumption DEF Types, PageTypes, NetTypes, LinksSuffice, Client, Link
<1>2. ready[links'] = "unused" /\ ~cut[links']
  BY <1>1 DEF Owners, Types, PageTypes, NetTypes, WireTypes, Wires, Fresh
<1>3. ws[visits'] = 0 /\ ~timer[visits']
  BY <1>1 DEF Leavings, OneLinePerPage, Types, PageTypes, TabTypes
<1>4. Types'
  <2>1. PageTypes'
    BY <1>1, WsAssumption DEF Types, PageTypes
  <2>2. TabTypes'
    BY <1>1 DEF Types, TabTypes
  <2>3. NetTypes'
    BY <1>1 DEF Types, NetTypes
  <2>4. WireTypes'
    BY <1>1 DEF Types, WireTypes
  <2> QED  BY <2>1, <2>2, <2>3, <2>4 DEF Types
<1>5. LinksSuffice'
  BY <1>1, <1>2, <1>3 DEF Types, PageTypes, NetTypes, LinksSuffice, Owed
<1>6. Owners'
  BY <1>1, <1>3, NextSocket
<1>7. Leavings' /\ OneLinePerPage'
  BY <1>1, <1>2, <1>3 DEF Types, PageTypes, TabTypes, NetTypes, Leavings, OneLinePerPage, Owners
<1> QED  BY <1>4, <1>5, <1>6, <1>7

LEMMA ReconnectLines ==
    ASSUME LineInv, Wires, NEW c \in Client, Reconnect(c), UNCHANGED failures
    PROVE  LineInv'
<1> USE Numbers DEF LineInv, Reconnect, Connect, NoRow
<1>0. c = mounted /\ Owed /\ ws[c] = 0
  BY DEF OneLinePerPage, Owed
<1>1. links' \in Link /\ links' = links + 1
  BY <1>0, WsAssumption DEF Types, PageTypes, NetTypes, LinksSuffice, Link
<1>2. ready[links'] = "unused" /\ ~cut[links']
  BY <1>1 DEF Owners, Types, PageTypes, NetTypes, WireTypes, Wires, Fresh
<1>4. Types'
  <2>1. PageTypes'
    BY <1>1 DEF Types, PageTypes
  <2>2. TabTypes'
    BY <1>1 DEF Types, TabTypes
  <2>3. NetTypes'
    BY <1>1 DEF Types, NetTypes
  <2>4. WireTypes'
    BY <1>1 DEF Types, WireTypes
  <2> QED  BY <2>1, <2>2, <2>3, <2>4 DEF Types
<1>5. LinksSuffice'
  BY <1>0, <1>1, <1>2 DEF Types, PageTypes, NetTypes, LinksSuffice, Owed
<1>6. Owners'
  BY <1>0, <1>1, NextSocket
<1>7. Leavings' /\ OneLinePerPage'
  BY <1>0, <1>1, <1>2 DEF Types, PageTypes, TabTypes, NetTypes, Leavings, OneLinePerPage, Owners
<1> QED  BY <1>4, <1>5, <1>6, <1>7

(* The page is gone.                                                       *)
LEMMA UnmountLines ==
    ASSUME LineInv, Unmount, UNCHANGED failures
    PROVE  LineInv'
<1> USE Numbers DEF LineInv, Unmount, Disconnect
<1>1. Types'
  <2>1. PageTypes'
    BY DEF Types, PageTypes
  <2>2. TabTypes'
    BY Emptied DEF Types, TabTypes
  <2>3. NetTypes'
    BY DEF Types, NetTypes
  <2>4. WireTypes'
    BY DEF Types, WireTypes
  <2> QED  BY <2>1, <2>2, <2>3, <2>4 DEF Types
<1>2. LinksSuffice'
  BY DEF Types, PageTypes, NetTypes, LinksSuffice, Owed
<1>3. Owners'
  BY DEF Types, PageTypes, NetTypes, Owners
<1>4. Leavings' /\ OneLinePerPage'
  BY DEF Types, PageTypes, TabTypes, NetTypes, Leavings, OneLinePerPage, Owners
<1> QED  BY <1>1, <1>2, <1>3, <1>4

LEMMA ReloadLines ==
    ASSUME LineInv, Reload, UNCHANGED failures
    PROVE  LineInv'
<1> USE Numbers DEF LineInv, Reload
<1>0. /\ outbound' \in [Client -> Seq(Sent)]
      /\ timer' \in [Client -> BOOLEAN] /\ keepalive' \in [Client -> BOOLEAN]
  OBVIOUS
<1>1. Types'
  <2>1. ws' \in [Client -> Link \cup {0}]
    OBVIOUS
  <2>2. ready' \in [Link -> {"unused", "connecting", "open", "closing", "gone"}]
    BY DEF Types, NetTypes
  <2>3. PageTypes'
    BY <1>0, <2>1 DEF Types, PageTypes
  <2>5. TabTypes'
    BY <1>0 DEF Types, TabTypes
  <2>4. NetTypes' /\ WireTypes'
    BY <2>2 DEF Types, NetTypes, WireTypes
  <2> QED  BY <2>3, <2>4, <2>5 DEF Types
<1>2. LinksSuffice'
  BY DEF Types, PageTypes, NetTypes, LinksSuffice, Owed
<1>3. Owners'
  BY DEF Types, PageTypes, NetTypes, Owners
<1>4. Leavings' /\ OneLinePerPage'
  BY DEF Types, PageTypes, TabTypes, Leavings, OneLinePerPage
<1> QED  BY <1>1, <1>2, <1>3, <1>4

(* A socket is lost: an attempt will be owed, and is paid for.             *)
LEMMA FailsLines ==
    ASSUME LineInv, Wires, Fails \/ Noticed
    PROVE  LineInv'
<1> USE Numbers DEF LineInv, SocketFails, clientVars
<1>0. PICK k \in Link :
        /\ SocketFails(k)
        /\ \/ failures' = failures + 1 /\ failures < Failures
           \/ failures' = failures /\ cut[k]
  BY FailsCases
<1>1. failures' = failures => ready[k] = "open" /\ cut[k]
  BY <1>0 DEF Types, PageTypes, NetTypes, WireTypes, Wires, Fresh
<1>2. Types'
  <2>1. PageTypes'
    BY <1>0 DEF Types, PageTypes
  <2>2. TabTypes'
    BY <1>0 DEF Types, TabTypes
  <2>3. NetTypes'
    BY <1>0, WsAssumption DEF Types, NetTypes
  <2>4. WireTypes'
    BY <1>0 DEF Types, WireTypes
  <2> QED  BY <2>1, <2>2, <2>3, <2>4 DEF Types
<1>3. LinksSuffice'
  BY <1>0, <1>1 DEF Types, PageTypes, NetTypes, LinksSuffice, Owed
<1>4. Owners'
  BY <1>0 DEF Types, PageTypes, NetTypes, Owners
<1>5. Leavings' /\ OneLinePerPage'
  BY <1>0 DEF Types, PageTypes, TabTypes, NetTypes, Leavings, OneLinePerPage, Owners
<1> QED  BY <1>2, <1>3, <1>4, <1>5

LEMMA BreaksLines ==
    ASSUME LineInv, Breaks \/ Drops
    PROVE  LineInv'
<1> USE Numbers DEF LineInv, LinkBreaks, clientVars
<1>0. PICK k \in Link :
        /\ LinkBreaks(k)
        /\ \/ failures' = failures + 1 /\ failures < Failures
           \/ failures' = failures /\ ready[k] # "open"
  BY BreaksCases
<1>2. Types'
  <2>1. PageTypes'
    BY <1>0 DEF Types, PageTypes, NoRow
  <2>2. TabTypes'
    BY <1>0 DEF Types, TabTypes, NoRow
  <2>3. NetTypes'
    BY <1>0, WsAssumption DEF Types, NetTypes
  <2>4. WireTypes'
    BY <1>0 DEF Types, WireTypes, NoRow
  <2> QED  BY <2>1, <2>2, <2>3, <2>4 DEF Types
<1>3. LinksSuffice'
  BY <1>0 DEF Types, PageTypes, NetTypes, LinksSuffice, Owed, Owners
<1>4. Owners'
  BY <1>0 DEF Types, PageTypes, NetTypes, Owners
<1>5. Leavings' /\ OneLinePerPage'
  BY <1>0 DEF Types, PageTypes, TabTypes, Leavings, OneLinePerPage
<1> QED  BY <1>2, <1>3, <1>4, <1>5

LEMMA SendLines ==
    ASSUME LineInv, Shown, NEW m \in Command, Send(m), UNCHANGED failures
    PROVE  LineInv'
<1> USE Numbers DEF LineInv, Send
<1>0. [id |-> m, as |-> known[mounted]] \in Sent /\ mounted \in Client
  BY DEF Types, PageTypes, TabTypes, Sent
<1>1. Types'
  <2>1. up' \in [Link -> Seq(Sent)] /\ outbound' \in [Client -> Seq(Sent)]
    <3> DEFINE msg == [id |-> m, as |-> known[mounted]]
    <3>1. CASE ws[mounted] # 0 /\ ready[ws[mounted]] = "open"
      <4>1. outbound' = outbound /\ ws[mounted] \in Link
        BY <3>1 DEF Types, PageTypes
      <4>2. up' = [up EXCEPT ![ws[mounted]] = Append(@, msg)] \/ up' = up
        BY <3>1 DEF Types, WireTypes
      <4>3. [up EXCEPT ![ws[mounted]] = Append(@, msg)] \in [Link -> Seq(Sent)]
        <5>1. up[ws[mounted]] \in Seq(Sent) /\ msg \in Sent
          BY <1>0, <4>1 DEF Types, WireTypes
        <5>2. Append(up[ws[mounted]], msg) \in Seq(Sent)
          BY <5>1
        <5> QED  BY <5>2 DEF Types, WireTypes
      <4> QED  BY <4>1, <4>2, <4>3 DEF Types, TabTypes, WireTypes
    <3>2. CASE ~(ws[mounted] # 0 /\ ready[ws[mounted]] = "open")
      <4>1. up' = up /\ outbound' = [outbound EXCEPT ![mounted] = Append(@, msg)]
        BY <3>2
      <4> QED  BY <1>0, <4>1, Added DEF Types, TabTypes, WireTypes
    <3> QED  BY <3>1, <3>2
  <2>2. PageTypes' /\ NetTypes'
    BY DEF Types, PageTypes, NetTypes
  <2>3. TabTypes' /\ WireTypes'
    BY <2>1 DEF Types, TabTypes, WireTypes
  <2> QED  BY <2>2, <2>3 DEF Types
<1>2. LinksSuffice' /\ Owners' /\ Leavings'
  BY DEF Types, PageTypes, NetTypes, LinksSuffice, Owed, Owners, Leavings
<1>3. OneLinePerPage'
  BY DEF Types, PageTypes, TabTypes, OneLinePerPage
<1> QED  BY <1>1, <1>2, <1>3

LEMMA OnOpenLines ==
    ASSUME LineInv, NEW c \in Client, OnOpen(c), UNCHANGED failures
    PROVE  LineInv'
<1> USE Numbers DEF LineInv, OnOpen
<1>0. PICK k \in Link :
        /\ ws[c] = k /\ ready[k] = "connecting"
        /\ ready' = [ready EXCEPT ![k] = "open"]
        /\ up' = [up EXCEPT ![k] = <<[id |-> "JOIN_ROOM", as |-> known[c]]>> \o outbound[c]]
        /\ outbound' = [outbound EXCEPT ![c] = <<>>]
  OBVIOUS
<1>1. c = mounted /\ k # 0
  BY <1>0 DEF OneLinePerPage, Types, PageTypes, TabTypes
<1>2. <<[id |-> "JOIN_ROOM", as |-> known[c]]>> \o outbound[c] \in Seq(Sent)
  <2>1. [id |-> "JOIN_ROOM", as |-> known[c]] \in Sent
    BY DEF Types, TabTypes, Sent
  <2> QED  BY <2>1, Prefixed DEF Types, TabTypes
<1>3. up' \in [Link -> Seq(Sent)]
  BY <1>0, <1>2 DEF Types, WireTypes
<1>4. Types'
  <2>1. PageTypes'
    BY <1>0, <1>3 DEF Types, PageTypes
  <2>2. TabTypes'
    BY <1>0, <1>3 DEF Types, TabTypes
  <2>3. NetTypes'
    BY <1>0, <1>3 DEF Types, NetTypes
  <2>4. WireTypes'
    BY <1>0, <1>3 DEF Types, WireTypes
  <2> QED  BY <2>1, <2>2, <2>3, <2>4 DEF Types
<1>5. LinksSuffice'
  BY <1>0, <1>1 DEF Types, PageTypes, NetTypes, LinksSuffice, Owed
<1>6. Owners'
  BY <1>0, <1>1 DEF Types, PageTypes, NetTypes, Owners
<1>7. Leavings' /\ OneLinePerPage'
  BY <1>0, <1>1 DEF Types, PageTypes, TabTypes, NetTypes, Leavings, OneLinePerPage, Owners
<1> QED  BY <1>4, <1>5, <1>6, <1>7

LEMMA OnSnapshotLines ==
    ASSUME LineInv, NEW c \in Client, OnSnapshot(c), UNCHANGED failures
    PROVE  LineInv'
<1> USE Numbers DEF LineInv, OnSnapshot, NoRow
<1>0. PICK k \in Link :
        /\ ws[c] = k /\ ready[k] = "open" /\ down[k] # NoRow
        /\ known' = [known EXCEPT ![c] = down[k]] /\ saved' = down[k]
        /\ down' = [down EXCEPT ![k] = NoRow]
  OBVIOUS
<1>1. c = mounted
  BY <1>0 DEF OneLinePerPage, Types, PageTypes
<1>2. Types'
  <2>1. PageTypes'
    BY DEF Types, PageTypes
  <2>2. TabTypes'
    BY <1>0 DEF Types, TabTypes, WireTypes
  <2>3. NetTypes'
    BY DEF Types, NetTypes
  <2>4. WireTypes'
    BY <1>0 DEF Types, WireTypes
  <2> QED  BY <2>1, <2>2, <2>3, <2>4 DEF Types
<1>3. LinksSuffice' /\ Owners' /\ Leavings'
  <2>1. UNCHANGED <<mounted, visits, ws, intentional, timer, links, ready, cut, failures>>
    OBVIOUS
  <2> QED  BY <2>1 DEF LinksSuffice, Owed, Owners, Leavings
<1>4. OneLinePerPage'
  BY <1>1 DEF Types, PageTypes, TabTypes, OneLinePerPage
<1> QED  BY <1>2, <1>3, <1>4

LEMMA OnCloseLines ==
    ASSUME LineInv, NEW c \in Client, OnClose(c), UNCHANGED failures
    PROVE  LineInv'
<1> USE Numbers DEF LineInv, OnClose
<1>0. PICK k \in Link :
        /\ ws[c] = k /\ ready[k] = "closing"
        /\ ready' = [ready EXCEPT ![k] = "gone"]
  OBVIOUS
<1>1. c # mounted => intentional[c]
  BY <1>0 DEF Leavings, Types, PageTypes
<1>2. c = mounted => ~intentional[c] /\ Owed
  BY <1>0 DEF Leavings, Owed
<1>3. Types'
  <2>1. PageTypes'
    BY <1>0 DEF Types, PageTypes
  <2>2. TabTypes'
    BY <1>0 DEF Types, TabTypes
  <2>3. NetTypes'
    BY <1>0 DEF Types, NetTypes
  <2>4. WireTypes'
    BY <1>0 DEF Types, WireTypes
  <2> QED  BY <2>1, <2>2, <2>3, <2>4 DEF Types
<1>4. LinksSuffice'
  BY <1>0, <1>1, <1>2 DEF Types, PageTypes, NetTypes, LinksSuffice, Owed, Owners
<1>5. Owners'
  BY <1>0 DEF Types, PageTypes, NetTypes, Owners
<1>6. Leavings'
  BY <1>0 DEF Types, PageTypes, Leavings
<1>7. OneLinePerPage'
  <2>1. \A d \in Client : d # c => ws'[d] = ws[d] /\ timer'[d] = timer[d]
                                  /\ keepalive'[d] = keepalive[d]
    BY DEF Types, PageTypes
  <2>2. ws'[c] = 0 /\ timer'[c] = ~intentional[c] /\ keepalive'[c] = FALSE
    BY DEF Types, PageTypes
  <2>3. \A d \in Client : d # c /\ ws[d] # 0 => ready'[ws[d]] = ready[ws[d]]
    BY <1>0 DEF Types, PageTypes, NetTypes, Owners
  <2>4. mounted' = mounted /\ outbound' = outbound
    OBVIOUS
  <2>5. mounted # 0 => (ws'[mounted] # 0 <=> ~timer'[mounted])
    BY <1>1, <1>2, <2>1, <2>2 DEF Types, PageTypes, OneLinePerPage
  <2>6. ASSUME NEW d \in Client, d # mounted
        PROVE  /\ ~timer'[d] /\ ~keepalive'[d] /\ outbound[d] = <<>>
               /\ ws'[d] # 0 => ready'[ws'[d]] = "closing"
    <3>1. CASE d = c
      BY <1>1, <2>2, <2>6, <3>1 DEF OneLinePerPage
    <3>2. CASE d # c
      BY <2>1, <2>3, <2>6, <3>2 DEF OneLinePerPage
    <3> QED  BY <3>1, <3>2
  <2> QED  BY <2>4, <2>5, <2>6 DEF OneLinePerPage
<1> QED  BY <1>3, <1>4, <1>5, <1>6, <1>7

LEMMA ReceiveLines ==
    ASSUME LineInv, NEW k \in Link, Receive(k), UNCHANGED failures
    PROVE  LineInv'
<1> USE Numbers DEF LineInv, Receive, clientVars
<1>0. up[k] \in Seq(Sent) /\ Head(up[k]) \in Sent /\ Tail(up[k]) \in Seq(Sent)
  BY Taken DEF Types, WireTypes
<1>1. Types'
  <2>1. up' \in [Link -> Seq(Sent)]
    BY <1>0 DEF Types, WireTypes
  <2>2. /\ bound' \in [Link -> Nat] /\ rows' \in Nat
        /\ down' \in [Link -> Nat]
    <3>1. Head(up[k]).as \in Nat
      BY <1>0 DEF Sent
    <3>2. CASE Head(up[k]).id = "JOIN_ROOM"
      <4>1. PICK row \in Nat :
              /\ bound' = [bound EXCEPT ![k] = row]
              /\ rows' = IF row > rows THEN row ELSE rows
              /\ down' = [down EXCEPT ![k] = row]
        BY <3>1, <3>2 DEF Types, WireTypes
      <4> QED  BY <4>1 DEF Types, WireTypes
    <3>3. CASE Head(up[k]).id # "JOIN_ROOM"
      BY <3>3 DEF Types, WireTypes
    <3> QED  BY <3>2, <3>3
  <2>3. PageTypes' /\ TabTypes' /\ NetTypes'
    BY DEF Types, PageTypes, TabTypes, NetTypes
  <2>4. WireTypes'
    BY <2>1, <2>2 DEF Types, WireTypes
  <2> QED  BY <2>3, <2>4 DEF Types
<1>2. LinksSuffice' /\ Owners' /\ Leavings' /\ OneLinePerPage'
  BY DEF LinksSuffice, Owed, Owners, Leavings, OneLinePerPage
<1> QED  BY <1>1, <1>2

LEMMA LinesKept ==
    ASSUME LineInv, Wires, Shown, [Next]_vars
    PROVE  LineInv'
<1>1. ASSUME UNCHANGED vars
      PROVE  LineInv'
  <2>1. Types'
    BY <1>1 DEF vars, wsVars, clientVars, netVars, LineInv, Types, PageTypes, TabTypes,
                NetTypes, WireTypes
  <2>2. LinksSuffice' /\ Owners' /\ Leavings' /\ OneLinePerPage'
    BY <1>1 DEF vars, wsVars, clientVars, netVars, LineInv, LinksSuffice, Owed, Owners,
                Leavings, OneLinePerPage
  <2> QED  BY <2>1, <2>2 DEF LineInv
<1> QED  BY <1>1, NextCases, MountLines, ReconnectLines, UnmountLines, ReloadLines, FailsLines,
            BreaksLines, SendLines, OnOpenLines, OnSnapshotLines, OnCloseLines, ReceiveLines

(* What is on a socket stays in order.                                     *)
WireOK(k) == Ordered(k) /\ Fresh(k) /\ (down[k] # NoRow => down[k] = bound[k])

LEMMA WiresAre == Wires <=> \A k \in Link : WireOK(k)
  BY DEF Wires, WireOK

(* Nothing happens to a socket but that its state moves on, or that the    *)
(* page takes a snapshot from it.                                          *)
LEMMA WireStays ==
    ASSUME NEW k \in Link, WireOK(k), up'[k] = up[k], bound'[k] = bound[k],
           down'[k] \in {NoRow, down[k]},
           cut'[k] = cut[k],
           ready'[k] \in {"unused", "connecting"} => ready[k] \in {"unused", "connecting"}
    PROVE  WireOK(k)'
<1>1. Ordered(k)'
  BY DEF WireOK, Ordered
<1>2. Fresh(k)'
  BY DEF WireOK, Fresh
<1> QED  BY <1>1, <1>2 DEF WireOK

LEMMA WireBreaks ==
    ASSUME Types, NEW k \in Link, WireOK(k), NEW j \in Link, LinkBreaks(j)
    PROVE  WireOK(k)'
<1>1. CASE k # j
  BY <1>1, WireStays DEF LinkBreaks, Types, WireTypes, NetTypes
<1>2. CASE k = j
  <2>1. up'[k] = <<>> /\ down'[k] = NoRow /\ ready'[k] = ready[k]
    BY <1>2 DEF LinkBreaks, Types, WireTypes
  <2>2. ready[k] \notin {"unused", "connecting"}
    BY <1>2 DEF LinkBreaks
  <2> QED  BY <2>1, <2>2 DEF WireOK, Ordered, Fresh
<1> QED  BY <1>1, <1>2

(* The user's command follows the JOIN of the row the page shows.          *)
LEMMA WireSends ==
    ASSUME LineInv, Wires, Shown, NEW k \in Link, WireOK(k), NEW m \in Command, Send(m)
    PROVE  WireOK(k)'
<1>1. CASE up'[k] = up[k]
  BY <1>1, WireStays DEF Send
<1>2. CASE up'[k] # up[k]
  <2> DEFINE msg == [id |-> m, as |-> known[mounted]]
  <2>1. ws[mounted] = k /\ mounted # 0 /\ ready[k] = "open" /\ up'[k] = Append(up[k], msg)
    BY <1>2 DEF Send, LineInv, Types, WireTypes
  <2>2. bound[k] = known[mounted] /\ known[mounted] # NoRow
    BY <2>1 DEF Shown, Send
  <2>3. ~IsJoin(msg) /\ msg.as = known[mounted]
    BY WsAssumption DEF IsJoin
  <2>4. up[k] \in Seq(Sent) /\ msg \in Sent
    BY <2>1 DEF LineInv, Types, PageTypes, TabTypes, WireTypes, Sent
  <2>5. /\ Len(up'[k]) = Len(up[k]) + 1
        /\ \A i \in 1..Len(up[k]) : up'[k][i] = up[k][i]
        /\ up'[k][Len(up[k]) + 1] = msg
    BY <2>1, <2>4
  <2> HIDE DEF msg
  <2>6. bound' = bound /\ ready' = ready /\ down' = down
    BY DEF Send
  <2>7. Ordered(k)'
    <3> SUFFICES ASSUME NEW i \in 1..Len(up'[k])
                 PROVE  IF IsJoin(up'[k][i])
                        THEN i = 1 /\ bound[k] = NoRow
                        ELSE /\ up'[k][i].as # NoRow
                             /\ \/ bound[k] = up'[k][i].as
                                \/ IsJoin(up'[k][1]) /\ up'[k][1].as = up'[k][i].as
      BY <2>6 DEF Ordered
    <3>1. CASE i \in 1..Len(up[k])
      <4>1. up'[k][i] = up[k][i] /\ up'[k][1] = up[k][1]
        BY <2>4, <2>5, <3>1
      <4> QED  BY <3>1, <4>1 DEF Ordered, WireOK
    <3>2. CASE i \notin 1..Len(up[k])
      <4>1. up'[k][i] = msg
        BY <2>4, <2>5, <3>2
      <4> QED  BY <2>2, <2>3, <4>1
    <3> QED  BY <3>1, <3>2
  <2> QED  BY <2>1, <2>6, <2>7 DEF WireOK, Fresh
<1> QED  BY <1>1, <1>2

(* The JOIN goes first, and what was queued is for its row.                *)
LEMMA WireOpens ==
    ASSUME LineInv, Queued, NEW k \in Link, WireOK(k), NEW c \in Client, OnOpen(c)
    PROVE  WireOK(k)'
<1>1. CASE k # ws[c]
  BY <1>1, WireStays DEF OnOpen, LineInv, Types, WireTypes, NetTypes
<1>2. CASE k = ws[c]
  <2> DEFINE msg == [id |-> "JOIN_ROOM", as |-> known[c]]
  <2>1. /\ ready[k] = "connecting" /\ ready'[k] = "open"
        /\ up'[k] = <<msg>> \o outbound[c]
        /\ bound' = bound /\ down' = down
    BY <1>2 DEF OnOpen, LineInv, Types, WireTypes, NetTypes
  <2>2. bound[k] = NoRow /\ down[k] = NoRow
    BY <2>1 DEF WireOK, Fresh
  <2>3. IsJoin(msg) /\ msg.as = known[c]
    BY DEF IsJoin
  <2>4. outbound[c] \in Seq(Sent) /\ msg \in Sent
    BY DEF LineInv, Types, TabTypes, Sent
  <2> HIDE DEF msg
  <2>5. /\ Len(up'[k]) = Len(outbound[c]) + 1
        /\ up'[k][1] = msg
        /\ \A i \in 2..Len(outbound[c]) + 1 : up'[k][i] = outbound[c][i - 1]
    BY <2>1, <2>4, Prefixed
  <2>6. Ordered(k)'
    <3>1. ASSUME NEW i \in 1..Len(up'[k]), i # 1
          PROVE  ~IsJoin(up'[k][i]) /\ up'[k][i].as = known[c] /\ known[c] # NoRow
      <4>1. i - 1 \in 1..Len(outbound[c]) /\ i \in 2..Len(outbound[c]) + 1
        BY <2>4, <2>5, <3>1
      <4> QED  BY <2>5, <4>1 DEF Queued
    <3> QED  BY <2>1, <2>2, <2>3, <2>5, <3>1 DEF Ordered, IsJoin
  <2> QED  BY <2>1, <2>2, <2>6 DEF WireOK, Fresh
<1> QED  BY <1>1, <1>2

(* The server binds the socket by its JOIN, and the commands find the row. *)
LEMMA WireReceives ==
    ASSUME LineInv, NEW k \in Link, WireOK(k), NEW j \in Link, Receive(j)
    PROVE  WireOK(k)'
<1>1. CASE k # j
  BY <1>1, WireStays DEF Receive, clientVars, LineInv, Types, WireTypes, NetTypes
<1>2. CASE k = j
  <2>1. /\ up[k] \in Seq(Sent) /\ up[k] # <<>>
        /\ up'[k] = Tail(up[k]) /\ ready' = ready /\ cut' = cut
    BY <1>2 DEF Receive, LineInv, Types, WireTypes
  <2>2. /\ Head(up[k]) = up[k][1] /\ Head(up[k]) \in Sent
        /\ Len(up'[k]) = Len(up[k]) - 1
        /\ \A i \in 1..Len(up'[k]) : up'[k][i] = up[k][i + 1] /\ i + 1 \in 2..Len(up[k])
    BY <2>1, Taken
  <2>3. 1 \in 1..Len(up[k]) /\ \A i \in 1..Len(up'[k]) : i + 1 \in 1..Len(up[k]) /\ i + 1 # 1
    BY <2>1, <2>2
  <2>4. Fresh(k)'
    BY <2>1 DEF WireOK, Fresh
  <2>5. CASE IsJoin(up[k][1])
    <3>1. PICK row \in Nat :
            /\ bound'[k] = row /\ down'[k] = row
            /\ up[k][1].as # NoRow => row = up[k][1].as
      BY <1>2, <2>2, <2>5 DEF Receive, IsJoin, LineInv, Types, WireTypes, Sent, NoRow
    <3>2. \A i \in 1..Len(up'[k]) :
             ~IsJoin(up'[k][i]) /\ up'[k][i].as # NoRow /\ up'[k][i].as = bound'[k]
      <4> SUFFICES ASSUME NEW i \in 1..Len(up'[k])
                   PROVE  /\ ~IsJoin(up'[k][i])
                          /\ up'[k][i].as # NoRow /\ up'[k][i].as = bound'[k]
        OBVIOUS
      <4>1. ~IsJoin(up[k][i + 1]) /\ up[k][i + 1].as # NoRow /\ bound[k] = NoRow
        BY <2>3, <2>5 DEF WireOK, Ordered
      <4>2. up[k][1].as = up[k][i + 1].as
        BY <2>3, <4>1 DEF WireOK, Ordered
      <4> QED  BY <2>2, <3>1, <4>1, <4>2
    <3> QED  BY <2>4, <3>1, <3>2 DEF WireOK, Ordered
  <2>6. CASE ~IsJoin(up[k][1])
    <3>1. bound' = bound /\ down' = down
      BY <1>2, <2>2, <2>6 DEF Receive, IsJoin
    <3>2. \A i \in 1..Len(up'[k]) :
             ~IsJoin(up'[k][i]) /\ up'[k][i].as # NoRow /\ up'[k][i].as = bound[k]
      BY <2>2, <2>3, <2>6 DEF WireOK, Ordered
    <3> QED  BY <2>4, <3>1, <3>2 DEF WireOK, Ordered
  <2> QED  BY <2>5, <2>6
<1> QED  BY <1>1, <1>2

LEMMA WiresKept ==
    ASSUME LineInv, Wires, Queued, Shown, [Next]_vars
    PROVE  Wires'
<1> SUFFICES ASSUME NEW k \in Link PROVE WireOK(k)'
  BY DEF Wires, WireOK
<1>0. WireOK(k) /\ Types
  BY WiresAre DEF LineInv
<1> USE DEF Types, NetTypes, WireTypes
<1>1. ASSUME Mount
      PROVE  WireOK(k)'
  <2>1. links' = links + 1 /\ ready' = [ready EXCEPT ![links'] = "connecting"]
    BY <1>1 DEF Mount, Connect
  <2>2. k = links' => ready[k] = "unused"
    BY <2>1, Numbers DEF LineInv, Owners
  <2> QED  BY <1>0, <1>1, <2>1, <2>2, WireStays DEF Mount, Connect
<1>2. ASSUME NEW c \in Client, Reconnect(c)
      PROVE  WireOK(k)'
  <2>1. links' = links + 1 /\ ready' = [ready EXCEPT ![links'] = "connecting"]
    BY <1>2 DEF Reconnect, Connect
  <2>2. k = links' => ready[k] = "unused"
    BY <2>1, Numbers DEF LineInv, Owners
  <2> QED  BY <1>0, <1>2, <2>1, <2>2, WireStays DEF Reconnect, Connect
<1>3. ASSUME Unmount
      PROVE  WireOK(k)'
  BY <1>0, <1>3, WireStays DEF Unmount, Disconnect
<1>4. ASSUME Reload
      PROVE  WireOK(k)'
  BY <1>0, <1>4, WireStays DEF Reload
<1>5. ASSUME NEW m \in Command, Send(m)
      PROVE  WireOK(k)'
  BY <1>0, <1>5, WireSends
<1>6. ASSUME NEW c \in Client, OnOpen(c)
      PROVE  WireOK(k)'
  BY <1>0, <1>6, WireOpens
<1>7. ASSUME NEW c \in Client, OnSnapshot(c)
      PROVE  WireOK(k)'
  <2>1. down'[k] \in {NoRow, down[k]}
    BY <1>7 DEF OnSnapshot
  <2> QED  BY <1>0, <1>7, <2>1, WireStays DEF OnSnapshot
<1>8. ASSUME NEW c \in Client, OnClose(c)
      PROVE  WireOK(k)'
  <2>1. ready'[k] \in {ready[k], "gone"}
    BY <1>8 DEF OnClose
  <2> QED  BY <1>0, <1>8, <2>1, WireStays DEF OnClose
<1>9. ASSUME NEW j \in Link, Receive(j)
      PROVE  WireOK(k)'
  BY <1>0, <1>9, WireReceives
<1>10. ASSUME Fails \/ Noticed
       PROVE  WireOK(k)'
  <2>1. PICK j \in Link : SocketFails(j)
    BY <1>0, <1>10, FailsCases
  <2> QED  BY <1>0, <2>1, WireStays DEF SocketFails, clientVars
<1>11. ASSUME Breaks \/ Drops
       PROVE  WireOK(k)'
  <2>1. PICK j \in Link : LinkBreaks(j)
    BY <1>0, <1>11, BreaksCases
  <2> QED  BY <1>0, <2>1, WireBreaks
<1>12. ASSUME UNCHANGED vars
       PROVE  WireOK(k)'
  BY <1>0, <1>12, WireStays DEF vars, wsVars, netVars
<1> QED  BY <1>1, <1>2, <1>3, <1>4, <1>5, <1>6, <1>7, <1>8, <1>9, <1>10, <1>11, <1>12,
            NextCases

-----------------------------------------------------------------------------
(* What the page knows and shows.                                          *)

PageKnows == Identity /\ Belongs /\ Queued /\ Shown

(* The row that a snapshot brings is the one the page knows, if it knows   *)
(* one.                                                                    *)
LEMMA SnapshotRow ==
    ASSUME TabInv, NEW c \in Client, OnSnapshot(c)
    PROVE  \E k \in Link :
             /\ ws[c] = k /\ c = mounted /\ mounted # 0
             /\ ready[k] = "open" /\ down[k] # NoRow /\ bound[k] = down[k]
             /\ ~(Len(up[k]) > 0 /\ IsJoin(up[k][1]))
             /\ known[c] # NoRow => down[k] = known[c]
             /\ invite # NoRow => down[k] = invite
             /\ saved # NoRow => down[k] = saved
             /\ known' = [known EXCEPT ![c] = down[k]] /\ saved' = down[k]
<1>1. PICK k \in Link :
        /\ ws[c] = k /\ ready[k] = "open" /\ down[k] # NoRow
        /\ known' = [known EXCEPT ![c] = down[k]] /\ saved' = down[k]
  BY DEF OnSnapshot
<1>2. c = mounted /\ mounted # 0 /\ k # 0
  BY <1>1, Numbers DEF TabInv, LineInv, OneLinePerPage
<1>3. bound[k] = down[k]
  BY <1>1 DEF TabInv, Wires
<1>4. up[k] \in Seq(Sent)
  BY DEF TabInv, LineInv, Types, WireTypes
<1>5. ~(Len(up[k]) > 0 /\ IsJoin(up[k][1]))
  <2> SUFFICES ASSUME Len(up[k]) > 0, IsJoin(up[k][1]) PROVE FALSE
    OBVIOUS
  <2>1. 1 \in 1..Len(up[k])
    BY <1>4
  <2> QED  BY <1>1, <1>3, <2>1 DEF TabInv, Wires, Ordered
<1>6. known[c] # NoRow => down[k] = known[c]
  BY <1>1, <1>2, <1>3 DEF TabInv, Belongs
<1>7. known[c] = Self
  BY <1>2 DEF TabInv, Identity
<1>8. invite # NoRow => down[k] = invite
  BY <1>6, <1>7 DEF Self
<1>9. saved # NoRow => down[k] = saved
  BY <1>6, <1>7, <1>8 DEF Self, TabInv, Identity
<1> QED  BY <1>1, <1>2, <1>3, <1>5, <1>6, <1>8, <1>9

LEMMA SnapshotKnows ==
    ASSUME TabInv, NEW c \in Client, OnSnapshot(c)
    PROVE  PageKnows'
<1>1. PICK k \in Link :
        /\ ws[c] = k /\ c = mounted /\ mounted # 0
        /\ ready[k] = "open" /\ down[k] # NoRow /\ bound[k] = down[k]
        /\ ~(Len(up[k]) > 0 /\ IsJoin(up[k][1]))
        /\ known[c] # NoRow => down[k] = known[c]
        /\ invite # NoRow => down[k] = invite
        /\ saved # NoRow => down[k] = saved
        /\ known' = [known EXCEPT ![c] = down[k]] /\ saved' = down[k]
  BY SnapshotRow
<1>2. known'[c] = down[k] /\ \A d \in Client : d # c => known'[d] = known[d]
  BY <1>1 DEF TabInv, LineInv, Types, TabTypes
<1>3. UNCHANGED <<mounted, ws, invite, outbound, ready, up, bound>> /\ hydrated'
  BY DEF OnSnapshot
<1>4. k # 0
  BY Numbers
<1>5. Identity'
  BY <1>1, <1>2, <1>3 DEF Identity, Self
<1>6. Belongs'
  BY <1>1, <1>2, <1>3 DEF Belongs
<1>7. Queued'
  BY <1>1, <1>2, <1>3 DEF Queued, TabInv
<1>8. Shown'
  BY <1>1, <1>2, <1>3, <1>4 DEF Shown
<1> QED  BY <1>5, <1>6, <1>7, <1>8 DEF PageKnows

(* The steps of the page itself.                                           *)
LEMMA PageStepsKnow ==
    ASSUME TabInv,
           \/ Mount \/ Unmount \/ Reload
           \/ \E c \in Client : Reconnect(c)
    PROVE  PageKnows'
<1> USE Numbers DEF TabInv, LineInv
<1>1. ASSUME Mount
      PROVE  PageKnows'
  <2>1. /\ visits' \in Client /\ mounted' = visits' /\ visits' = visits + 1
        /\ links' = links + 1 /\ ws' = [ws EXCEPT ![visits'] = links']
        /\ ready' = [ready EXCEPT ![links'] = "connecting"]
        /\ links' \in Link
    BY <1>1, WsAssumption
       DEF Mount, Connect, Types, PageTypes, NetTypes, LinksSuffice, Client, Link
  <2>2. ready[links'] = "unused"
    BY <2>1 DEF Owners, Types, NetTypes
  <2>3. up'[links'] = <<>> /\ bound'[links'] = NoRow
    BY <1>1, <2>1, <2>2 DEF Wires, Fresh, Mount, Connect
  <2>4. ws'[mounted'] = links' /\ known'[mounted'] = Self
    BY <1>1, <2>1 DEF Mount, Self, Types, PageTypes, TabTypes
  <2>5. UNCHANGED <<invite, saved, outbound>> /\ connection' = "connecting"
    BY <1>1 DEF Mount, Connect
  <2>6. Identity'
    BY <2>4, <2>5 DEF Identity, Self
  <2>7. Belongs' /\ Shown'
    BY <2>3, <2>4, <2>5 DEF Belongs, Shown
  <2>8. outbound[visits'] = <<>> /\ \A d \in Client : d # visits' => known'[d] = known[d]
    BY <1>1, <2>1 DEF Mount, OneLinePerPage, Types, TabTypes
  <2>9. Queued'
    <3> SUFFICES ASSUME NEW d \in Client, NEW i \in 1..Len(outbound[d])
                 PROVE  /\ ~IsJoin(outbound[d][i]) /\ outbound[d][i].as = known'[d]
                        /\ known'[d] # NoRow
      BY <2>5 DEF Queued
    <3>1. d # visits'
      BY <2>8
    <3> QED  BY <2>8, <3>1 DEF Queued
  <2> QED  BY <2>6, <2>7, <2>9 DEF PageKnows
<1>2. ASSUME NEW c \in Client, Reconnect(c)
      PROVE  PageKnows'
  <2>0. c = mounted /\ Owed
    BY <1>2 DEF Reconnect, OneLinePerPage, Owed
  <2>1. /\ links' = links + 1 /\ ws' = [ws EXCEPT ![c] = links']
        /\ ready' = [ready EXCEPT ![links'] = "connecting"]
        /\ links' \in Link
    BY <1>2, <2>0, WsAssumption
       DEF Reconnect, Connect, Types, PageTypes, NetTypes, LinksSuffice, Link
  <2>2. ready[links'] = "unused"
    BY <2>1 DEF Owners, Types, NetTypes
  <2>3. up'[links'] = <<>> /\ bound'[links'] = NoRow
    BY <1>2, <2>1, <2>2 DEF Wires, Fresh, Reconnect, Connect
  <2>4. ws'[mounted] = links'
    BY <2>0, <2>1 DEF Types, PageTypes
  <2>5. UNCHANGED <<mounted, invite, saved, outbound, known>> /\ connection' = "reconnecting"
    BY <1>2 DEF Reconnect, Connect
  <2>6. Identity' /\ Queued'
    BY <2>5 DEF Identity, Self, Queued
  <2>7. Belongs' /\ Shown'
    BY <2>3, <2>4, <2>5 DEF Belongs, Shown
  <2> QED  BY <2>6, <2>7 DEF PageKnows
<1>3. ASSUME Unmount
      PROVE  PageKnows'
  <2>1. UNCHANGED <<invite, saved, known>> /\ mounted' = 0 /\ connection' = "disconnected"
    BY <1>3 DEF Unmount
  <2>2. \A d \in Client : outbound'[d] = <<>>
    BY <1>3 DEF Unmount, Disconnect, OneLinePerPage, Types, TabTypes
  <2> QED  BY <2>1, <2>2 DEF PageKnows, Identity, Self, Belongs, Queued, Shown
<1>4. ASSUME Reload
      PROVE  PageKnows'
  <2>1. UNCHANGED <<invite, saved, known>> /\ mounted' = 0 /\ connection' = "disconnected"
    BY <1>4 DEF Reload
  <2>2. \A d \in Client : outbound'[d] = <<>>
    BY <1>4 DEF Reload
  <2> QED  BY <2>1, <2>2 DEF PageKnows, Identity, Self, Belongs, Queued, Shown
<1> QED  BY <1>1, <1>2, <1>3, <1>4

LEMMA SendKnows ==
    ASSUME TabInv, NEW m \in Command, Send(m)
    PROVE  PageKnows'
<1> USE DEF TabInv, LineInv
<1> DEFINE msg == [id |-> m, as |-> known[mounted]]
<1>1. mounted \in Client /\ known[mounted] # NoRow /\ ws[mounted] \in Link
  BY Numbers DEF Send, Types, PageTypes, Shown
<1>2. UNCHANGED <<mounted, ws, known, invite, saved, connection, hydrated, ready, bound>>
  BY DEF Send
<1>3. Identity' /\ Shown'
  BY <1>2 DEF Identity, Self, Shown
<1>4. msg \in Sent /\ ~IsJoin(msg) /\ msg.as = known[mounted]
  BY <1>1, WsAssumption DEF IsJoin, Sent, Types, TabTypes
<1>5. \A k \in Link : up'[k] \in {up[k], Append(up[k], msg)}
  BY DEF Send, Types, WireTypes
<1>6. \A c \in Client : outbound'[c] \in {outbound[c], Append(outbound[c], msg)}
                        /\ (c # mounted => outbound'[c] = outbound[c])
  BY DEF Send, Types, TabTypes
<1> HIDE DEF msg
<1>7. Belongs'
  <2> DEFINE k == ws[mounted]
  <2>1. up[k] \in Seq(Sent) /\ bound[k] = known[mounted]
    BY <1>1 DEF Types, WireTypes, Send, Shown
  <2>2. ~(Len(up[k]) > 0 /\ IsJoin(up[k][1]))
    <3>1. Len(up[k]) > 0 => 1 \in 1..Len(up[k])
      BY <2>1
    <3> QED  BY <1>1, <2>1, <3>1 DEF Wires, Ordered
  <2>3. ~(Len(up'[k]) > 0 /\ IsJoin(up'[k][1]))
    <3>1. CASE up'[k] = up[k]
      BY <2>2, <3>1
    <3>2. CASE up'[k] = Append(up[k], msg)
      <4>1. CASE Len(up[k]) = 0
        BY <1>4, <2>1, <3>2, <4>1
      <4>2. CASE Len(up[k]) # 0
        BY <2>1, <2>2, <3>2, <4>2
      <4> QED  BY <4>1, <4>2
    <3> QED  BY <1>1, <1>5, <3>1, <3>2
  <2> QED  BY <1>2, <2>1, <2>3 DEF Belongs
<1>8. Queued'
  <2> SUFFICES ASSUME NEW c \in Client, NEW i \in 1..Len(outbound'[c])
               PROVE  /\ ~IsJoin(outbound'[c][i]) /\ outbound'[c][i].as = known[c]
                      /\ known[c] # NoRow
    BY <1>2 DEF Queued
  <2>1. outbound[c] \in Seq(Sent)
    BY DEF Types, TabTypes
  <2>2. CASE outbound'[c] = outbound[c]
    BY <2>2 DEF Queued
  <2>3. CASE outbound'[c] # outbound[c]
    <3>1. c = mounted /\ outbound'[c] = Append(outbound[c], msg)
      BY <1>6, <2>3
    <3>2. i \in 1..Len(outbound[c]) \/ outbound'[c][i] = msg
      BY <1>4, <2>1, <3>1
    <3>3. i \in 1..Len(outbound[c]) => outbound'[c][i] = outbound[c][i]
      BY <1>4, <2>1, <3>1
    <3> QED  BY <1>1, <1>4, <3>1, <3>2, <3>3 DEF Queued
  <2> QED  BY <2>2, <2>3
<1> QED  BY <1>3, <1>7, <1>8 DEF PageKnows

LEMMA OpenKnows ==
    ASSUME TabInv, NEW c \in Client, OnOpen(c)
    PROVE  PageKnows'
<1> USE DEF TabInv, LineInv
<1> DEFINE msg == [id |-> "JOIN_ROOM", as |-> known[c]]
<1>1. PICK k \in Link :
        /\ ws[c] = k /\ ready[k] = "connecting"
        /\ ready' = [ready EXCEPT ![k] = "open"]
        /\ up' = [up EXCEPT ![k] = <<msg>> \o outbound[c]]
        /\ outbound' = [outbound EXCEPT ![c] = <<>>]
  BY DEF OnOpen
<1>2. c = mounted
  BY <1>1, Numbers DEF OneLinePerPage
<1>3. UNCHANGED <<mounted, ws, known, invite, saved, connection, hydrated, bound>>
  BY DEF OnOpen
<1>4. connection # "connected"
  BY <1>1, <1>2 DEF Shown
<1>5. up'[k][1] = msg
  <2>1. outbound[c] \in Seq(Sent) /\ msg \in Sent
    BY DEF Types, TabTypes, Sent
  <2>2. (<<msg>> \o outbound[c])[1] = msg
    BY <2>1, Prefixed
  <2> QED  BY <1>1, <2>2 DEF Types, WireTypes
<1>6. bound[k] = NoRow
  BY <1>1 DEF Wires, Fresh
<1>7. Belongs'
  BY <1>1, <1>2, <1>3, <1>5, <1>6 DEF Belongs
<1>8. Queued'
  <2>1. \A d \in Client : outbound'[d] \in {<<>>, outbound[d]}
    BY <1>1 DEF Types, TabTypes
  <2> QED  BY <1>3, <2>1 DEF Queued
<1>9. Identity' /\ Shown'
  BY <1>3, <1>4 DEF Identity, Self, Shown
<1> QED  BY <1>7, <1>8, <1>9 DEF PageKnows

(* What happens to the sockets.                                            *)
LEMMA CloseKnows ==
    ASSUME TabInv, NEW c \in Client, OnClose(c)
    PROVE  PageKnows'
<1>1. /\ UNCHANGED <<mounted, known, invite, saved, outbound, up, bound>>
      /\ connection' # "connected"
  BY DEF OnClose
<1>2. \A d \in Client : ws'[d] \in {0, ws[d]}
  BY DEF OnClose, TabInv, LineInv, Types, PageTypes
<1>3. mounted \in Client \cup {0}
  BY DEF TabInv, LineInv, Types, PageTypes
<1> QED  BY <1>1, <1>2, <1>3
            DEF PageKnows, TabInv, Identity, Self, Belongs, Queued, Shown

LEMMA FailKnows ==
    ASSUME TabInv, NEW k \in Link, SocketFails(k)
    PROVE  PageKnows'
<1>1. UNCHANGED clientVars /\ UNCHANGED <<up, bound>>
  BY DEF SocketFails
<1>2. \A j \in Link : ready'[j] \in {ready[j], "closing"}
  BY DEF SocketFails, TabInv, LineInv, Types, NetTypes
<1>3. ws[mounted] # 0 /\ mounted # 0 => ws[mounted] \in Link
  BY DEF TabInv, LineInv, Types, PageTypes
<1> QED  BY <1>1, <1>2, <1>3
            DEF clientVars, PageKnows, TabInv, Identity, Self, Belongs, Queued, Shown

LEMMA BreakKnows ==
    ASSUME TabInv, NEW k \in Link, LinkBreaks(k)
    PROVE  PageKnows'
<1>1. UNCHANGED clientVars /\ UNCHANGED <<ready, bound>>
  BY DEF LinkBreaks
<1>2. \A j \in Link : up'[j] = up[j] \/ Len(up'[j]) = 0
  BY DEF LinkBreaks, TabInv, LineInv, Types, WireTypes
<1>3. ws[mounted] # 0 /\ mounted # 0 => ws[mounted] \in Link
  BY DEF TabInv, LineInv, Types, PageTypes
<1> QED  BY <1>1, <1>2, <1>3
            DEF clientVars, PageKnows, TabInv, Identity, Self, Belongs, Queued, Shown

LEMMA ReceiveKnows ==
    ASSUME TabInv, NEW k \in Link, Receive(k)
    PROVE  PageKnows'
<1> USE DEF TabInv, LineInv, clientVars
<1>1. UNCHANGED clientVars /\ UNCHANGED ready
  BY DEF Receive
<1>2. Identity' /\ Queued'
  BY <1>1 DEF Identity, Self, Queued
<1>3. CASE ~(mounted # 0 /\ ws[mounted] = k)
  <2>1. \A j \in Link : j # k => up'[j] = up[j] /\ bound'[j] = bound[j]
    BY DEF Receive, Types, WireTypes
  <2>2. mounted # 0 /\ ws[mounted] # 0 => ws[mounted] \in Link
    BY DEF Types, PageTypes
  <2> QED  BY <1>1, <1>2, <1>3, <2>1, <2>2 DEF PageKnows, Belongs, Shown
<1>4. CASE mounted # 0 /\ ws[mounted] = k
  <2>1. /\ up[k] \in Seq(Sent) /\ up[k] # <<>> /\ up'[k] = Tail(up[k])
    BY DEF Receive, Types, WireTypes
  <2>2. Head(up[k]) = up[k][1] /\ Len(up[k]) > 0 /\ 1 \in 1..Len(up[k])
    BY <2>1, Taken
  <2>3. ~(Len(up'[k]) > 0 /\ IsJoin(up'[k][1]))
    <3> SUFFICES ASSUME Len(up'[k]) > 0, IsJoin(up'[k][1]) PROVE FALSE
      OBVIOUS
    <3>1. up'[k][1] = up[k][2] /\ 2 \in 1..Len(up[k])
      BY <2>1, Taken
    <3> QED  BY <3>1 DEF Wires, Ordered
  <2>4. CASE IsJoin(up[k][1])
    <3>1. bound[k] = NoRow /\ up[k][1].as = known[mounted]
      BY <1>4, <2>2, <2>4, Numbers DEF Wires, Ordered, Belongs
    <3>2. connection # "connected"
      BY <1>4, <3>1 DEF Shown
    <3>3. known[mounted] # NoRow => bound'[k] = known[mounted]
      BY <2>2, <2>4, <3>1 DEF Receive, IsJoin, Types, WireTypes
    <3> QED  BY <1>1, <1>2, <1>4, <2>3, <3>2, <3>3 DEF PageKnows, Belongs, Shown
  <2>5. CASE ~IsJoin(up[k][1])
    <3>1. bound' = bound
      BY <2>2, <2>5 DEF Receive, IsJoin
    <3> QED  BY <1>1, <1>2, <1>4, <2>3, <3>1 DEF PageKnows, Belongs, Shown
  <2> QED  BY <2>4, <2>5
<1> QED  BY <1>3, <1>4

LEMMA KnowsKept ==
    ASSUME TabInv, [Next]_vars
    PROVE  PageKnows'
<1>1. ASSUME Fails \/ Noticed
      PROVE  PageKnows'
  <2>1. PICK k \in Link : SocketFails(k)
    BY <1>1, FailsCases DEF TabInv, LineInv
  <2> QED  BY <2>1, FailKnows
<1>2. ASSUME Breaks \/ Drops
      PROVE  PageKnows'
  <2>1. PICK k \in Link : LinkBreaks(k)
    BY <1>2, BreaksCases DEF TabInv, LineInv
  <2> QED  BY <2>1, BreakKnows
<1>3. ASSUME UNCHANGED vars
      PROVE  PageKnows'
  BY <1>3 DEF vars, wsVars, clientVars, netVars, TabInv, PageKnows, Identity, Self, Belongs,
              Queued, Shown
<1> QED  BY <1>1, <1>2, <1>3, NextCases, PageStepsKnow, SendKnows, OpenKnows, SnapshotKnows,
            CloseKnows, ReceiveKnows

-----------------------------------------------------------------------------
(* The invariant, and what follows.                                        *)

LEMMA TabStep == TabInv /\ [Next]_vars => TabInv'
<1> SUFFICES ASSUME TabInv, [Next]_vars PROVE TabInv'
  OBVIOUS
<1>1. LineInv'
  BY LinesKept DEF TabInv
<1>2. Wires'
  BY WiresKept DEF TabInv
<1>3. PageKnows'
  BY KnowsKept
<1> QED  BY <1>1, <1>2, <1>3 DEF TabInv, PageKnows

LEMMA TabAlways == Spec => []TabInv
  BY TabInit, TabStep, PTL DEF Spec

(* The page that is open has one line or is about to have one, and a page  *)
(* that was left has none (ws/client.ts, useRoomClient.ts).                *)
THEOREM OneLineAlways == Spec => []OneLinePerPage
<1>1. TabInv => OneLinePerPage
  BY DEF TabInv, LineInv
<1> QED  BY <1>1, TabAlways, PTL

(* The page shows the room only while its own socket is answered for the   *)
(* row it knows (ws/client.ts, room.ts).                                   *)
THEOREM ConnectedAlwaysHonest == Spec => []ConnectedIsHonest
<1>1. TabInv => ConnectedIsHonest
  BY DEF TabInv, Shown, ConnectedIsHonest
<1> QED  BY <1>1, TabAlways, PTL

(* A command is executed for the row the page showed when it was sent      *)
(* (ws/client.ts).                                                         *)
THEOREM CommandsAlwaysAttributed == Spec => []CommandsAttributed
<1>1. ASSUME TabInv, NEW k \in Link, NEW i \in 1..Len(up[k]), up[k][i].id # "JOIN_ROOM"
      PROVE  \/ bound[k] = up[k][i].as
             \/ \E j \in 1..i - 1 : up[k][j] = [id |-> "JOIN_ROOM", as |-> up[k][i].as]
  <2>1. up[k] \in Seq(Sent)
    BY <1>1 DEF TabInv, LineInv, Types, WireTypes
  <2>2. CASE bound[k] = up[k][i].as
    BY <2>2
  <2>3. CASE IsJoin(up[k][1]) /\ up[k][1].as = up[k][i].as
    <3>1. 1 \in 1..i - 1 /\ up[k][1] \in Sent
      BY <1>1, <2>1, <2>3 DEF IsJoin
    <3>2. up[k][1] = [id |-> "JOIN_ROOM", as |-> up[k][i].as]
      BY <2>3, <3>1 DEF IsJoin, Sent
    <3> QED  BY <3>1, <3>2
  <2> QED  BY <1>1, <2>2, <2>3 DEF TabInv, Wires, Ordered, IsJoin
<1>2. TabInv => CommandsAttributed
  BY <1>1 DEF CommandsAttributed, TabInv, Queued
<1> QED  BY <1>2, TabAlways, PTL

(* Once the tab has a row it keeps it (session.ts, ws/client.ts).          *)
THEOREM IdentityAlwaysKept == Spec => IdentityKept
<1>1. ASSUME TabInv, [Next]_vars, saved # NoRow
      PROVE  saved' = saved
  <2>1. ASSUME NEW c \in Client, OnSnapshot(c)
        PROVE  saved' = saved
    BY <1>1, <2>1, SnapshotRow
  <2>2. ASSUME Fails \/ Noticed \/ Breaks \/ Drops
        PROVE  saved' = saved
    BY <2>2 DEF Fails, Noticed, Breaks, Drops, SocketFails, LinkBreaks, clientVars
  <2>3. ASSUME \/ Mount \/ Unmount \/ Reload
               \/ \E m \in Command : Send(m)
               \/ \E c \in Client : OnOpen(c) \/ OnClose(c) \/ Reconnect(c)
               \/ \E k \in Link : Receive(k)
               \/ UNCHANGED vars
        PROVE  saved' = saved
    BY <2>3 DEF Mount, Unmount, Reload, Send, OnOpen, OnClose, Reconnect, Receive, clientVars,
                wsVars, vars
  <2> QED  BY <1>1, <2>1, <2>2, <2>3, NextCases
<1>2. TabInv /\ [Next]_vars => [saved # NoRow => saved' = saved]_vars
  BY <1>1
<1> QED  BY <1>2, TabAlways, PTL DEF Spec, IdentityKept
=============================================================================
