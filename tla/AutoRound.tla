------------------------------ MODULE AutoRound ------------------------------
(***************************************************************************)
(* The loop that runs a vote without anybody setting it up: the effect     *)
(* AutoRoundController of the web page adds a round and opens it, the host *)
(* reveals it and closes it, anyone takes over when the host is gone.  It  *)
(* is the page's only way to a vote, and it acts on what the page was told *)
(* through lines that keep order but may break, noticed by the server or   *)
(* by the page first, and whose rest may reach the server after the page   *)
(* has a new one.                                                          *)
(*                                                                         *)
(* The server is Room's, as far as the loop meets it: every story is a     *)
(* round ("Team estimate"), the mode is sync, votes are left out, and of   *)
(* the room's state only whether it is vacant.                             *)
(***************************************************************************)
EXTENDS Integers, Sequences, FiniteSetsExt

CONSTANTS
    Voter,
    Creator,    \* the voter the room was made by
    NoVoter,    \* the host of a store without a room
    Visits,     \* bound: how often pages are opened, by all together
    MaxUp,      \* bound: messages on the way to the server, per line
    MaxDown     \* bound: messages on the way to the page, per line

(* No more rounds than REVEALED_HISTORY_LIMIT: a snapshot has them all.    *)
ASSUME AutoAssumption ==
    /\ Creator \in Voter /\ NoVoter \notin Voter
    /\ Visits \in 1..3 /\ MaxUp \in Nat \ {0} /\ MaxDown \in Nat \ {0}

Line  == Voter \X {1, 2}   \* a page's line and the one it had before
Round == 1..Visits         \* a visit adds one round at the most

VARIABLES
    vacant,    \* room.state = 'host_vacant'
    hostId,    \* room.host_voter_id
    story,     \* story.state
    bound,     \* the lines the server has bound to their voter
    joined     \* the voters who were ever bound

VARIABLES
    page,      \* each voter's page: off, joining, or on: RoomShell is mounted
    line,      \* the page's line
    view,      \* what its store holds of the room
    addSent,   \* addSent.current
    opened,    \* openedIds.current
    visits

VARIABLES
    status,    \* free, open, dead: broken, the page has not noticed, or
               \* lost: given up by the page, the server may not have noticed
    up,        \* messages to the server
    down       \* messages to the page

serverVars == <<vacant, hostId, story, bound, joined>>
pageVars   == <<page, line, view, addSent, opened, visits>>
lineVars   == <<status, up, down>>
vars       == <<serverVars, pageVars, lineVars>>

View == [host : Voter \cup {NoVoter}, vacant : BOOLEAN,
         story : [Round -> {"absent", "pending", "active", "revealed"}]]
NoStory == [x \in Round |-> "absent"]
NoRoom  == [host |-> NoVoter, vacant |-> FALSE, story |-> NoStory]

Join          == [type |-> "JOIN_ROOM"]
Claim         == [type |-> "CLAIM_HOST"]
Add           == [type |-> "ADD_STORY"]
Open(x, by)   == [type |-> "OPEN_VOTING", round |-> x, by |-> by]
Reveal(x)     == [type |-> "REVEAL_VOTES", round |-> x]

Init ==
    /\ vacant = FALSE /\ hostId = Creator
    /\ story = NoStory
    /\ bound = {} /\ joined = {}
    /\ page = [v \in Voter |-> "off"]
    /\ line = [v \in Voter |-> 1]
    /\ view = [v \in Voter |-> NoRoom]
    /\ addSent = [v \in Voter |-> FALSE]
    /\ opened = [v \in Voter |-> {}]
    /\ visits = 0
    /\ status = [l \in Line |-> "free"]
    /\ up = [l \in Line |-> <<>>]
    /\ down = [l \in Line |-> <<>>]

-----------------------------------------------------------------------------
(* The page.                                                               *)

LineOf(v) == <<v, line[v]>>

Sends(v, m) ==
    LET l == LineOf(v) IN
    /\ Len(up[l]) < MaxUp
    /\ up' = [up EXCEPT ![l] = IF status[l] = "open" THEN Append(@, m) ELSE @]

(* The room is opened or reconnects: a line is up and says who is there.   *)
Visit(v) ==
    /\ page[v] = "off" /\ visits < Visits
    /\ visits' = visits + 1
    /\ \E i \in {1, 2} :
         /\ status[<<v, i>>] = "free"
         /\ line' = [line EXCEPT ![v] = i]
         /\ status' = [status EXCEPT ![<<v, i>>] = "open"]
         /\ up' = [up EXCEPT ![<<v, i>>] = <<Join>>]
    /\ page' = [page EXCEPT ![v] = "joining"]
    /\ UNCHANGED <<serverVars, view, addSent, opened, down>>

(* Mutant: what the effect has done is remembered beyond the page.         *)
Lose_KeepsRefs(v) ==
    /\ page[v] # "off"
    /\ page' = [page EXCEPT ![v] = "off"]
    /\ status' = [status EXCEPT ![LineOf(v)] = "lost"]
    /\ down' = [down EXCEPT ![LineOf(v)] = <<>>]
    /\ view' = [view EXCEPT ![v] = NoRoom]
    /\ UNCHANGED <<serverVars, line, addSent, opened, visits, up>>

(* The page sees its line close, reloads or is left: RoomShell unmounts,   *)
(* its refs and what was on the way to it are gone.                        *)
Lose(v) ==
    /\ page[v] # "off"
    /\ page' = [page EXCEPT ![v] = "off"]
    /\ status' = [status EXCEPT ![LineOf(v)] = "lost"]
    /\ down' = [down EXCEPT ![LineOf(v)] = <<>>]
    /\ view' = [view EXCEPT ![v] = NoRoom]
    /\ addSent' = [addSent EXCEPT ![v] = FALSE]
    /\ opened' = [opened EXCEPT ![v] = {}]
    /\ UNCHANGED <<serverVars, line, visits, up>>

IsHost(v) == page[v] = "on" /\ view[v].host = v

Listed(v)  == {x \in Round : view[v].story[x] # "absent"}
Pending(v) == {x \in Round : view[v].story[x] = "pending"}
Focus(v)   == {x \in Round : view[v].story[x] \in {"active", "revealed"}}

(* AutoRoundController with nothing listed: a round is added, once.        *)
AddRound(v) ==
    /\ IsHost(v) /\ Listed(v) = {} /\ ~addSent[v]
    /\ Sends(v, Add)
    /\ addSent' = [addSent EXCEPT ![v] = TRUE]
    /\ UNCHANGED <<serverVars, page, line, view, opened, visits, status, down>>

(* Mutant: any round that is not running is opened, revealed ones too.     *)
OpenRound_NotRunning(v) ==
    /\ IsHost(v) /\ \A x \in Round : view[v].story[x] # "active"
    /\ Listed(v) # {}
    /\ LET next == Min(Listed(v)) IN
       /\ next \notin opened[v]
       /\ Sends(v, Open(next, "effect"))
       /\ opened' = [opened EXCEPT ![v] = @ \cup {next}]
    /\ UNCHANGED <<serverVars, page, line, view, addSent, visits, status, down>>

(* AutoRoundController with no round shown: the first pending one is       *)
(* opened, unless this page has tried before.                              *)
OpenRound(v) ==
    /\ IsHost(v) /\ Focus(v) = {} /\ Pending(v) # {}
    /\ LET next == Min(Pending(v)) IN
       /\ next \notin opened[v]
       /\ Sends(v, Open(next, "effect"))
       /\ opened' = [opened EXCEPT ![v] = @ \cup {next}]
    /\ UNCHANGED <<serverVars, page, line, view, addSent, visits, status, down>>

(* The buttons: Reveal cards, Close vote, Claim host.                      *)
RevealCards(v) ==
    /\ IsHost(v)
    /\ \E x \in Focus(v) : view[v].story[x] = "active" /\ Sends(v, Reveal(x))
    /\ UNCHANGED <<serverVars, pageVars, status, down>>

CloseVote(v) ==
    /\ IsHost(v)
    /\ \E x \in Focus(v) : view[v].story[x] = "revealed" /\ Sends(v, Open(x, "click"))
    /\ UNCHANGED <<serverVars, pageVars, status, down>>

ClaimHost(v) ==
    /\ page[v] = "on" /\ view[v].vacant
    /\ Sends(v, Claim)
    /\ UNCHANGED <<serverVars, pageVars, status, down>>

-----------------------------------------------------------------------------
(* The server.                                                             *)

(* What is sent to each line; a lost one takes nothing any more.           *)
SentTo(lines, m) ==
    [l \in Line |-> IF l \in lines /\ status[l] = "open"
                    THEN Append(down[l], m) ELSE down[l]]

RoomOnLines == \A l \in Line : Len(down[l]) + 1 < MaxDown

Snapshot == [type |-> "SNAPSHOT_RESPONSE",
             view |-> [host |-> hostId, vacant |-> vacant',
                       story |-> [x \in Round |-> IF story[x] = "pending"
                                                  THEN "absent" ELSE story[x]]]]
HostIs(v)      == [type |-> "HOST_RECLAIMED", host |-> v]
IsVacant       == [type |-> "HOST_VACANT"]
Becomes(x, to) == [type |-> to, round |-> x]

(* Mutant: a host who comes back is told so, the others are not.           *)
ServeJoin_TellsNobody(l) ==
    /\ bound' = bound \cup {l}
    /\ joined' = joined \cup {l[1]}
    /\ vacant' = (vacant /\ l[1] # hostId)
    /\ down' = [down EXCEPT ![l] = IF status[l] = "open"
                                   THEN Append(@, Snapshot) ELSE @]
    /\ UNCHANGED <<hostId, story>>

(* JOIN_ROOM: the host of a vacant room gets it back; a snapshot.          *)
ServeJoin(l) ==
    /\ bound' = bound \cup {l}
    /\ joined' = joined \cup {l[1]}
    /\ vacant' = (vacant /\ l[1] # hostId)
    /\ LET told == IF vacant' # vacant THEN SentTo(bound', HostIs(hostId)) ELSE down
       IN  down' = [told EXCEPT ![l] = IF status[l] = "open"
                                       THEN Append(@, Snapshot) ELSE @]
    /\ UNCHANGED <<hostId, story>>

(* CLAIM_HOST: the first gets the seat, a later one learns who has it.     *)
ServeClaim(l) ==
    /\ vacant' = FALSE
    /\ hostId' = IF vacant THEN l[1] ELSE hostId
    /\ down' = SentTo(IF vacant THEN bound ELSE {l}, HostIs(hostId'))
    /\ UNCHANGED <<story, bound, joined>>

ServeAdd(l) ==
    /\ l[1] = hostId
    /\ LET x == Min({y \in Round : story[y] = "absent"}) IN
       /\ story' = [story EXCEPT ![x] = "pending"]
       /\ down' = SentTo(bound, Becomes(x, "pending"))
    /\ UNCHANGED <<vacant, hostId, bound, joined>>

Openable(x) == /\ story[x] \in {"pending", "revealed"}
               /\ \A y \in Round : story[y] # "active"

ServeOpen(l, x) ==
    /\ l[1] = hostId /\ Openable(x)
    /\ story' = [story EXCEPT ![x] = "active"]
    /\ down' = SentTo(bound, Becomes(x, "active"))
    /\ UNCHANGED <<vacant, hostId, bound, joined>>

ServeReveal(l, x) ==
    /\ l[1] = hostId /\ story[x] = "active"
    /\ story' = [story EXCEPT ![x] = "revealed"]
    /\ down' = SentTo(bound, Becomes(x, "revealed"))
    /\ UNCHANGED <<vacant, hostId, bound, joined>>

(* The server answers with an error, which no page acts upon.              *)
ServeError(l, m) ==
    /\ \/ m.type \in {"ADD_STORY", "OPEN_VOTING", "REVEAL_VOTES"} /\ l[1] # hostId
       \/ m.type = "OPEN_VOTING" /\ ~Openable(m.round)
       \/ m.type = "REVEAL_VOTES" /\ story[m.round] # "active"
    /\ UNCHANGED <<serverVars, down>>

Receive(l) ==
    /\ up[l] # <<>> /\ RoomOnLines
    /\ up' = [up EXCEPT ![l] = Tail(@)]
    /\ LET m == Head(up[l]) IN
       \/ m.type = "JOIN_ROOM"    /\ ServeJoin(l)
       \/ m.type = "CLAIM_HOST"   /\ ServeClaim(l)
       \/ m.type = "ADD_STORY"    /\ ServeAdd(l)
       \/ m.type = "OPEN_VOTING"  /\ ServeOpen(l, m.round)
       \/ m.type = "REVEAL_VOTES" /\ ServeReveal(l, m.round)
       \/ ServeError(l, m)
    /\ UNCHANGED <<pageVars, status>>

(* A line breaks, with what is on it.                                      *)
LineBreaks(l) ==
    /\ status[l] = "open"
    /\ status' = [status EXCEPT ![l] = "dead"]
    /\ up' = [up EXCEPT ![l] = <<>>]
    /\ down' = [down EXCEPT ![l] = <<>>]
    /\ UNCHANGED <<serverVars, pageVars>>

(* The server sees a line close; what had not arrived never will.          *)
LineCloses(l) ==
    /\ \/ status[l] = "lost"
       \/ status[l] = "dead" /\ l \in bound
    /\ status' = [status EXCEPT ![l] = IF @ = "lost" THEN "free" ELSE @]
    /\ up' = [up EXCEPT ![l] = <<>>]
    /\ bound' = bound \ {l}
    /\ UNCHANGED <<pageVars, vacant, hostId, story, joined, down>>

(* The grace of a host who left is over.  A creator who never came does    *)
(* not leave.                                                              *)
Vacate ==
    /\ ~vacant /\ hostId \in joined /\ RoomOnLines
    /\ \A l \in bound : l[1] # hostId
    /\ vacant' = TRUE
    /\ down' = SentTo(bound, IsVacant)
    /\ UNCHANGED <<pageVars, hostId, story, bound, joined, status, up>>

-----------------------------------------------------------------------------
(* The page's reducer.                                                     *)

(* A round that is not listed cannot be opened or revealed.                *)
Folded(w, m) ==
    CASE m.type = "SNAPSHOT_RESPONSE" -> m.view
      [] m.type = "HOST_RECLAIMED"    -> IF w.host = NoVoter THEN w
                                         ELSE [w EXCEPT !.host = m.host, !.vacant = FALSE]
      [] m.type = "HOST_VACANT"       -> [w EXCEPT !.vacant = TRUE]
      [] m.type = "pending"           -> [w EXCEPT !.story[m.round] = "pending"]
      [] m.type = "revealed" ->
           [w EXCEPT !.story[m.round] = IF @ = "absent" THEN @ ELSE "revealed"]
      [] m.type = "active" ->
           [w EXCEPT !.story = [x \in Round |->
                CASE @[x] = "absent"                  -> "absent"
                  [] @[x] # "absent" /\ x = m.round   -> "active"
                  [] @[x] = "active" /\ x # m.round   -> "pending"
                  [] OTHER                            -> @[x]]]

(* The page takes its next message; it shows the room from the snapshot on.*)
Deliver(v) ==
    LET l == LineOf(v) IN
    /\ page[v] # "off" /\ down[l] # <<>>
    /\ view' = [view EXCEPT ![v] = Folded(@, Head(down[l]))]
    /\ page' = [page EXCEPT ![v] =
                   IF Head(down[l]).type = "SNAPSHOT_RESPONSE" THEN "on" ELSE @]
    /\ down' = [down EXCEPT ![l] = Tail(@)]
    /\ UNCHANGED <<serverVars, line, addSent, opened, visits, status, up>>

Next ==
    \/ \E v \in Voter : \/ Visit(v) \/ Lose(v) \/ Deliver(v)
                        \/ AddRound(v) \/ OpenRound(v)
                        \/ RevealCards(v) \/ CloseVote(v) \/ ClaimHost(v)
    \/ \E l \in Line : Receive(l) \/ LineBreaks(l) \/ LineCloses(l)
    \/ Vacate

Spec == Init /\ [][Next]_vars

Notices(v) == status[LineOf(v)] = "dead" /\ Lose(v)

(* Pages run their effects and take their messages, the server does too,   *)
(* and both notice a broken line at some time; nobody has to click, to     *)
(* come or to stay.                                                        *)
LiveSpec ==
    /\ Spec
    /\ \A v \in Voter : /\ WF_vars(AddRound(v)) /\ WF_vars(OpenRound(v))
                         /\ WF_vars(Deliver(v)) /\ WF_vars(Notices(v))
    /\ \A l \in Line : WF_vars(Receive(l)) /\ WF_vars(LineCloses(l))

-----------------------------------------------------------------------------
(* Properties.                                                             *)

AutoTypeOK ==
    /\ vacant \in BOOLEAN /\ hostId \in Voter
    /\ story \in [Round -> {"absent", "pending", "active", "revealed"}]
    /\ bound \subseteq Line /\ joined \subseteq Voter
    /\ page \in [Voter -> {"off", "joining", "on"}]
    /\ line \in [Voter -> {1, 2}]
    /\ view \in [Voter -> View]
    /\ \A v \in Voter : page[v] = "on" <=> view[v].host # NoVoter
    /\ addSent \in [Voter -> BOOLEAN]
    /\ opened \in [Voter -> SUBSET Round]
    /\ visits \in 0..Visits
    /\ status \in [Line -> {"free", "open", "dead", "lost"}]
    /\ \A l \in Line : Len(up[l]) <= MaxUp /\ Len(down[l]) <= MaxDown

(* A page that has taken all the messages of a sound line shows the host,  *)
(* the vacancy and every round it lists as the server has them, whatever   *)
(* lines were lost before and whatever an old one still brought            *)
(* (reducer.ts, over client.ts).                                           *)
SettledPagesAgree ==
    \A v \in Voter :
      page[v] = "on" /\ status[LineOf(v)] = "open" /\ down[LineOf(v)] = <<>> =>
        /\ view[v].host = hostId /\ view[v].vacant = vacant
        /\ \A x \in Listed(v) : view[v].story[x] = story[x]

(* Cards that lie open are cleared by Close vote alone: no effect of a     *)
(* page, old or new, reopens a revealed round (RoomShell.tsx               *)
(* AutoRoundController opens pending ones).                                *)
ClearedByHand ==
    [][\A x \in Round : story[x] = "revealed" /\ story'[x] = "active" =>
          \E l \in Line : /\ up[l] # <<>> /\ up'[l] = Tail(up[l])
                          /\ Head(up[l]) = Open(x, "click")]_vars

Running == \E x \in Round : story[x] \in {"active", "revealed"}

(* A host who stays gets the room a vote, whatever was added, lost or      *)
(* opened before, and by whom (RoomShell.tsx: "There is nothing else to    *)
(* set up").                                                               *)
VoteRuns ==
    \A v \in Voter : <>[](page[v] = "on" /\ hostId = v) => <>Running

(* What RoomShell.tsx tells a host or voter who waits for a vote, "Your    *)
(* card hand will appear automatically": a host who stays is shown one.    *)
HostGetsVote ==
    \A v \in Voter : <>[](page[v] = "on" /\ hostId = v) => <>(Focus(v) # {})
=============================================================================
