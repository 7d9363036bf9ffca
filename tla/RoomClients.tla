------------------------------ MODULE RoomClients ------------------------------
(***************************************************************************)
(* The room and the browsers that watch it.  Every handler of Room is      *)
(* joined with the messages it broadcasts, and every browser folds them    *)
(* into its copy of the room with the reducer of the web client.           *)
(*                                                                         *)
(* A socket delivers in order and a reducer depends on nothing else, so    *)
(* the copy of a bound socket is taken to be what the browser shows when   *)
(* everything sent to it so far has arrived.                               *)
(***************************************************************************)
EXTENDS Room

CONSTANT HistoryLimit   \* REVEALED_HISTORY_LIMIT of the snapshot

ASSUME HistoryAssumption == HistoryLimit \in Nat

VARIABLES
    cast,   \* the (voter, story) pairs with a row in vote
    view    \* each socket's RoomStore

clientVars == <<vars, cast, view>>

(* RoomStore: the room's state, host and window, the story list ("absent": *)
(* not in it), the roster, the stories whose cards lie open (revealed) and *)
(* those with a vote of one's own (myVotes).                               *)
View == [state : RoomState, host : Voter, window : Time,
         story : [Story -> StoryState], flag : [Story -> BOOLEAN],
         role : [Voter -> Role], conn : [Voter -> Conn],
         revealed : SUBSET Story, mine : SUBSET Story]

-----------------------------------------------------------------------------
(* The reducer: what each message makes of a store w.                      *)

(* Mutant: the previous host keeps the role.                               *)
ApplyHostReclaimed_NoDemotion(w, v) ==
    [w EXCEPT !.role = [w.role EXCEPT ![v] = "host"],
              !.host = v,
              !.state = IF w.state = "host_vacant" THEN "active" ELSE w.state]

(* The seat changes hands, a vacancy ends.                                 *)
ApplyHostReclaimed(w, v) ==
    [w EXCEPT !.role = [w.role EXCEPT ![w.host] = "voter", ![v] = "host"],
              !.host = v,
              !.state = IF w.state = "host_vacant" THEN "active" ELSE w.state]

ApplyHostVacant(w) == [w EXCEPT !.state = "host_vacant"]

VoterJoined(w, v) ==
    [w EXCEPT !.role[v] = role'[v], !.conn[v] = conn'[v]]

VoterLeft(w, v) ==
    [w EXCEPT !.conn[v] = IF w.role[v] = "none" THEN @ ELSE "left"]

StoryAdded(w, st) ==
    [w EXCEPT !.story[st] = "pending", !.flag[st] = FALSE]

(* A state for a story that is not in the list is dropped.                 *)
Mark(w, sts, state) ==
    [w EXCEPT !.story = [st \in Story |->
        IF st \in sts /\ w.story[st] # "absent" THEN state ELSE w.story[st]]]

(* Mutant: the cards and the own vote of the previous round stay.          *)
VotingOpened_KeepsRound(w, st) ==
    [w EXCEPT !.story = [x \in Story |->
                    CASE x = st /\ w.story[x] # "absent"  -> "active"
                      [] x # st /\ w.story[x] = "active" -> "pending"
                      [] OTHER                          -> w.story[x]]]

(* The previous round of the story is cleared; any other active story is   *)
(* put back.                                                               *)
VotingOpened(w, st) ==
    [w EXCEPT !.story = [x \in Story |->
                    CASE x = st /\ w.story[x] # "absent"  -> "active"
                      [] x # st /\ w.story[x] = "active" -> "pending"
                      [] OTHER                          -> w.story[x]],
              !.revealed = @ \ {st},
              !.mine = @ \ {st}]

(* votes_revealed for the stories sts; a reveal by the close of a window   *)
(* brings the discuss flag along.                                          *)
VotesRevealed(w, sts, byClose) ==
    [Mark(w, sts, "revealed") EXCEPT
        !.revealed = @ \cup sts,
        !.flag = [st \in Story |->
            IF byClose /\ st \in sts /\ w.story[st] # "absent"
            THEN flagged'[st] ELSE w.flag[st]]]

(* Mutant: the parent is left as it was.                                   *)
StorySplit_KeepsParent(w, st, children) ==
    [w EXCEPT !.story = [x \in Story |-> IF x \in children THEN "pending"
                                                           ELSE w.story[x]],
              !.flag = [x \in Story |-> IF x \in children THEN FALSE ELSE w.flag[x]]]

(* The parent ends, its children join the list.                            *)
StorySplit(w, st, children) ==
    LET marked == Mark(w, {st}, "split") IN
    [marked EXCEPT
        !.story = [x \in Story |-> IF x \in children THEN "pending"
                                                     ELSE marked.story[x]],
        !.flag = [x \in Story |-> IF x \in children THEN FALSE ELSE w.flag[x]]]

(* Mutant: the window is not stamped.                                      *)
AsyncWindowOpened_NoClock(w, sts, closesAt) ==
    [Mark(w, sts, "active") EXCEPT !.state = "active"]

(* Unlike voting_opened it leaves other active stories alone.              *)
AsyncWindowOpened(w, sts, closesAt) ==
    [Mark(w, sts, "active") EXCEPT !.state = "active", !.window = closesAt]

AsyncWindowClosed(w) == [w EXCEPT !.state = "review", !.window = NoTime]

RoomStateChanged(w, state) == [w EXCEPT !.state = state]

-----------------------------------------------------------------------------
(* The messages.                                                           *)

(* To every bound socket: new[s] is what the message makes of view[s].     *)
Broadcast(new) ==
    view' = [s \in Socket |-> IF boundTo[s] # NoVoter THEN new[s] ELSE view[s]]

Finished == {st \in Story : story[st] \in {"revealed", "committed"}}

(* buildSnapshot and applySnapshot: the active stories and the latest few  *)
(* finished ones; which are the latest is left open here.                  *)
Snapshots(v) ==
    {[state |-> roomState', host |-> hostId', window |-> window',
      story |-> [st \in Story |-> IF st \in ActiveStories \cup kept
                                  THEN story[st] ELSE "absent"],
      flag |-> [st \in Story |-> st \in ActiveStories \cup kept /\ flagged[st]],
      role |-> role', conn |-> conn',
      revealed |-> kept,
      mine |-> {st \in ActiveStories : <<v, st>> \in cast}] :
        kept \in {k \in SUBSET Finished :
                    Cardinality(k) = Min({HistoryLimit, Cardinality(Finished)})}}

-----------------------------------------------------------------------------
(* Room's events with what they send.                                      *)

(* The joiner gets the snapshot; the others hear of a new binding, and     *)
(* first of a reclaim, if the joiner is the host of a vacant room.         *)
Joins(s, v) ==
    \E snapshot \in Snapshots(v) :
        view' = [x \in Socket |->
                   IF x = s THEN snapshot
                   ELSE IF boundTo[x] = NoVoter THEN view[x]
                   ELSE VoterJoined(IF roomState' # roomState
                                    THEN ApplyHostReclaimed(view[x], v)
                                    ELSE view[x], v)]

JoinEvent ==
    /\ \E s \in Socket, v \in Voter :
         /\ JoinResume(s, v) \/ \E r \in {"voter", "spectator"} : JoinNew(s, v, r)
         /\ Joins(s, v)
    /\ UNCHANGED cast

(* A repeated JOIN is not announced.                                       *)
ReJoinEvent ==
    /\ \E s \in Socket :
         /\ ReJoin(s)
         /\ \E snapshot \in Snapshots(boundTo[s]) :
              view' = [x \in Socket |->
                         IF x = s THEN snapshot
                         ELSE IF boundTo[x] # NoVoter /\ roomState' # roomState
                         THEN ApplyHostReclaimed(view[x], boundTo[s])
                         ELSE view[x]]
    /\ UNCHANGED cast

CloseEvent ==
    /\ \E s \in Socket :
         /\ CloseSocket(s)
         /\ view' = [x \in Socket |->
                       IF x # s /\ boundTo[x] # NoVoter
                       THEN VoterLeft(view[x], boundTo[s]) ELSE view[x]]
    /\ UNCHANGED cast

SeatEvent ==
    /\ \/ \E s \in Socket :
            /\ ClaimHost(s)
            /\ Broadcast([x \in Socket |-> ApplyHostReclaimed(view[x], boundTo[s])])
       \/ \E v \in Voter :
            /\ TransferHost(v)
            /\ Broadcast([x \in Socket |-> ApplyHostReclaimed(view[x], v)])
    /\ UNCHANGED cast

(* A claim that comes too late is answered, to its sender only, with the   *)
(* name of the host.                                                       *)
LateClaim ==
    /\ roomState # "host_vacant"
    /\ \E s \in Socket :
         /\ boundTo[s] # NoVoter
         /\ view' = [view EXCEPT ![s] = ApplyHostReclaimed(@, hostId)]
    /\ UNCHANGED <<vars, cast>>

(* OPEN_VOTING and OPEN_DISCUSSION; the second may take the room out of    *)
(* its review.                                                             *)
OpenEvent ==
    \E st \in Story :
        /\ OpenVoting(st) \/ OpenDiscussion(st)
        /\ cast' = {c \in cast : c[2] # st}
        /\ Broadcast([s \in Socket |->
             LET w == VotingOpened(view[s], st) IN
             IF roomState' # roomState THEN RoomStateChanged(w, roomState') ELSE w])

(* vote_value goes to the sockets of the caster alone.                     *)
CastEvent ==
    \E s \in Socket, st \in Story, b \in Ballot :
        /\ CastVote(s, st, b)
        /\ cast' = cast \cup {<<boundTo[s], st>>}
        /\ Broadcast([x \in Socket |->
             IF boundTo[x] = boundTo[s]
             THEN [view[x] EXCEPT !.mine = @ \cup {st}] ELSE view[x]])

AddEvent ==
    /\ \/ \E st \in Story :
            /\ AddStory(st)
            /\ Broadcast([s \in Socket |-> StoryAdded(view[s], st)])
       \/ \E st \in Story, children \in SUBSET Story :
            /\ SplitStory(st, children)
            /\ Broadcast([s \in Socket |-> StorySplit(view[s], st, children)])
    /\ UNCHANGED cast

FinishEvent ==
    /\ \/ \E st \in Story :
            \/ /\ RevealVotes(st)
               /\ Broadcast([s \in Socket |-> VotesRevealed(view[s], {st}, FALSE)])
            \/ /\ SkipStory(st)
               /\ Broadcast([s \in Socket |-> Mark(view[s], {st}, "skipped")])
            \/ /\ CommitStory(st)
               /\ Broadcast([s \in Socket |->
                    LET w == Mark(view[s], {st}, "committed") IN
                    IF roomState' # roomState THEN RoomStateChanged(w, roomState')
                                              ELSE w])
       \/ /\ AcceptAgreed
          /\ Broadcast([s \in Socket |-> Mark(view[s], Agreed, "committed")])
    /\ UNCHANGED cast

AsyncEvent ==
    /\ \E d \in Windows :
         /\ OpenAsync(d)
         /\ Broadcast([s \in Socket |->
              AsyncWindowOpened(view[s], {st \in Story : story[st] = "pending"}, now + d)])
    /\ UNCHANGED cast

(* The alarm: a vacancy is announced; a close is announced if it revealed  *)
(* anything.                                                               *)
TaskEvent ==
    /\ DispatchTask
    /\ UNCHANGED cast
    /\ \/ /\ roomState' = "host_vacant" /\ roomState # "host_vacant"
          /\ Broadcast([s \in Socket |-> ApplyHostVacant(view[s])])
       \/ /\ roomState' = "review" /\ roomState # "review" /\ ActiveStories # {}
          /\ Broadcast([s \in Socket |->
               AsyncWindowClosed(VotesRevealed(view[s], ActiveStories, TRUE))])
       \/ /\ \/ roomState' = roomState
             \/ roomState' = "review" /\ ActiveStories = {}
          /\ UNCHANGED view

ClientsNext ==
    \/ /\ JoinEvent \/ ReJoinEvent \/ CloseEvent \/ SeatEvent
       /\ ~draining
       /\ UNCHANGED clockVars
    \/ LateClaim
    \/ /\ OpenEvent \/ CastEvent \/ AddEvent \/ FinishEvent \/ AsyncEvent
       /\ ~draining
       /\ UNCHANGED <<voterVars, clockVars>>
    \/ TaskEvent
    \/ /\ AlarmFires \/ AlarmDone \/ Tick
       /\ UNCHANGED <<cast, view>>

Blank == [state |-> "lobby", host |-> Creator, window |-> NoTime,
          story |-> [st \in Story |-> "absent"],
          flag |-> [st \in Story |-> FALSE],
          role |-> [v \in Voter |-> "none"], conn |-> [v \in Voter |-> "none"],
          revealed |-> {}, mine |-> {}]

ClientsInit == Init /\ cast = {} /\ view = [s \in Socket |-> Blank]

ClientsSpec == ClientsInit /\ [][ClientsNext]_clientVars

-----------------------------------------------------------------------------
(* Safety.                                                                 *)

StoriesToDiscuss == {st \in Story : story[st] = "revealed" /\ flagged[st]}

Watching == {s \in Socket : boundTo[s] # NoVoter}

(* Every store is a RoomStore, and every vote row is that of a participant *)
(* who may vote, whatever seats have changed since.                        *)
ClientsTypeOK ==
    /\ cast \subseteq Voter \X Story
    /\ \A c \in cast : role[c[1]] \in {"host", "voter"}
    /\ view \in [Socket -> View]

(* Every browser shows the host, the roles and the presence the server     *)
(* holds, whichever of joins, closes, claims, transfers and reclaims it    *)
(* heard of and in which order.                                            *)
RosterAgrees ==
    \A s \in Watching : /\ view[s].host = hostId
                        /\ view[s].role = role
                        /\ view[s].conn = conn

(* A story in a browser's list is in the server's state and bucket.        *)
StoriesAgree ==
    \A s \in Watching, st \in Story : view[s].story[st] # "absent" =>
        /\ view[s].story[st] = story[st]
        /\ view[s].flag[st] = flagged[st]

(* The cards of a story lie open in a browser when it is revealed and are  *)
(* gone when it is voted on again, and a voter's own vote is marked as     *)
(* cast exactly while the server holds it.                                 *)
RoundAgrees ==
    \A s \in Watching, st \in Story :
        /\ view[s].story[st] \in {"revealed", "committed"} => st \in view[s].revealed
        /\ view[s].story[st] = "active" =>
             /\ st \notin view[s].revealed
             /\ st \in view[s].mine <=> <<boundTo[s], st>> \in cast

(* While a window is open every browser shows it with its closing time,    *)
(* and a vacant room is shown as vacant.                                   *)
RoomAgrees ==
    \A s \in Watching :
        /\ window # NoTime => view[s].window = window
        /\ roomState = "host_vacant" => view[s].state = "host_vacant"
        /\ Mode = "sync" => view[s].state = roomState

-----------------------------------------------------------------------------
(* What comments of the code say of it and some behaviour refutes.         *)

(* HOST_RECLAIMED "mirrors the worker's setRoomHost": after a vacancy the  *)
(* browsers show the state the room has returned to.                       *)
ReclaimMirrored ==
    [][\A s \in Watching :
          roomState = "host_vacant" /\ hostId' # hostId /\ boundTo'[s] = boundTo[s]
            => view'[s].state = roomState']_clientVars

(* A close that announces nothing is one of a room "already closed": no    *)
(* browser goes on showing a vacant seat in a room that is not vacant.     *)
CloseAnnounced ==
    \A s \in Watching : view[s].state = "host_vacant" => roomState = "host_vacant"

(* "Your card hand will appear automatically": a story that is being voted *)
(* on is in the list of every browser.                                     *)
LiveVoteShown ==
    \A s \in Watching, st \in ActiveStories : view[s].story[st] = "active"

(* A snapshot is the "full state on JOIN / reconnect": who joins during a  *)
(* review gets every story that is left to discuss.                        *)
DiscussionShown ==
    [][roomState = "review" =>
          \A s \in Socket, st \in StoriesToDiscuss :
             boundTo[s] = NoVoter /\ boundTo'[s] # NoVoter =>
                 view'[s].story[st] = "revealed"]_clientVars
=============================================================================
