------------------------------ MODULE RoomTables ------------------------------
(***************************************************************************)
(* The state of one Room Durable Object and the row operations its         *)
(* handlers are built from: the tables of schema.ts, the socket            *)
(* attachments of the hibernation API, the operations of operations.ts     *)
(* and the alarm multiplexer of scheduler.ts.                              *)
(*                                                                         *)
(* The Durable Object runs one event at a time and awaits nothing between  *)
(* its writes, so an action of the modules that extend this one is a whole *)
(* handler.  Time is a counter in units smaller than the grace period.     *)
(***************************************************************************)
EXTENDS Integers, FiniteSetsExt

CONSTANTS
    Voter,      \* the voter ids that may ever join this room
    Creator,    \* the voter id createRoom makes the host
    NoVoter,    \* "no voter": an unbound socket, or a task that names none
    Socket,     \* WebSockets that may be open at the same time
    Story,      \* the story ids that may ever be created
    Mode,       \* "sync" or "async", fixed by createRoom
    Grace,      \* HOST_VACANT_GRACE_MS
    Windows,    \* WINDOW_DURATIONS
    MaxTime     \* the clock of a bounded instance stops here

ASSUME VoterAssumption == Creator \in Voter /\ NoVoter \notin Voter
ASSUME ModeAssumption == Mode \in {"sync", "async"}
ASSUME TimeAssumption ==
    Grace \in Nat \ {0} /\ Windows \subseteq Nat \ {0} /\ MaxTime \in Nat

VARIABLES
    roomState,    \* room.state
    hostId,       \* room.host_voter_id
    vacantSince,  \* room.host_vacant_since
    window,       \* room.async_window, by its closesAt
    role,         \* voter.role, "none" while there is no row
    conn,         \* voter.connection_state
    boundTo,      \* the voterId in each socket's attachment
    story,        \* story.state, "absent" while there is no row
    flagged,      \* story.needs_discussion
    ballot,       \* what computeRevealStats makes of the story's vote rows
    tasks,        \* scheduled_task
    alarm,        \* the Durable Object's single alarm
    draining,     \* runDueTasks is between two due tasks
    now           \* Date.now()

roomVars  == <<roomState, hostId, vacantSince, window>>
voterVars == <<role, conn, boundTo>>
storyVars == <<story, flagged, ballot>>
taskVars  == <<tasks, alarm>>
clockVars == <<draining, now>>
vars == <<roomState, hostId, vacantSince, window, role, conn, boundTo,
          story, flagged, ballot, tasks, alarm, draining, now>>

-----------------------------------------------------------------------------
(* Domains.  NoTime is SQL's NULL in a time column.  The states "closing"  *)
(* and "archived" of RoomState are written nowhere in the code.            *)

NoTime    == -1
Time      == Nat \cup {NoTime}
RoomState == {"lobby", "active", "review", "host_vacant"}
Role      == {"none", "host", "voter", "spectator"}
Conn      == {"none", "connected", "left"}
StoryState == {"absent", "pending", "active", "revealed",
               "committed", "skipped", "split"}
(* "blank": the median is null (no votes, or none that is a card of the    *)
(* deck).  "disputed": an outlier or low confidence.  "agreed": neither.   *)
Ballot == {"blank", "agreed", "disputed"}
Task   == [type : {"host_vacant", "async_close"},
           at : Nat, host : Voter \cup {NoVoter}]

-----------------------------------------------------------------------------
(* Reads.                                                                  *)

HostIsLiveExcept(v, closing) ==
    \E s \in Socket \ {closing} : boundTo[s] = v

Live(v) == \E s \in Socket : boundTo[s] = v

(* SI-02: authority is the binding of the socket a message arrives on.     *)
RequireHost == Live(hostId)

ActiveStories == {st \in Story : story[st] = "active"}

StillToDiscuss(states) ==
    \E st \in Story : states[st] = "revealed" /\ flagged[st]

DeriveReclaimRoomState ==
    IF ActiveStories = {} /\ StillToDiscuss(story) THEN "review" ELSE "active"

StoryNeedsDiscussion(b) == b # "agreed"

-----------------------------------------------------------------------------
(* The scheduler: every insert or delete re-aligns the one alarm with the  *)
(* earliest task left.                                                     *)

EarliestOf(ts) == IF ts = {} THEN NoTime ELSE Min({t.at : t \in ts})

(* Mutant: the alarm is set to the task just scheduled.                    *)
ScheduleTask_LastWriterWins(t) ==
    /\ tasks' = tasks \cup {t}
    /\ alarm' = t.at

ScheduleTask(t) ==
    /\ tasks' = tasks \cup {t}
    /\ alarm' = EarliestOf(tasks')

CancelTasksByType(type) ==
    /\ tasks' = {t \in tasks : t.type # type}
    /\ alarm' = EarliestOf(tasks')

-----------------------------------------------------------------------------
(* setRoomHost: the old host becomes a voter, the new one the host, and a  *)
(* vacant room returns to the state its stories call for.                  *)

(* Mutant: the previous host keeps the role.                               *)
SetRoomHost_NoDemotion(v) ==
    /\ role' = [role EXCEPT ![v] = "host"]
    /\ hostId' = v
    /\ vacantSince' = NoTime
    /\ roomState' = IF roomState = "host_vacant"
                    THEN DeriveReclaimRoomState ELSE roomState

SetRoomHost(v) ==
    /\ role' = [role EXCEPT ![hostId] = "voter", ![v] = "host"]
    /\ hostId' = v
    /\ vacantSince' = NoTime
    /\ roomState' = IF roomState = "host_vacant"
                    THEN DeriveReclaimRoomState ELSE roomState

-----------------------------------------------------------------------------
(* createRoom: the creator has a row, marked connected, before any socket. *)

Init ==
    /\ roomState = "lobby"
    /\ hostId = Creator
    /\ vacantSince = NoTime
    /\ window = NoTime
    /\ role = [v \in Voter |-> IF v = Creator THEN "host" ELSE "none"]
    /\ conn = [v \in Voter |-> IF v = Creator THEN "connected" ELSE "none"]
    /\ boundTo = [s \in Socket |-> NoVoter]
    /\ story = [st \in Story |-> "absent"]
    /\ flagged = [st \in Story |-> FALSE]
    /\ ballot = [st \in Story |-> "blank"]
    /\ tasks = {}
    /\ alarm = NoTime
    /\ draining = FALSE
    /\ now = 0

(* Every column holds a value its readers understand: a room state the     *)
(* code writes, a time or NULL, a host that has a voter row.               *)
TypeOK ==
    /\ roomState \in RoomState
    /\ hostId \in Voter
    /\ vacantSince \in Time
    /\ window \in Time
    /\ role \in [Voter -> Role]
    /\ conn \in [Voter -> Conn]
    /\ boundTo \in [Socket -> Voter \cup {NoVoter}]
    /\ story \in [Story -> StoryState]
    /\ flagged \in [Story -> BOOLEAN]
    /\ ballot \in [Story -> Ballot]
    /\ tasks \subseteq Task
    /\ alarm \in Time
    /\ draining \in BOOLEAN
    /\ now \in Nat
=============================================================================
