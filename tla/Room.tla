--------------------------------- MODULE Room ---------------------------------
(***************************************************************************)
(* One room: its handlers, its alarm and the clock.  Messages of different *)
(* sockets arrive in any order and at any time, so every handler may run   *)
(* in any state; a handler that answers with an error writes nothing and   *)
(* is a stutter.  An alarm runs every due task before the next message.    *)
(***************************************************************************)
EXTENDS HostHandlers, StoryHandlers

HostMessage ==
    /\ \/ \E s \in Socket, v \in Voter :
            \/ \E r \in {"voter", "spectator"} : JoinNew(s, v, r)
            \/ JoinResume(s, v)
       \/ \E s \in Socket : ReJoin(s) \/ CloseSocket(s) \/ ClaimHost(s)
       \/ \E v \in Voter : TransferHost(v)
    /\ ~draining
    /\ UNCHANGED clockVars

StoryMessage ==
    /\ \/ \E st \in Story :
            \/ AddStory(st) \/ OpenVoting(st) \/ OpenDiscussion(st)
            \/ RevealVotes(st) \/ CommitStory(st) \/ SkipStory(st)
            \/ \E children \in SUBSET Story : SplitStory(st, children)
            \/ \E s \in Socket, b \in Ballot : CastVote(s, st, b)
       \/ AcceptAgreed
       \/ \E d \in Windows : OpenAsync(d)
    /\ ~draining
    /\ UNCHANGED <<voterVars, clockVars>>

(* runDueTasks, in steps: the alarm is consumed, each due task is          *)
(* dispatched and deleted in the order of its time, the alarm is re-armed. *)
AlarmFires ==
    /\ ~draining
    /\ alarm # NoTime /\ alarm <= now
    /\ alarm' = NoTime
    /\ draining' = TRUE
    /\ UNCHANGED <<roomVars, voterVars, storyVars, tasks, now>>

DispatchTask ==
    /\ draining
    /\ \E t \in tasks :
         /\ t.at <= now
         /\ \A u \in tasks : t.at <= u.at
         /\ tasks' = tasks \ {t}
         /\ \/ /\ t.type = "host_vacant"
               /\ HostVacantFire(t)
               /\ UNCHANGED storyVars
            \/ /\ t.type = "async_close"
               /\ AsyncCloseFire
    /\ UNCHANGED <<voterVars, alarm, clockVars>>

(* Mutant: the alarm is not re-armed after a run.                          *)
AlarmDone_ForgetsTheRest ==
    /\ draining
    /\ \A t \in tasks : t.at > now
    /\ draining' = FALSE
    /\ UNCHANGED <<roomVars, voterVars, storyVars, tasks, alarm, now>>

AlarmDone ==
    /\ draining
    /\ \A t \in tasks : t.at > now
    /\ draining' = FALSE
    /\ alarm' = EarliestOf(tasks)
    /\ UNCHANGED <<roomVars, voterVars, storyVars, tasks, now>>

Tick ==
    /\ ~draining
    /\ now < MaxTime
    /\ now' = now + 1
    /\ UNCHANGED <<roomVars, voterVars, storyVars, taskVars, draining>>

Next == \/ HostMessage \/ StoryMessage
        \/ AlarmFires \/ DispatchTask \/ AlarmDone \/ Tick

Spec == Init /\ [][Next]_vars

(* Time passes, and the platform runs an armed alarm at or some time after *)
(* its time, again until its handler has returned.                         *)
Fairness == /\ WF_vars(Tick)
            /\ WF_vars(AlarmFires)
            /\ WF_vars(DispatchTask)
            /\ WF_vars(AlarmDone)

LiveSpec == Spec /\ Fairness

-----------------------------------------------------------------------------
(* Safety.                                                                 *)

(* Exactly one voter row has the role host, and it is the row that         *)
(* room.host_voter_id names, through every claim, transfer and reclaim.    *)
ExactlyOneHost == \A v \in Voter : role[v] = "host" <=> v = hostId

(* A room in host_vacant has a host with no socket at all and remembers    *)
(* since when: a late task never takes a room from a host who is back, and *)
(* a host who is back never stays locked out of a vacant room.             *)
VacantMeansHostGone ==
    roomState = "host_vacant" => ~Live(hostId) /\ vacantSince # NoTime

(* A voter row says connected only while a socket is bound to the voter,   *)
(* but for the creator before the first visit, who still holds the host's  *)
(* seat: so a transfer, which trusts the row, never names an absent voter. *)
PresenceBacked ==
    \A v \in Voter : conn[v] = "connected" /\ ~Live(v) =>
        v = Creator /\ v = hostId /\ roomState # "host_vacant"

(* The host changes only when the room is vacant or the outgoing host is   *)
(* connected to hand over, and the new host is in the room at that moment: *)
(* a seat is neither overtaken nor handed to somebody who has gone.        *)
HostHandedOver ==
    [][hostId' # hostId => /\ Live(hostId)'
                           /\ roomState = "host_vacant" \/ Live(hostId)]_vars

(* The one alarm is armed for the earliest pending task at all times, but  *)
(* for the instant in which it is being handled: scheduling or cancelling  *)
(* one kind of task never strands another.                                 *)
AlarmCoversTasks ==
    ~draining => \A t \in tasks : alarm # NoTime /\ alarm <= t.at

(* A host whose departure was seen is either away within the grace, with a *)
(* task pending that will declare the vacancy, or has been declared gone:  *)
(* nobody waits for ever for an absent host.  In an asynchronous room this *)
(* ends where the close of a window has written over a declared vacancy,   *)
(* which leaves vacantSince behind.                                        *)
HostAbsenceCovered ==
    /\ Mode = "sync" \/ vacantSince = NoTime
    /\ conn[hostId] = "left" /\ ~Live(hostId)
    =>
        \/ roomState = "host_vacant"
        \/ \E t \in tasks : t.type = "host_vacant" /\ t.host = hostId

(* While no async window is open, at most one story is being voted on:     *)
(* neither the close of a window nor a re-vote leaves two rounds behind.   *)
OneLiveRound ==
    window = NoTime =>
        \A s1, s2 \in ActiveStories : s1 = s2

(* A pending close task is the close of the window that is open now: a     *)
(* leftover task of an earlier window never cuts a later one short.        *)
CloseTaskOwnsWindow ==
    \A t \in tasks : t.type = "async_close" => window = t.at

-----------------------------------------------------------------------------
(* Liveness.                                                               *)

(* Every scheduled task is dispatched or cancelled once its time has come, *)
(* whatever else is scheduled and cancelled meanwhile.                     *)
DueTasksSettle ==
    \A x \in 0..MaxTime :
        (\E t \in tasks : t.at = x) ~> (\A t \in tasks : t.at # x)

(* A room whose host has left becomes claimable, or the host comes back,   *)
(* unless a close has written over the vacancy.  The clock of the instance *)
(* must leave room for the grace.                                          *)
HostAbsenceResolved ==
    (/\ Mode = "sync" \/ vacantSince = NoTime
     /\ conn[hostId] = "left" /\ ~Live(hostId)
     /\ now + Grace <= MaxTime)
        ~> (roomState = "host_vacant" \/ Live(hostId))

-----------------------------------------------------------------------------
(* What comments of the code say of it and some behaviour refutes.         *)

(* hostVacantSince is "set when the host disconnects; cleared on reclaim": *)
(* a room whose host is back does not still say since when it was vacant.  *)
VacantSinceCleared == vacantSince # NoTime => ~Live(hostId)

(* needsDiscussion is "absent ... on unrevealed stories": a story that is  *)
(* being voted on does not carry the discuss flag.                         *)
FlagOnlyWhenRevealed == \A st \in ActiveStories : ~flagged[st]

(* The close alarm drops the window "alongside the state flip", so that no *)
(* window outlives its close: an open window has its close task pending.   *)
OpenWindowWillClose ==
    window # NoTime =>
        \E t \in tasks : t.type = "async_close" /\ t.at = window

(* "A JOINed socket has connection_state='connected'".                     *)
LiveMeansConnected == \A v \in Voter : Live(v) => conn[v] = "connected"

-----------------------------------------------------------------------------
(* A synchronous room implements HostAuthority: present are the voters     *)
(* with a socket.                                                          *)

HA == INSTANCE HostAuthority WITH
        host <- hostId,
        vacant <- roomState = "host_vacant",
        present <- {v \in Voter : Live(v)}

(* Every message, close and alarm of a synchronous room is a step of the   *)
(* abstract host seat or leaves it alone.                                  *)
ImplementsHostAuthority == HA!Spec
=============================================================================
