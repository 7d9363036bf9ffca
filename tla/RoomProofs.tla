------------------------------ MODULE RoomProofs ------------------------------
(***************************************************************************)
(* Proofs about Room for any voters, sockets, stories, grace, windows and  *)
(* bound on time: type correctness, the safety invariants of the host seat *)
(* and of the rounds, and the implementation of HostAuthority.             *)
(***************************************************************************)
EXTENDS Room, TLAPS, WellFoundedInduction

USE DEF NoTime

-----------------------------------------------------------------------------
(* The earliest of a set of tasks.                                         *)

Less == {ss \in Nat \X Nat : ss[1] < ss[2]}

(* The order of the natural numbers is well founded.                       *)
LEMMA LessWellFounded == IsWellFoundedOn(Less, Nat)
<1>1. Less = OpToRel(<, Nat)
  BY Zenon DEF OpToRel, Less
<1> QED  BY <1>1, NatLessThanWellFounded, Zenon

(* Min is the least member of a set of times.                              *)
LEMMA NatSetHasMin ==
    ASSUME NEW S \in SUBSET Nat, S # {}
    PROVE  Min(S) \in S /\ \A x \in S : Min(S) <= x
<1>1. PICK x \in S : \A y \in S : ~ (<<y, x>> \in Less)
  BY LessWellFounded, WFMin
<1>2. ASSUME NEW y \in S PROVE x <= y
  <2>1. <<y, x>> \notin Less
    BY <1>1
  <2>2. ~ (y < x)
    BY <2>1 DEF Less
  <2> QED  BY <2>2
<1>3. \E z \in S : \A y \in S : z <= y
  BY <1>2
<1> QED  BY <1>3 DEF Min

(* What rescheduleAlarm arms is a time no later than any pending task.     *)
LEMMA EarliestOfBounds ==
    ASSUME NEW ts \in SUBSET Task
    PROVE  /\ EarliestOf(ts) \in Time
           /\ \A t \in ts : EarliestOf(ts) # NoTime /\ EarliestOf(ts) <= t.at
<1>1. CASE ts = {}
  BY <1>1 DEF EarliestOf, Time
<1>2. CASE ts # {}
  <2> DEFINE S == {t.at : t \in ts}
  <2>1. S \in SUBSET Nat /\ S # {}
    BY <1>2 DEF Task
  <2>2. Min(S) \in S /\ \A x \in S : Min(S) <= x
    BY <2>1, NatSetHasMin
  <2>3. EarliestOf(ts) = Min(S)
    BY <1>2 DEF EarliestOf
  <2>4. Min(S) \in Nat
    BY <2>1, <2>2
  <2>5. \A t \in ts : Min(S) <= t.at
    BY <2>2
  <2> QED  BY <2>3, <2>4, <2>5 DEF Time
<1> QED  BY <1>1, <1>2

-----------------------------------------------------------------------------
(* Type correctness.  A vacancy task is due no earlier than a grace after  *)
(* the epoch, so the disconnect time it carries is a time.                 *)

VacancyTaskDue == \A t \in tasks : t.type = "host_vacant" => t.at >= Grace

TypeInv == TypeOK /\ VacancyTaskDue

(* The room that createRoom writes is well typed and has no tasks.         *)
LEMMA InitTypeInv == Init => TypeInv
<1> SUFFICES ASSUME Init PROVE TypeInv
  OBVIOUS
<1>1. flagged \in [Story -> BOOLEAN] /\ draining \in BOOLEAN
  BY Zenon DEF Init
<1> QED  BY <1>1, VoterAssumption
         DEF Init, TypeInv, TypeOK, VacancyTaskDue, RoomState, Time, Role,
             Conn, StoryState, Ballot

(* The lifecycle block of a join writes well-typed values and adds no      *)
(* task.                                                                   *)
LEMMA HostReturnsType ==
    ASSUME TypeInv, NEW v \in Voter, HostReturns(v)
    PROVE  /\ roomState' \in RoomState /\ hostId' \in Voter
           /\ vacantSince' \in Time /\ role' \in [Voter -> Role]
           /\ tasks' \subseteq tasks /\ alarm' \in Time
<1>1. CASE /\ CancelTasksByType("host_vacant")
           /\ \/ UNCHANGED <<roomState, hostId, vacantSince, role>>
              \/ SetRoomHost(v)
  <2>1. tasks' \in SUBSET Task /\ tasks' \subseteq tasks
    BY <1>1 DEF TypeInv, TypeOK, CancelTasksByType
  <2>2. alarm' \in Time
    BY <1>1, <2>1, EarliestOfBounds DEF CancelTasksByType
  <2>3. /\ roomState' \in RoomState /\ hostId' \in Voter
        /\ vacantSince' \in Time /\ role' \in [Voter -> Role]
    BY <1>1 DEF TypeInv, TypeOK, SetRoomHost, DeriveReclaimRoomState,
                RoomState, Time, Role
  <2> QED  BY <2>1, <2>2, <2>3
<1>2. CASE UNCHANGED <<roomState, hostId, vacantSince, role, tasks, alarm>>
  BY <1>2 DEF TypeInv, TypeOK
<1> QED  BY <1>1, <1>2, Zenon DEF HostReturns

(* scheduleTask keeps the task table and the alarm well typed.             *)
LEMMA ScheduleType ==
    ASSUME TypeInv, NEW t \in Task, ScheduleTask(t)
    PROVE  tasks' \subseteq Task /\ alarm' \in Time
<1>1. tasks' \in SUBSET Task
  BY DEF ScheduleTask, TypeInv, TypeOK
<1> QED  BY <1>1, EarliestOfBounds DEF ScheduleTask

(* Joins, closes, claims and transfers keep every column well typed.       *)
LEMMA HostMessageType == TypeInv /\ HostMessage => TypeInv'
<1> SUFFICES ASSUME TypeInv, HostMessage PROVE TypeInv'
  OBVIOUS
<1> USE DEF clockVars, roomVars, voterVars, storyVars, taskVars
<1>1. ASSUME NEW s \in Socket, NEW v \in Voter,
             NEW r \in {"voter", "spectator"}, JoinNew(s, v, r)
      PROVE  TypeInv'
  BY <1>1 DEF HostMessage, JoinNew, AddVoter, TypeInv, TypeOK,
              VacancyTaskDue, Role, Conn
<1>2. ASSUME NEW s \in Socket, NEW v \in Voter, JoinResume(s, v)
      PROVE  TypeInv'
  BY <1>2, HostReturnsType
  DEF HostMessage, JoinResume, ResumeVoter, TypeInv, TypeOK, VacancyTaskDue,
      Conn
<1>3. ASSUME NEW s \in Socket, ReJoin(s)
      PROVE  TypeInv'
  <2>1. boundTo[s] \in Voter
    BY <1>3 DEF ReJoin, TypeInv, TypeOK
  <2> QED  BY <1>3, <2>1, HostReturnsType
           DEF HostMessage, ReJoin, TypeInv, TypeOK, VacancyTaskDue
<1>4. ASSUME NEW s \in Socket, CloseSocket(s)
      PROVE  TypeInv'
  <2> DEFINE v == boundTo[s]
             t == [type |-> "host_vacant", at |-> now + Grace, host |-> v]
  <2>1. v \in Voter
    BY <1>4 DEF CloseSocket, TypeInv, TypeOK
  <2>2. /\ conn' = [conn EXCEPT ![v] = "left"]
        /\ boundTo' = [boundTo EXCEPT ![s] = NoVoter]
        /\ UNCHANGED <<role, roomVars, storyVars, clockVars>>
    BY <1>4 DEF CloseSocket, HostMessage
  <2>3. t \in Task /\ t.at >= Grace
    BY <2>1, TimeAssumption DEF Task, TypeInv, TypeOK
  <2>4. tasks' \subseteq Task /\ alarm' \in Time /\ VacancyTaskDue'
    <3>1. CASE ScheduleTask(t)
      <4>1. tasks' \subseteq Task /\ alarm' \in Time
        BY <2>3, <3>1, ScheduleType
      <4>2. VacancyTaskDue'
        BY <2>3, <3>1 DEF ScheduleTask, TypeInv, VacancyTaskDue
      <4> QED  BY <4>1, <4>2
    <3>2. CASE UNCHANGED taskVars
      BY <3>2 DEF TypeInv, TypeOK, VacancyTaskDue
    <3> QED  BY <1>4, <3>1, <3>2 DEF CloseSocket
  <2> HIDE DEF v, t
  <2> QED  BY <2>1, <2>2, <2>4 DEF TypeInv, TypeOK, Conn
<1>5. ASSUME NEW s \in Socket, ClaimHost(s)
      PROVE  TypeInv'
  <2>1. boundTo[s] \in Voter
    BY <1>5 DEF ClaimHost, TypeInv, TypeOK
  <2> QED  BY <1>5, <2>1
           DEF HostMessage, ClaimHost, SetRoomHost, DeriveReclaimRoomState,
               TypeInv, TypeOK, VacancyTaskDue, RoomState, Time, Role
<1>6. ASSUME NEW v \in Voter, TransferHost(v)
      PROVE  TypeInv'
  BY <1>6
  DEF HostMessage, TransferHost, SetRoomHost, DeriveReclaimRoomState,
      TypeInv, TypeOK, VacancyTaskDue, RoomState, Time, Role
<1> QED  BY <1>1, <1>2, <1>3, <1>4, <1>5, <1>6 DEF HostMessage

(* The commands on stories keep every column well typed.                   *)
LEMMA StoryMessageType == TypeInv /\ StoryMessage => TypeInv'
<1> SUFFICES ASSUME TypeInv, StoryMessage PROVE TypeInv'
  OBVIOUS
<1> USE DEF clockVars, roomVars, voterVars, storyVars, taskVars
<1>1. ASSUME NEW st \in Story,
             \/ AddStory(st) \/ RevealVotes(st) \/ SkipStory(st)
             \/ CommitStory(st)
      PROVE  TypeInv'
  BY <1>1 DEF StoryMessage, AddStory, AddStoryRow, RevealVotes, RevealRow,
              SkipStory, SkipRow, CommitStory, CommitRow, MaybeReturnToReview,
              TypeInv, TypeOK, VacancyTaskDue, RoomState, StoryState
<1>2. ASSUME NEW st \in Story, OpenVoting(st) \/ OpenDiscussion(st)
      PROVE  TypeInv'
  BY <1>2 DEF StoryMessage, OpenVoting, OpenDiscussion, OpenVotingRow, TypeInv,
              TypeOK, VacancyTaskDue, RoomState, StoryState, Ballot
<1>3. ASSUME NEW st \in Story, NEW children \in SUBSET Story,
             SplitStory(st, children)
      PROVE  TypeInv'
  BY <1>3 DEF StoryMessage, SplitStory, SplitRows, TypeInv, TypeOK,
              VacancyTaskDue,
              StoryState
<1>4. ASSUME NEW st \in Story, NEW s \in Socket, NEW b \in Ballot,
             CastVote(s, st, b)
      PROVE  TypeInv'
  BY <1>4 DEF StoryMessage, CastVote, CastVoteRow, TypeInv, TypeOK,
              VacancyTaskDue
<1>5. CASE AcceptAgreed
  BY <1>5 DEF StoryMessage, AcceptAgreed, TypeInv, TypeOK, VacancyTaskDue,
              StoryState
<1>6. ASSUME NEW d \in Windows, OpenAsync(d)
      PROVE  TypeInv'
  <2> DEFINE t == [type |-> "async_close", at |-> now + d, host |-> NoVoter]
  <2>1. /\ story' = [st \in Story |->
                       IF story[st] = "pending" THEN "active" ELSE story[st]]
        /\ window' = now + d
        /\ roomState' = "active"
        /\ ScheduleTask(t)
        /\ UNCHANGED <<hostId, vacantSince, flagged, ballot, voterVars,
                       clockVars>>
    BY <1>6 DEF OpenAsync, OpenAsyncRows, StoryMessage
  <2>2. t \in Task /\ t.type # "host_vacant" /\ now + d \in Time
    BY TimeAssumption DEF Task, Time, TypeInv, TypeOK
  <2>3. tasks' \subseteq Task /\ alarm' \in Time
    BY <2>1, <2>2, ScheduleType
  <2>4. VacancyTaskDue'
    BY <2>1, <2>2 DEF ScheduleTask, TypeInv, VacancyTaskDue
  <2> HIDE DEF t
  <2> QED  BY <2>1, <2>2, <2>3, <2>4
           DEF TypeInv, TypeOK, StoryState, RoomState
<1> QED  BY <1>1, <1>2, <1>3, <1>4, <1>5, <1>6 DEF StoryMessage

(* The two tasks keep every column well typed; the vacancy time is no time *)
(* before the epoch.                                                       *)
LEMMA DispatchTaskType == TypeInv /\ DispatchTask => TypeInv'
<1> SUFFICES ASSUME TypeInv, DispatchTask PROVE TypeInv'
  OBVIOUS
<1> USE DEF clockVars, roomVars, voterVars, storyVars
<1>1. PICK t \in tasks :
        /\ tasks' = tasks \ {t}
        /\ \/ /\ t.type = "host_vacant"
              /\ HostVacantFire(t)
              /\ UNCHANGED storyVars
           \/ /\ t.type = "async_close"
              /\ AsyncCloseFire
        /\ UNCHANGED <<voterVars, alarm, clockVars>>
  BY DEF DispatchTask
<1>2. tasks' \subseteq Task /\ VacancyTaskDue'
  BY <1>1 DEF TypeInv, TypeOK, VacancyTaskDue
<1>3. CASE t.type = "host_vacant" /\ HostVacantFire(t) /\ UNCHANGED storyVars
  <2>1. t.at - Grace \in Nat
    BY <1>1, <1>3, TimeAssumption DEF TypeInv, TypeOK, VacancyTaskDue, Task
  <2> QED  BY <1>1, <1>2, <1>3, <2>1
           DEF HostVacantFire, TypeInv, TypeOK, RoomState, Time
<1>4. CASE AsyncCloseFire
  <2>1. flagged' \in [Story -> BOOLEAN]
    BY <1>4 DEF AsyncCloseFire, CloseAsyncRows, StoryNeedsDiscussion,
                TypeInv, TypeOK
  <2>2. story' \in [Story -> StoryState]
    BY <1>4 DEF AsyncCloseFire, CloseAsyncRows, TypeInv, TypeOK, StoryState
  <2> QED  BY <1>1, <1>2, <1>4, <2>1, <2>2
           DEF AsyncCloseFire, CloseAsyncRows, TypeInv, TypeOK, RoomState, Time
<1> QED  BY <1>1, <1>3, <1>4

(* The alarm and the clock keep every column well typed.                   *)
LEMMA ClockType == TypeInv /\ (AlarmFires \/ AlarmDone \/ Tick) => TypeInv'
<1> SUFFICES ASSUME TypeInv, AlarmFires \/ AlarmDone \/ Tick PROVE TypeInv'
  OBVIOUS
<1> USE DEF roomVars, voterVars, storyVars, taskVars, TypeInv, TypeOK,
            VacancyTaskDue
<1>1. CASE AlarmFires
  <2>1. draining' \in BOOLEAN
    BY <1>1, Zenon DEF AlarmFires
  <2> QED  BY <1>1, <2>1 DEF AlarmFires, Time
<1>2. CASE AlarmDone
  <2>1. draining' \in BOOLEAN
    BY <1>2, Zenon DEF AlarmDone
  <2>2. alarm' \in Time
    BY <1>2, EarliestOfBounds DEF AlarmDone
  <2> QED  BY <1>2, <2>1, <2>2 DEF AlarmDone
<1>3. CASE Tick
  BY <1>3 DEF Tick
<1> QED  BY <1>1, <1>2, <1>3

(* TypeInv is inductive.                                                   *)
LEMMA TypeStep == TypeInv /\ [Next]_vars => TypeInv'
<1> SUFFICES ASSUME TypeInv, [Next]_vars PROVE TypeInv'
  OBVIOUS
<1>1. CASE UNCHANGED vars
  BY <1>1 DEF vars, TypeInv, TypeOK, VacancyTaskDue
<1> QED  BY <1>1, HostMessageType, StoryMessageType, DispatchTaskType,
            ClockType DEF Next

(* Every column of the room's tables holds a value its readers understand  *)
(* in every reachable state: no handler and no alarm writes another one.   *)
THEOREM TypeCorrect == Spec => []TypeOK
<1>1. TypeInv => TypeOK
  BY DEF TypeInv
<1> QED  BY <1>1, InitTypeInv, TypeStep, PTL DEF Spec

-----------------------------------------------------------------------------
(* The host's seat.  ExactlyOneHost is inductive only together with the    *)
(* link between the voter rows and the sockets (RowsExist), and            *)
(* VacantMeansHostGone and PresenceBacked only together with each other:   *)
(* the voter that a row calls connected without a socket is the creator    *)
(* before the first visit, for whom no vacancy task exists yet.            *)

RowsExist ==
    /\ \A v \in Voter : role[v] = "none" <=> conn[v] = "none"
    /\ \A s \in Socket : boundTo[s] # NoVoter => role[boundTo[s]] # "none"

NoTaskForGhost ==
    \A v \in Voter : conn[v] = "connected" /\ ~Live(v) =>
        \A t \in tasks : ~ (t.type = "host_vacant" /\ t.host = v)

SeatInv == /\ TypeInv
           /\ ExactlyOneHost
           /\ RowsExist
           /\ VacantMeansHostGone
           /\ PresenceBacked
           /\ NoTaskForGhost

(* The room that createRoom writes has its creator as the one host, with   *)
(* no socket yet.                                                          *)
LEMMA InitSeatInv == Init => SeatInv
  BY InitTypeInv, VoterAssumption
  DEF SeatInv, Init, ExactlyOneHost, RowsExist, VacantMeansHostGone,
      PresenceBacked, NoTaskForGhost, Live

(* Binding a fresh socket makes its voter live and no one else.            *)
LEMMA LiveAfterJoin ==
    ASSUME TypeOK, NEW s \in Socket, NEW v \in Voter, boundTo[s] = NoVoter,
           boundTo' = [boundTo EXCEPT ![s] = v]
    PROVE  \A w \in Voter : Live(w)' <=> (w = v \/ Live(w))
  BY VoterAssumption DEF TypeOK, Live

(* Closing a socket takes liveness from its voter only, and only if it had *)
(* no other socket.                                                        *)
LEMMA LiveAfterClose ==
    ASSUME TypeOK, NEW s \in Socket, NEW v \in Voter, boundTo[s] = v,
           boundTo' = [boundTo EXCEPT ![s] = NoVoter]
    PROVE  \A w \in Voter : Live(w)' <=>
                IF w = v THEN HostIsLiveExcept(v, s) ELSE Live(w)
  BY VoterAssumption DEF TypeOK, Live, HostIsLiveExcept

(* setRoomHost leaves exactly one host and never a vacant room.            *)
LEMMA SetRoomHostSeats ==
    ASSUME TypeOK, ExactlyOneHost, NEW v \in Voter, SetRoomHost(v)
    PROVE  /\ ExactlyOneHost'
           /\ hostId' = v
           /\ roomState' # "host_vacant"
           /\ \A w \in Voter : role[w] = "none" /\ w # v <=> role'[w] = "none"
  BY DEF TypeOK, ExactlyOneHost, SetRoomHost, DeriveReclaimRoomState, Role

(* The lifecycle block of a join keeps the host and ends any vacancy of    *)
(* theirs.                                                                 *)
LEMMA HostReturnsSeats ==
    ASSUME TypeOK, ExactlyOneHost, NEW v \in Voter, HostReturns(v)
    PROVE  /\ ExactlyOneHost'
           /\ hostId' = hostId
           /\ tasks' \subseteq tasks
           /\ \A w \in Voter : role[w] = "none" <=> role'[w] = "none"
           /\ v = hostId => roomState' # "host_vacant"
           /\ v # hostId => UNCHANGED <<roomState, vacantSince, tasks>>
<1>1. CASE v = hostId /\ SetRoomHost(v) /\ CancelTasksByType("host_vacant")
  BY <1>1, SetRoomHostSeats DEF CancelTasksByType, ExactlyOneHost
<1>2. CASE /\ v = hostId /\ roomState = "active"
           /\ CancelTasksByType("host_vacant")
           /\ UNCHANGED <<roomState, hostId, vacantSince, role>>
  BY <1>2 DEF CancelTasksByType, ExactlyOneHost
<1>3. CASE /\ v = hostId => roomState \in {"lobby", "review"}
           /\ UNCHANGED <<roomState, hostId, vacantSince, role, tasks, alarm>>
  BY <1>3 DEF ExactlyOneHost
<1> QED  BY <1>1, <1>2, <1>3 DEF HostReturns

(* A newcomer does not touch the seat, and is backed by the socket that    *)
(* joined.                                                                 *)
LEMMA JoinNewSeat ==
    ASSUME SeatInv, TypeInv', NEW s \in Socket, NEW v \in Voter,
           NEW r \in {"voter", "spectator"}, JoinNew(s, v, r)
    PROVE  SeatInv'
<1> USE DEF SeatInv, TypeInv, roomVars, taskVars
<1>1. \A w \in Voter : Live(w)' <=> (w = v \/ Live(w))
  BY LiveAfterJoin DEF JoinNew, AddVoter
<1>2. v # hostId
  BY DEF JoinNew, AddVoter, ExactlyOneHost
<1>3. ExactlyOneHost' /\ RowsExist'
  BY <1>2, VoterAssumption DEF JoinNew, AddVoter, ExactlyOneHost, RowsExist,
                               TypeOK
<1>4. VacantMeansHostGone' /\ PresenceBacked' /\ NoTaskForGhost'
  BY <1>1, <1>2
  DEF JoinNew, AddVoter, VacantMeansHostGone, PresenceBacked, NoTaskForGhost,
      TypeOK
<1> QED  BY <1>3, <1>4

(* A voter who comes back is backed by a socket, and ends the vacancy of   *)
(* their own seat only.                                                    *)
LEMMA JoinResumeSeat ==
    ASSUME SeatInv, TypeInv', NEW s \in Socket, NEW v \in Voter,
           JoinResume(s, v)
    PROVE  SeatInv'
<1> USE DEF SeatInv, TypeInv
<1>1. \A w \in Voter : Live(w)' <=> (w = v \/ Live(w))
  BY LiveAfterJoin DEF JoinResume, ResumeVoter
<1>2. /\ ExactlyOneHost' /\ hostId' = hostId /\ tasks' \subseteq tasks
      /\ \A w \in Voter : role[w] = "none" <=> role'[w] = "none"
      /\ v = hostId => roomState' # "host_vacant"
      /\ v # hostId => UNCHANGED <<roomState, vacantSince, tasks>>
  BY HostReturnsSeats DEF JoinResume, ResumeVoter
<1>3. RowsExist'
  BY <1>2, VoterAssumption DEF JoinResume, ResumeVoter, RowsExist, TypeOK
<1>4. VacantMeansHostGone'
  BY <1>1, <1>2 DEF VacantMeansHostGone, TypeOK
<1>5. PresenceBacked' /\ NoTaskForGhost'
  BY <1>1, <1>2 DEF JoinResume, ResumeVoter, PresenceBacked, NoTaskForGhost,
                    TypeOK
<1> QED  BY <1>2, <1>3, <1>4, <1>5

(* A second JOIN_ROOM on a bound socket changes no presence.               *)
LEMMA ReJoinSeat ==
    ASSUME SeatInv, TypeInv', NEW s \in Socket, ReJoin(s)
    PROVE  SeatInv'
<1> USE DEF SeatInv, TypeInv
<1> DEFINE v == boundTo[s]
<1>1. v \in Voter /\ Live(v)
  BY DEF ReJoin, TypeOK, Live
<1>2. /\ ExactlyOneHost' /\ hostId' = hostId /\ tasks' \subseteq tasks
      /\ \A w \in Voter : role[w] = "none" <=> role'[w] = "none"
      /\ v = hostId => roomState' # "host_vacant"
      /\ v # hostId => UNCHANGED <<roomState, vacantSince, tasks>>
  BY <1>1, HostReturnsSeats DEF ReJoin
<1>3. UNCHANGED <<conn, boundTo>> /\ \A w \in Voter : Live(w)' <=> Live(w)
  BY DEF ReJoin, Live
<1>4. RowsExist'
  BY <1>2, <1>3 DEF RowsExist, TypeOK
<1>5. VacantMeansHostGone'
  BY <1>1, <1>2, <1>3 DEF VacantMeansHostGone, TypeOK
<1>6. PresenceBacked' /\ NoTaskForGhost'
  BY <1>1, <1>2, <1>3 DEF PresenceBacked, NoTaskForGhost
<1> QED  BY <1>2, <1>4, <1>5, <1>6

(* A close makes the row say left, also when another socket remains, so no *)
(* row is left without a socket.                                           *)
LEMMA CloseSocketSeat ==
    ASSUME SeatInv, TypeInv', NEW s \in Socket, CloseSocket(s)
    PROVE  SeatInv'
<1> USE DEF SeatInv, TypeInv
<1> DEFINE v == boundTo[s]
<1>1. v \in Voter /\ Live(v)
  BY DEF CloseSocket, TypeOK, Live
<1>2. /\ conn' = [conn EXCEPT ![v] = "left"]
      /\ boundTo' = [boundTo EXCEPT ![s] = NoVoter]
      /\ UNCHANGED <<role, roomState, hostId, vacantSince>>
      /\ \A t \in tasks' \ tasks : t.host = v
  BY DEF CloseSocket, roomVars, taskVars, ScheduleTask
<1>3. \A w \in Voter : Live(w)' => Live(w)
  BY <1>1, <1>2, LiveAfterClose
<1>4. \A w \in Voter : w # v => (Live(w)' <=> Live(w)) /\ conn'[w] = conn[w]
  BY <1>1, <1>2, LiveAfterClose DEF TypeOK
<1>5. conn'[v] = "left"
  BY <1>1, <1>2 DEF TypeOK
<1>6. ExactlyOneHost' /\ RowsExist'
  BY <1>1, <1>2, VoterAssumption DEF ExactlyOneHost, RowsExist, TypeOK
<1>7. VacantMeansHostGone' /\ PresenceBacked' /\ NoTaskForGhost'
  BY <1>1, <1>2, <1>3, <1>4, <1>5
  DEF VacantMeansHostGone, PresenceBacked, NoTaskForGhost, TypeOK
<1> QED  BY <1>6, <1>7

(* A claim is made by a bound socket, whose voter becomes the one host.    *)
LEMMA ClaimHostSeat ==
    ASSUME SeatInv, TypeInv', NEW s \in Socket, ClaimHost(s)
    PROVE  SeatInv'
<1> USE DEF SeatInv, TypeInv
<1> DEFINE v == boundTo[s]
<1>1. v \in Voter /\ Live(v)
  BY DEF ClaimHost, TypeOK, Live
<1>2. /\ ExactlyOneHost' /\ hostId' = v /\ roomState' # "host_vacant"
      /\ \A w \in Voter : role[w] = "none" /\ w # v <=> role'[w] = "none"
  BY <1>1, SetRoomHostSeats DEF ClaimHost
<1>3. UNCHANGED <<conn, boundTo,
tasks>> /\ \A w \in Voter : Live(w)' <=> Live(w)
  BY DEF ClaimHost, taskVars, Live
<1>4. RowsExist'
  BY <1>1, <1>2, <1>3, VoterAssumption DEF RowsExist, TypeOK, Live
<1>5. \A w \in Voter : ~ (conn[w] = "connected" /\ ~Live(w))
  BY DEF ClaimHost, PresenceBacked
<1>6. VacantMeansHostGone' /\ PresenceBacked' /\ NoTaskForGhost'
  BY <1>2, <1>3, <1>5 DEF VacantMeansHostGone, PresenceBacked, NoTaskForGhost
<1> QED  BY <1>2, <1>4, <1>6

(* The target of a transfer is live: its row says connected, and the only  *)
(* row that may say so in vain is the host's own.                          *)
LEMMA TransferTargetIsLive ==
    ASSUME SeatInv, NEW v \in Voter, TransferHost(v)
    PROVE  Live(v) /\ conn[v] = "connected"
<1>1. conn[v] = "connected"
  BY DEF TransferHost, SeatInv, RowsExist, TypeInv, TypeOK, Conn
<1> QED  BY <1>1 DEF TransferHost, SeatInv, PresenceBacked

(* A transfer moves the seat to a live voter.                              *)
LEMMA TransferHostSeat ==
    ASSUME SeatInv, TypeInv', NEW v \in Voter, TransferHost(v)
    PROVE  SeatInv'
<1> USE DEF SeatInv, TypeInv
<1>1. Live(v) /\ Live(hostId)
  BY TransferTargetIsLive DEF TransferHost, RequireHost
<1>2. /\ ExactlyOneHost' /\ hostId' = v /\ roomState' # "host_vacant"
      /\ \A w \in Voter : role[w] = "none" /\ w # v <=> role'[w] = "none"
  BY SetRoomHostSeats DEF TransferHost
<1>3. UNCHANGED <<conn, boundTo,
tasks>> /\ \A w \in Voter : Live(w)' <=> Live(w)
  BY DEF TransferHost, taskVars, Live
<1>4. RowsExist'
  BY <1>2, <1>3 DEF TransferHost, RowsExist, TypeOK
<1>5. \A w \in Voter : ~ (conn[w] = "connected" /\ ~Live(w))
  BY <1>1 DEF PresenceBacked
<1>6. VacantMeansHostGone' /\ PresenceBacked' /\ NoTaskForGhost'
  BY <1>2, <1>3, <1>5 DEF VacantMeansHostGone, PresenceBacked, NoTaskForGhost
<1> QED  BY <1>2, <1>4, <1>6

(* A step that leaves the voters alone, makes no room vacant and schedules *)
(* no vacancy keeps the seat as it is.                                     *)
LEMMA SeatUntouched ==
    ASSUME SeatInv, TypeInv', UNCHANGED <<hostId, vacantSince, voterVars>>,
           roomState' = "host_vacant" => roomState = "host_vacant",
           \A t \in tasks' : t.type = "host_vacant" => t \in tasks
    PROVE  SeatInv'
<1> USE DEF SeatInv, TypeInv, voterVars
<1>1. UNCHANGED <<role, conn, boundTo>> /\ \A w \in Voter : Live(w)' <=> Live(w)
  BY DEF Live
<1>2. ExactlyOneHost' /\ RowsExist'
  BY <1>1 DEF ExactlyOneHost, RowsExist
<1>3. VacantMeansHostGone' /\ PresenceBacked' /\ NoTaskForGhost'
  BY <1>1 DEF VacantMeansHostGone, PresenceBacked, NoTaskForGhost, TypeOK
<1> QED  BY <1>2, <1>3

(* What the story commands leave alone of the seat and of its tasks.       *)
LEMMA StoryMessageKeepsSeat ==
    ASSUME StoryMessage
    PROVE  /\ UNCHANGED <<hostId, vacantSince, voterVars>>
           /\ roomState' = "host_vacant" => roomState = "host_vacant"
           /\ \A t \in tasks' : t.type = "host_vacant" => t \in tasks
  BY DEF StoryMessage, AddStory, AddStoryRow, OpenVoting, OpenDiscussion,
         OpenVotingRow,
         RevealVotes, RevealRow, CommitStory, CommitRow, MaybeReturnToReview,
         SkipStory, SkipRow, SplitStory, SplitRows, CastVote, CastVoteRow,
         AcceptAgreed, OpenAsync, OpenAsyncRows, ScheduleTask, roomVars,
         taskVars

(* Joins, closes, claims and transfers preserve SeatInv.                   *)
LEMMA HostMessageSeat == SeatInv /\ HostMessage => SeatInv'
<1> SUFFICES ASSUME SeatInv, HostMessage PROVE SeatInv'
  OBVIOUS
<1>1. TypeInv'
  BY HostMessageType DEF SeatInv
<1> QED  BY <1>1, JoinNewSeat, JoinResumeSeat, ReJoinSeat, CloseSocketSeat,
            ClaimHostSeat, TransferHostSeat DEF HostMessage

(* A vacancy is declared only of a host without a socket; a window that    *)
(* closes leaves the seat alone.                                           *)
LEMMA DispatchTaskSeat == SeatInv /\ DispatchTask => SeatInv'
<1> SUFFICES ASSUME SeatInv, DispatchTask PROVE SeatInv'
  OBVIOUS
<1>1. TypeInv'
  BY DispatchTaskType DEF SeatInv
<1>2. PICK t \in tasks :
        /\ tasks' = tasks \ {t}
        /\ \/ /\ t.type = "host_vacant"
              /\ HostVacantFire(t)
           \/ /\ t.type = "async_close"
              /\ AsyncCloseFire
        /\ UNCHANGED voterVars
  BY DEF DispatchTask
<1>3. CASE AsyncCloseFire \/ UNCHANGED roomVars
  BY <1>1, <1>2, <1>3, SeatUntouched DEF AsyncCloseFire, CloseAsyncRows,
                                         roomVars
<1>4. CASE /\ t.type = "host_vacant" /\ hostId = t.host /\ ~Live(t.host)
           /\ roomState' = "host_vacant" /\ vacantSince' = t.at - Grace
           /\ UNCHANGED <<hostId, window>>
  <2> USE DEF SeatInv, TypeInv, voterVars
  <2>1. /\ UNCHANGED <<role, conn, boundTo>>
        /\ \A w \in Voter : Live(w)' <=> Live(w)
    BY <1>2 DEF Live
  <2>2. vacantSince' # NoTime
    BY <1>2, <1>4, TimeAssumption DEF VacancyTaskDue, TypeOK, Task
  <2>3. ExactlyOneHost' /\ RowsExist'
    BY <1>4, <2>1 DEF ExactlyOneHost, RowsExist
  <2>4. VacantMeansHostGone'
    BY <1>4, <2>1, <2>2 DEF VacantMeansHostGone, TypeOK
  <2>5. PresenceBacked' /\ NoTaskForGhost'
    BY <1>2, <1>4, <2>1 DEF PresenceBacked, NoTaskForGhost
  <2> QED  BY <1>1, <2>3, <2>4, <2>5
<1> QED  BY <1>2, <1>3, <1>4 DEF HostVacantFire

(* SeatInv is inductive.                                                   *)
LEMMA SeatStep == SeatInv /\ [Next]_vars => SeatInv'
<1> SUFFICES ASSUME SeatInv, [Next]_vars PROVE SeatInv'
  OBVIOUS
<1>1. TypeInv'
  BY TypeStep DEF SeatInv
<1>2. CASE StoryMessage
  BY <1>1, <1>2, StoryMessageKeepsSeat, SeatUntouched
<1>3. CASE AlarmFires \/ AlarmDone \/ Tick \/ UNCHANGED vars
  BY <1>1, <1>3, SeatUntouched
  DEF AlarmFires, AlarmDone, Tick, vars, roomVars, voterVars, taskVars
<1> QED  BY <1>2, <1>3, HostMessageSeat, DispatchTaskSeat DEF Next

(* SeatInv holds in every reachable state.                                 *)
LEMMA SeatAlways == Spec => []SeatInv
  BY InitSeatInv, SeatStep, PTL DEF Spec

(* The row that room.host_voter_id names is the only one with the role     *)
(* host, for ever: no order of claims, transfers, reconnects and alarms    *)
(* makes two hosts or none.                                                *)
THEOREM OneHostAlways == Spec => []ExactlyOneHost
<1>1. SeatInv => ExactlyOneHost
  BY DEF SeatInv
<1> QED  BY <1>1, SeatAlways, PTL

(* The room is in host_vacant only while its host has no socket: no late   *)
(* vacancy task takes the seat from a host who came back in time.          *)
THEOREM VacancyIsReal == Spec => []VacantMeansHostGone
<1>1. SeatInv => VacantMeansHostGone
  BY DEF SeatInv
<1> QED  BY <1>1, SeatAlways, PTL

(* A voter row that says connected is backed by a socket, but for the      *)
(* creator's before the first visit.                                       *)
THEOREM PresenceIsBacked == Spec => []PresenceBacked
<1>1. SeatInv => PresenceBacked
  BY DEF SeatInv
<1> QED  BY <1>1, SeatAlways, PTL

(* The steps that change the host: a claim of a vacant room or a transfer  *)
(* by a live host, each to a live voter.                                   *)
LEMMA HostChange ==
    ASSUME SeatInv, [Next]_vars, hostId' # hostId
    PROVE  /\ Live(hostId)'
           /\ roomState = "host_vacant" \/ Live(hostId)
<1>1. ~ (StoryMessage \/ AlarmFires \/ AlarmDone \/ Tick \/ UNCHANGED vars)
  BY StoryMessageKeepsSeat DEF AlarmFires, AlarmDone, Tick, vars, roomVars
<1>2. ~DispatchTask
  BY DEF DispatchTask, HostVacantFire, AsyncCloseFire, CloseAsyncRows, roomVars
<1>3. HostMessage
  BY <1>1, <1>2 DEF Next
<1>4. ASSUME NEW s \in Socket, ClaimHost(s)
      PROVE  Live(hostId)' /\ roomState = "host_vacant"
  BY <1>4 DEF ClaimHost, SetRoomHost, Live
<1>5. ASSUME NEW v \in Voter, TransferHost(v)
      PROVE  Live(hostId)' /\ Live(hostId)
  <2>1. Live(v)
    BY <1>5, TransferTargetIsLive
  <2> QED  BY <1>5, <2>1 DEF TransferHost, RequireHost, SetRoomHost, Live
<1>6. ASSUME NEW s \in Socket, NEW v \in Voter,
             \/ \E r \in {"voter", "spectator"} : JoinNew(s, v, r)
             \/ JoinResume(s, v)
      PROVE  FALSE
  BY <1>6 DEF JoinNew, AddVoter, JoinResume, ResumeVoter, HostReturns,
              SetRoomHost, roomVars
<1>7. ASSUME NEW s \in Socket, ReJoin(s) \/ CloseSocket(s)
      PROVE  FALSE
  BY <1>7 DEF ReJoin, CloseSocket, HostReturns, SetRoomHost, roomVars
<1> QED  BY <1>3, <1>4, <1>5, <1>6, <1>7 DEF HostMessage

(* The host changes only out of a vacancy or by a live host's hand, and    *)
(* always to a voter who is in the room.                                   *)
THEOREM HostAlwaysHandedOver == Spec => HostHandedOver
<1>1. SeatInv /\ [Next]_vars =>
        [hostId' # hostId =>
            /\ Live(hostId)'
            /\ roomState = "host_vacant" \/ Live(hostId)]_vars
  BY HostChange
<1> QED  BY <1>1, SeatAlways, PTL DEF Spec, HostHandedOver

-----------------------------------------------------------------------------
(* The alarm.                                                              *)

(* An alarm set by rescheduleAlarm covers every task.                      *)
LEMMA RearmedCovers ==
    ASSUME TypeInv', alarm' = EarliestOf(tasks')
    PROVE  AlarmCoversTasks'
<1>1. tasks' \in SUBSET Task
  BY DEF TypeInv, TypeOK
<1> QED  BY <1>1, EarliestOfBounds DEF AlarmCoversTasks

(* Whatever a message does to the tasks, it re-arms the alarm with it.     *)
LEMMA MessageRearms ==
    ASSUME HostMessage \/ StoryMessage
    PROVE  UNCHANGED taskVars \/ alarm' = EarliestOf(tasks')
<1>1. CASE StoryMessage
  BY <1>1
  DEF StoryMessage, AddStory, AddStoryRow, OpenVoting, OpenDiscussion,
      OpenVotingRow,
      RevealVotes, RevealRow, CommitStory, CommitRow, MaybeReturnToReview,
      SkipStory, SkipRow, SplitStory, SplitRows, CastVote, CastVoteRow,
      AcceptAgreed, OpenAsync, OpenAsyncRows, ScheduleTask
<1>2. CASE HostMessage
  BY <1>2
  DEF HostMessage, JoinNew, AddVoter, JoinResume, ResumeVoter, ReJoin,
      CloseSocket, ClaimHost,
      TransferHost, HostReturns, ScheduleTask, CancelTasksByType, taskVars
<1> QED  BY <1>1, <1>2

(* Every step keeps the alarm ahead of the tasks, but inside a run of the  *)
(* alarm.                                                                  *)
LEMMA AlarmStep ==
    TypeInv /\ AlarmCoversTasks /\ [Next]_vars => AlarmCoversTasks'
<1> SUFFICES ASSUME TypeInv, AlarmCoversTasks, [Next]_vars
             PROVE  AlarmCoversTasks'
  OBVIOUS
<1>1. TypeInv'
  BY TypeStep
<1>2. CASE HostMessage \/ StoryMessage
  <2>1. UNCHANGED draining
    BY <1>2 DEF HostMessage, StoryMessage, clockVars
  <2> QED  BY <1>1, <1>2, <2>1, MessageRearms, RearmedCovers
           DEF AlarmCoversTasks, taskVars
<1>3. CASE AlarmFires \/ DispatchTask
  <2>1. draining'
    BY <1>3 DEF AlarmFires, DispatchTask, clockVars
  <2> QED  BY <2>1 DEF AlarmCoversTasks
<1>4. CASE AlarmDone
  BY <1>1, <1>4, RearmedCovers DEF AlarmDone
<1>5. CASE Tick \/ UNCHANGED vars
  BY <1>5 DEF Tick, vars, taskVars, AlarmCoversTasks
<1> QED  BY <1>2, <1>3, <1>4, <1>5 DEF Next

(* The single alarm is armed no later than the earliest pending task after *)
(* every schedule, cancellation and run: no task is ever stranded.         *)
THEOREM AlarmAlwaysCovers == Spec => []AlarmCoversTasks
<1>1. Init => TypeInv /\ AlarmCoversTasks
  BY InitTypeInv DEF Init, AlarmCoversTasks
<1>2. TypeInv /\ AlarmCoversTasks /\ [Next]_vars
        => (TypeInv /\ AlarmCoversTasks)'
  BY TypeStep, AlarmStep
<1> QED  BY <1>1, <1>2, PTL DEF Spec

-----------------------------------------------------------------------------
(* Rounds and windows.  A close task is determined by its time, so that    *)
(* the one that fires was the only one.                                    *)

CloseTaskNamesNoVoter ==
    \A t \in tasks : t.type = "async_close" => t.host = NoVoter

RoundInv == /\ TypeInv
            /\ OneLiveRound
            /\ CloseTaskOwnsWindow
            /\ CloseTaskNamesNoVoter

(* Joins, closes, claims and transfers touch neither rounds nor windows,   *)
(* nor any close task.                                                     *)
LEMMA HostMessageRound == RoundInv /\ HostMessage => RoundInv'
<1> SUFFICES ASSUME RoundInv, HostMessage PROVE RoundInv'
  OBVIOUS
<1>1. TypeInv'
  BY HostMessageType DEF RoundInv
<1>2. UNCHANGED <<window, story>>
  BY DEF HostMessage, JoinNew, AddVoter, JoinResume, ResumeVoter, ReJoin,
         CloseSocket, ClaimHost,
         TransferHost, roomVars, storyVars
<1>3. \A t \in tasks' : t.type = "async_close" => t \in tasks
  BY DEF HostMessage, JoinNew, AddVoter, JoinResume, ResumeVoter, ReJoin,
         CloseSocket, ClaimHost,
         TransferHost, HostReturns, ScheduleTask, CancelTasksByType, taskVars
<1> QED  BY <1>1, <1>2, <1>3
         DEF RoundInv, OneLiveRound, ActiveStories, CloseTaskOwnsWindow,
             CloseTaskNamesNoVoter

(* The commands on stories preserve RoundInv.                              *)
LEMMA StoryMessageRound == RoundInv /\ StoryMessage => RoundInv'
<1> SUFFICES ASSUME RoundInv, StoryMessage PROVE RoundInv'
  OBVIOUS
<1> USE DEF RoundInv
<1>1. TypeInv'
  BY StoryMessageType
<1>2. ASSUME UNCHANGED <<window, tasks>>,
             \/ ActiveStories' \subseteq ActiveStories
             \/ \E st \in Story : ActiveStories' = {st}
      PROVE  RoundInv'
  BY <1>1, <1>2 DEF OneLiveRound, CloseTaskOwnsWindow, CloseTaskNamesNoVoter
<1>3. ASSUME NEW st \in Story, OpenVoting(st) \/ OpenDiscussion(st)
      PROVE  RoundInv'
  <2>1. UNCHANGED <<window, tasks>> /\ ActiveStories' = {st}
    BY <1>3 DEF OpenVoting, OpenDiscussion, OpenVotingRow, ActiveStories,
                roomVars, taskVars, TypeInv, TypeOK
  <2> QED  BY <1>2, <2>1
<1>4. ASSUME NEW st \in Story,
             \/ AddStory(st) \/ RevealVotes(st) \/ CommitStory(st)
             \/ SkipStory(st)
             \/ \E children \in SUBSET Story : SplitStory(st, children)
             \/ \E s \in Socket, b \in Ballot : CastVote(s, st, b)
      PROVE  RoundInv'
  <2>1. UNCHANGED <<window, tasks>> /\ ActiveStories' \subseteq ActiveStories
    BY <1>4 DEF AddStory, AddStoryRow, RevealVotes, RevealRow, CommitStory,
                CommitRow, MaybeReturnToReview, SkipStory, SkipRow,
                SplitStory, SplitRows,
                CastVote, CastVoteRow, ActiveStories, roomVars, taskVars,
                TypeInv, TypeOK
  <2> QED  BY <1>2, <2>1
<1>5. CASE AcceptAgreed
  <2>1. UNCHANGED <<window, tasks>> /\ ActiveStories' \subseteq ActiveStories
    BY <1>5 DEF AcceptAgreed, ActiveStories, roomVars, taskVars
  <2> QED  BY <1>2, <2>1
<1>6. ASSUME NEW d \in Windows, OpenAsync(d)
      PROVE  RoundInv'
  <2> DEFINE t == [type |-> "async_close", at |-> now + d, host |-> NoVoter]
  <2>1. /\ window = NoTime /\ window' = now + d
        /\ tasks' = tasks \cup {t}
    BY <1>6 DEF OpenAsync, OpenAsyncRows, ScheduleTask
  <2>2. now + d # NoTime
    BY TimeAssumption DEF TypeInv, TypeOK
  <2>3. \A u \in tasks : u.type # "async_close"
    BY <2>1 DEF CloseTaskOwnsWindow, TypeInv, TypeOK, Task
  <2> QED  BY <1>1, <2>1, <2>2, <2>3
           DEF OneLiveRound, CloseTaskOwnsWindow, CloseTaskNamesNoVoter
<1> QED  BY <1>3, <1>4, <1>5, <1>6 DEF StoryMessage

(* A close task ends every round of its window together.                   *)
LEMMA DispatchTaskRound == RoundInv /\ DispatchTask => RoundInv'
<1> SUFFICES ASSUME RoundInv, DispatchTask PROVE RoundInv'
  OBVIOUS
<1> USE DEF RoundInv
<1>1. TypeInv'
  BY DispatchTaskType
<1>2. PICK t \in tasks :
        /\ tasks' = tasks \ {t}
        /\ \/ /\ t.type = "host_vacant"
              /\ HostVacantFire(t)
              /\ UNCHANGED storyVars
           \/ /\ t.type = "async_close"
              /\ AsyncCloseFire
  BY DEF DispatchTask
<1>3. CASE HostVacantFire(t) /\ UNCHANGED storyVars
  BY <1>1, <1>2, <1>3
  DEF HostVacantFire, roomVars, storyVars, OneLiveRound, ActiveStories,
      CloseTaskOwnsWindow, CloseTaskNamesNoVoter
<1>4. CASE roomState = "review" /\ AsyncCloseFire
  BY <1>1, <1>2, <1>4
  DEF AsyncCloseFire, CloseAsyncRows, roomVars, storyVars, OneLiveRound,
      ActiveStories,
      CloseTaskOwnsWindow, CloseTaskNamesNoVoter
<1>5. CASE roomState # "review" /\ t.type = "async_close" /\ AsyncCloseFire
  <2>1. \A u \in tasks : u.type = "async_close" => u = t
    BY <1>2, <1>5 DEF CloseTaskOwnsWindow, CloseTaskNamesNoVoter, TypeInv,
                      TypeOK, Task
  <2>2. \A u \in tasks' : u.type # "async_close"
    BY <1>2, <2>1
  <2>3. ActiveStories' = {}
    BY <1>5 DEF AsyncCloseFire, CloseAsyncRows, ActiveStories
  <2> QED  BY <1>1, <2>2, <2>3
           DEF OneLiveRound, CloseTaskOwnsWindow, CloseTaskNamesNoVoter
<1> QED  BY <1>2, <1>3, <1>4, <1>5

(* RoundInv is inductive.                                                  *)
LEMMA RoundStep == RoundInv /\ [Next]_vars => RoundInv'
<1> SUFFICES ASSUME RoundInv, [Next]_vars PROVE RoundInv'
  OBVIOUS
<1>1. TypeInv'
  BY TypeStep DEF RoundInv
<1>2. CASE AlarmFires \/ AlarmDone \/ Tick \/ UNCHANGED vars
  BY <1>1, <1>2
  DEF AlarmFires, AlarmDone, Tick, vars, roomVars, storyVars, taskVars,
      RoundInv, OneLiveRound, ActiveStories, CloseTaskOwnsWindow,
      CloseTaskNamesNoVoter
<1> QED  BY <1>2, HostMessageRound, StoryMessageRound, DispatchTaskRound
         DEF Next

(* RoundInv holds in every reachable state.                                *)
LEMMA RoundAlways == Spec => []RoundInv
<1>1. Init => RoundInv
  BY InitTypeInv
  DEF Init, RoundInv, OneLiveRound, ActiveStories, CloseTaskOwnsWindow,
      CloseTaskNamesNoVoter
<1> QED  BY <1>1, RoundStep, PTL DEF Spec

(* With no window open the room votes on one story at a time, in async     *)
(* rooms as in sync ones: no sequence of openings, discussions, splits and *)
(* closes leaves two rounds live.                                          *)
THEOREM OneRoundAlways == Spec => []OneLiveRound
<1>1. RoundInv => OneLiveRound
  BY DEF RoundInv
<1> QED  BY <1>1, RoundAlways, PTL

(* A pending close task belongs to the open window: a window is never cut  *)
(* short by the task of an earlier one.                                    *)
THEOREM CloseTaskAlwaysOwnsWindow == Spec => []CloseTaskOwnsWindow
<1>1. RoundInv => CloseTaskOwnsWindow
  BY DEF RoundInv
<1> QED  BY <1>1, RoundAlways, PTL

-----------------------------------------------------------------------------
(* Synchronous rooms: no close task exists, so a vacancy ends only by the  *)
(* return of the host or by a claim.                                       *)

OnlyVacancyTasks ==
    Mode = "sync" => \A t \in tasks : t.type = "host_vacant"

CoverInv == SeatInv /\ OnlyVacancyTasks /\ HostAbsenceCovered

(* No step of a synchronous room makes a close task.                       *)
LEMMA OnlyVacancyTasksStep ==
    OnlyVacancyTasks /\ [Next]_vars => OnlyVacancyTasks'
<1> SUFFICES ASSUME OnlyVacancyTasks, [Next]_vars, Mode = "sync"
             PROVE  \A t \in tasks' : t.type = "host_vacant"
  BY DEF OnlyVacancyTasks
<1> USE DEF OnlyVacancyTasks
<1>1. CASE HostMessage
  BY <1>1
  DEF HostMessage, JoinNew, AddVoter, JoinResume, ResumeVoter, ReJoin,
      CloseSocket, ClaimHost,
      TransferHost, HostReturns, ScheduleTask, CancelTasksByType, taskVars
<1>2. CASE StoryMessage
  BY <1>2
  DEF StoryMessage, AddStory, AddStoryRow, OpenVoting, OpenDiscussion,
      OpenVotingRow,
      RevealVotes, RevealRow, CommitStory, CommitRow, MaybeReturnToReview,
      SkipStory, SkipRow, SplitStory, SplitRows, CastVote, CastVoteRow,
      AcceptAgreed, OpenAsync, OpenAsyncRows, taskVars
<1>3. CASE DispatchTask
  BY <1>3 DEF DispatchTask
<1>4. CASE AlarmFires \/ AlarmDone \/ Tick \/ UNCHANGED vars
  BY <1>4 DEF AlarmFires, AlarmDone, Tick, vars, taskVars
<1> QED  BY <1>1, <1>2, <1>3, <1>4 DEF Next

(* A host who leaves is covered by a task, one who comes or is made host   *)
(* is there.                                                               *)
LEMMA HostMessageCover ==
    ASSUME CoverInv, HostMessage
    PROVE  HostAbsenceCovered'
<1> USE DEF CoverInv, SeatInv, TypeInv
<1>1. ASSUME NEW s \in Socket, NEW v \in Voter,
             NEW r \in {"voter", "spectator"}, JoinNew(s, v, r)
      PROVE  HostAbsenceCovered'
  <2>1. \A w \in Voter : Live(w)' <=> (w = v \/ Live(w))
    BY <1>1, LiveAfterJoin DEF JoinNew, AddVoter
  <2>2. v # hostId
    BY <1>1 DEF JoinNew, AddVoter, ExactlyOneHost
  <2> QED  BY <1>1, <2>1, <2>2
           DEF JoinNew, AddVoter, HostAbsenceCovered, roomVars, taskVars, TypeOK
<1>2. ASSUME NEW s \in Socket, NEW v \in Voter, JoinResume(s, v)
      PROVE  HostAbsenceCovered'
  <2>1. \A w \in Voter : Live(w)' <=> (w = v \/ Live(w))
    BY <1>2, LiveAfterJoin DEF JoinResume, ResumeVoter
  <2>2. /\ hostId' = hostId
        /\ v # hostId => UNCHANGED <<roomState, vacantSince, tasks>>
    BY <1>2, HostReturnsSeats DEF JoinResume, ResumeVoter
  <2> QED  BY <1>2, <2>1, <2>2
           DEF JoinResume, ResumeVoter, HostAbsenceCovered, TypeOK
<1>3. ASSUME NEW s \in Socket, ReJoin(s)
      PROVE  HostAbsenceCovered'
  <2>1. boundTo[s] \in Voter /\ Live(boundTo[s])
    BY <1>3 DEF ReJoin, TypeOK, Live
  <2>2. /\ hostId' = hostId
        /\ boundTo[s] # hostId => UNCHANGED <<roomState, vacantSince, tasks>>
    BY <1>3, <2>1, HostReturnsSeats DEF ReJoin
  <2>3. UNCHANGED conn /\ \A w \in Voter : Live(w)' <=> Live(w)
    BY <1>3 DEF ReJoin, Live
  <2> QED  BY <2>1, <2>2, <2>3 DEF HostAbsenceCovered, TypeOK
<1>4. ASSUME NEW s \in Socket, CloseSocket(s)
      PROVE  HostAbsenceCovered'
  <2> DEFINE v == boundTo[s]
             t == [type |-> "host_vacant", at |-> now + Grace, host |-> v]
  <2>1. v \in Voter /\ v = boundTo[s]
    BY <1>4 DEF CloseSocket, TypeOK
  <2>2. /\ conn' = [conn EXCEPT ![v] = "left"]
        /\ UNCHANGED <<hostId, roomState, vacantSince>>
    BY <1>4 DEF CloseSocket, roomVars
  <2>3. \A w \in Voter : Live(w)' <=>
            IF w = v THEN HostIsLiveExcept(v, s) ELSE Live(w)
    BY <1>4, <2>1, LiveAfterClose DEF CloseSocket
  <2>4. CASE v = hostId /\ ScheduleTask(t)
    <3>1. t \in tasks' /\ t.type = "host_vacant" /\ t.host = hostId'
      BY <2>2, <2>4 DEF ScheduleTask
    <3> QED  BY <3>1 DEF HostAbsenceCovered
  <2>5. CASE v # hostId /\ UNCHANGED taskVars
    BY <2>1, <2>2, <2>3, <2>5 DEF HostAbsenceCovered, taskVars, TypeOK
  <2>6. CASE v = hostId /\ HostIsLiveExcept(v, s)
    <3>1. Live(hostId)'
      BY <2>1, <2>2, <2>3, <2>6
    <3> QED  BY <3>1 DEF HostAbsenceCovered
  <2> QED  BY <1>4, <2>4, <2>5, <2>6 DEF CloseSocket
<1>5. ASSUME NEW s \in Socket, ClaimHost(s)
      PROVE  HostAbsenceCovered'
  <2>1. Live(hostId)'
    BY <1>5 DEF ClaimHost, SetRoomHost, Live
  <2> QED  BY <2>1 DEF HostAbsenceCovered
<1>6. ASSUME NEW v \in Voter, TransferHost(v)
      PROVE  HostAbsenceCovered'
  <2>1. Live(v)
    BY <1>6, TransferTargetIsLive
  <2>2. Live(hostId)'
    BY <1>6, <2>1 DEF TransferHost, SetRoomHost, Live
  <2> QED  BY <2>2 DEF HostAbsenceCovered
<1> QED  BY <1>1, <1>2, <1>3, <1>4, <1>5, <1>6 DEF HostMessage

(* A command on stories is the host's own, or leaves the state and the     *)
(* tasks alone.                                                            *)
LEMMA StoryMessageCover ==
    ASSUME CoverInv, StoryMessage
    PROVE  HostAbsenceCovered'
<1>1. UNCHANGED <<hostId, voterVars>> /\ (Live(hostId)' <=> Live(hostId))
  BY StoryMessageKeepsSeat DEF voterVars, Live
<1>2. CASE Live(hostId)
  BY <1>1, <1>2 DEF HostAbsenceCovered
<1>3. CASE ~Live(hostId)
  <2>1. UNCHANGED <<roomState, vacantSince, tasks>>
    BY <1>3
    DEF StoryMessage, RequireHost, AddStory, AddStoryRow, OpenVoting,
        OpenDiscussion,
        RevealVotes, RevealRow, CommitStory, CommitRow, MaybeReturnToReview,
        SkipStory, SkipRow, SplitStory, SplitRows, CastVote, CastVoteRow,
        AcceptAgreed, OpenAsync, OpenAsyncRows, roomVars, taskVars
  <2> QED  BY <1>1, <2>1 DEF CoverInv, HostAbsenceCovered, voterVars
<1> QED  BY <1>2, <1>3

(* A vacancy task declares the vacancy or is about somebody else; a close  *)
(* task leaves the vacancy tasks alone, and writes over a declared vacancy *)
(* only.                                                                   *)
LEMMA DispatchTaskCover ==
    ASSUME CoverInv, DispatchTask
    PROVE  HostAbsenceCovered'
<1> SUFFICES ASSUME Mode = "sync" \/ vacantSince' = NoTime,
                    conn'[hostId'] = "left", ~Live(hostId)'
             PROVE  \/ roomState' = "host_vacant"
                    \/ \E t \in tasks' : t.type = "host_vacant" /\ t.host = hostId'
  BY DEF HostAbsenceCovered
<1>1. PICK t \in tasks :
        /\ tasks' = tasks \ {t}
        /\ \/ t.type = "host_vacant" /\ HostVacantFire(t)
           \/ t.type = "async_close" /\ AsyncCloseFire
        /\ UNCHANGED <<conn, boundTo>>
  BY DEF DispatchTask, voterVars
<1>2. CASE t.type = "host_vacant" /\ HostVacantFire(t)
  <2>1. hostId' = hostId /\ conn[hostId] = "left" /\ ~Live(hostId)
    BY <1>1, <1>2 DEF HostVacantFire, roomVars, Live
  <2>2. CASE roomState = "host_vacant" \/ t.host = hostId
    BY <1>2, <2>1, <2>2 DEF HostVacantFire, roomVars
  <2>3. CASE roomState # "host_vacant" /\ t.host # hostId
    <3>1. UNCHANGED vacantSince
      BY <1>2, <2>3 DEF HostVacantFire, roomVars
    <3>2. \E u \in tasks : u.type = "host_vacant" /\ u.host = hostId
      BY <2>1, <2>3, <3>1 DEF CoverInv, HostAbsenceCovered
    <3> QED  BY <1>1, <2>1, <2>3, <3>2
  <2> QED  BY <2>2, <2>3
<1>3. CASE t.type = "async_close" /\ AsyncCloseFire
  <2>1. Mode # "sync"
    BY <1>3 DEF CoverInv, OnlyVacancyTasks
  <2>2. /\ hostId' = hostId /\ vacantSince' = vacantSince
        /\ conn[hostId] = "left" /\ ~Live(hostId)
    BY <1>1, <1>3 DEF AsyncCloseFire, CloseAsyncRows, roomVars, Live
  <2>3. vacantSince = NoTime /\ roomState # "host_vacant"
    BY <2>1, <2>2 DEF CoverInv, SeatInv, VacantMeansHostGone
  <2>4. PICK u \in tasks : u.type = "host_vacant" /\ u.host = hostId
    BY <2>2, <2>3 DEF CoverInv, HostAbsenceCovered
  <2> QED  BY <1>1, <1>3, <2>2, <2>4
<1> QED  BY <1>1, <1>2, <1>3

(* CoverInv is inductive.                                                  *)
LEMMA CoverStep == CoverInv /\ [Next]_vars => CoverInv'
<1> SUFFICES ASSUME CoverInv, [Next]_vars PROVE CoverInv'
  OBVIOUS
<1>1. SeatInv' /\ OnlyVacancyTasks'
  BY SeatStep, OnlyVacancyTasksStep DEF CoverInv
<1>2. CASE AlarmFires \/ AlarmDone \/ Tick \/ UNCHANGED vars
  <2>1. UNCHANGED <<hostId, roomState, vacantSince, conn, boundTo, tasks>>
    BY <1>2 DEF AlarmFires, AlarmDone, Tick, vars, roomVars, voterVars,
                taskVars
  <2> QED  BY <1>1, <2>1 DEF CoverInv, HostAbsenceCovered, Live
<1> QED  BY <1>1, <1>2, HostMessageCover, StoryMessageCover,
            DispatchTaskCover DEF CoverInv, Next

(* CoverInv holds in every reachable state.                                *)
LEMMA CoverAlways == Spec => []CoverInv
<1>1. Init => CoverInv
  BY InitSeatInv, VoterAssumption
  DEF Init, CoverInv, OnlyVacancyTasks, HostAbsenceCovered
<1> QED  BY <1>1, CoverStep, PTL DEF Spec

(* The absence of a host whose departure was seen is never forgotten: it   *)
(* is on the clock or it has been declared.                                *)
THEOREM HostAbsenceAlwaysCovered == Spec => []HostAbsenceCovered
<1>1. CoverInv => HostAbsenceCovered
  BY DEF CoverInv
<1> QED  BY <1>1, CoverAlways, PTL

-----------------------------------------------------------------------------
(* A synchronous room implements HostAuthority.                            *)

(* The initial room is an initial host seat.                               *)
LEMMA InitRefines == Init => HA!Init
  BY VoterAssumption DEF Init, HA!Init, Live

(* Each message about the seat is the step of HostAuthority of the same    *)
(* name, or a stutter.                                                     *)
LEMMA HostMessageRefines ==
    ASSUME CoverInv, HostMessage
    PROVE  [HA!Next]_HA!authorityVars
<1> USE DEF CoverInv, SeatInv, TypeInv
<1> DEFINE present == {w \in Voter : Live(w)}
           vacant == roomState = "host_vacant"
<1>1. ASSUME NEW s \in Socket, NEW v \in Voter,
             NEW r \in {"voter", "spectator"}, JoinNew(s, v, r)
      PROVE  HA!Arrive(v)
  <2>1. present' = present \cup {v}
    BY <1>1, LiveAfterJoin DEF JoinNew, AddVoter
  <2>2. v # hostId /\ UNCHANGED <<hostId, roomState>>
    BY <1>1 DEF JoinNew, AddVoter, ExactlyOneHost, roomVars
  <2> QED  BY <2>1, <2>2 DEF HA!Arrive
<1>2. ASSUME NEW s \in Socket, NEW v \in Voter, JoinResume(s, v)
      PROVE  HA!Arrive(v)
  <2>1. present' = present \cup {v}
    BY <1>2, LiveAfterJoin DEF JoinResume, ResumeVoter
  <2>2. /\ hostId' = hostId
        /\ v = hostId => roomState' # "host_vacant"
        /\ v # hostId => roomState' = roomState
    BY <1>2, HostReturnsSeats DEF JoinResume, ResumeVoter
  <2>3. vacant' <=> (vacant /\ v # hostId)
    BY <2>2
  <2> QED  BY <2>1, <2>2, <2>3 DEF HA!Arrive
<1>3. ASSUME NEW s \in Socket, ReJoin(s)
      PROVE  UNCHANGED HA!authorityVars
  <2>1. boundTo[s] \in Voter /\ Live(boundTo[s])
    BY <1>3 DEF ReJoin, TypeOK, Live
  <2>2. /\ hostId' = hostId
        /\ boundTo[s] = hostId => roomState' # "host_vacant"
        /\ boundTo[s] # hostId => roomState' = roomState
    BY <1>3, <2>1, HostReturnsSeats DEF ReJoin
  <2>3. present' = present
    BY <1>3 DEF ReJoin, Live
  <2>4. vacant' <=> vacant
    BY <2>1, <2>2 DEF VacantMeansHostGone
  <2> QED  BY <2>2, <2>3, <2>4 DEF HA!authorityVars
<1>4. ASSUME NEW s \in Socket, CloseSocket(s)
      PROVE  HA!Depart(boundTo[s]) \/ UNCHANGED HA!authorityVars
  <2>1. boundTo[s] \in Voter
    BY <1>4 DEF CloseSocket, TypeOK
  <2>2. UNCHANGED <<hostId, roomState>>
    BY <1>4 DEF CloseSocket, roomVars
  <2>3. \A w \in Voter : Live(w)' <=>
            IF w = boundTo[s] THEN HostIsLiveExcept(boundTo[s], s) ELSE Live(w)
    BY <1>4, <2>1, LiveAfterClose DEF CloseSocket
  <2>4. CASE HostIsLiveExcept(boundTo[s], s)
    <3>1. Live(boundTo[s])
      BY <1>4, <2>1 DEF CloseSocket, Live
    <3>2. present' = present
      BY <2>1, <2>3, <2>4, <3>1
    <3> QED  BY <2>2, <3>2 DEF HA!authorityVars
  <2>5. CASE ~HostIsLiveExcept(boundTo[s], s)
    <3>1. present' = present \ {boundTo[s]}
      BY <2>1, <2>3, <2>5
    <3> QED  BY <2>2, <3>1 DEF HA!Depart
  <2> QED  BY <2>4, <2>5
<1>5. ASSUME NEW s \in Socket, ClaimHost(s)
      PROVE  HA!Claim(boundTo[s])
  <2>1. boundTo[s] \in Voter /\ boundTo[s] \in present
    BY <1>5 DEF ClaimHost, TypeOK, Live
  <2>2. hostId' = boundTo[s] /\ roomState' # "host_vacant"
    BY <1>5, <2>1, SetRoomHostSeats DEF ClaimHost
  <2>3. present' = present /\ roomState = "host_vacant"
    BY <1>5 DEF ClaimHost, Live
  <2> QED  BY <2>1, <2>2, <2>3 DEF HA!Claim
<1>6. ASSUME NEW v \in Voter, TransferHost(v)
      PROVE  HA!Transfer(v)
  <2>1. Live(v) /\ Live(hostId) /\ v # hostId
    BY <1>6, TransferTargetIsLive DEF TransferHost, RequireHost
  <2>2. hostId' = v /\ roomState' # "host_vacant"
    BY <1>6, SetRoomHostSeats DEF TransferHost
  <2>3. present' = present
    BY <1>6 DEF TransferHost, Live
  <2>4. roomState # "host_vacant"
    BY <2>1 DEF VacantMeansHostGone
  <2> QED  BY <2>1, <2>2, <2>3, <2>4 DEF HA!Transfer, TypeOK
<1>7. \A s \in Socket : boundTo[s] # NoVoter => boundTo[s] \in Voter
  BY DEF TypeOK
<1>8. \A s \in Socket : CloseSocket(s) \/ ClaimHost(s) => boundTo[s] \in Voter
  BY <1>7 DEF CloseSocket, ClaimHost
<1> HIDE DEF present, vacant
<1> QED  BY <1>1, <1>2, <1>3, <1>4, <1>5, <1>6, <1>8 DEF HostMessage, HA!Next

(* A step that neither moves the host, nor a vacancy, nor a socket is a    *)
(* stutter of HostAuthority.                                               *)
LEMMA AuthorityStutters ==
    ASSUME UNCHANGED <<hostId, boundTo>>,
           roomState' = "host_vacant" <=> roomState = "host_vacant"
    PROVE  UNCHANGED HA!authorityVars
<1>1. {v \in Voter : Live(v)}' = {v \in Voter : Live(v)}
  BY DEF Live
<1> QED  BY <1>1 DEF HA!authorityVars

(* A command on stories is a stutter of HostAuthority.                     *)
LEMMA StoryMessageRefines ==
    ASSUME CoverInv, StoryMessage
    PROVE  UNCHANGED HA!authorityVars
<1>1. /\ UNCHANGED <<hostId, boundTo>>
      /\ roomState' = "host_vacant" => roomState = "host_vacant"
  BY StoryMessageKeepsSeat DEF voterVars
<1>2. CASE Live(hostId)
  <2>1. roomState # "host_vacant"
    BY <1>2 DEF CoverInv, SeatInv, VacantMeansHostGone
  <2> QED  BY <1>1, <2>1, AuthorityStutters
<1>3. CASE ~Live(hostId)
  <2>1. UNCHANGED roomState
    BY <1>3
    DEF StoryMessage, RequireHost, AddStory, AddStoryRow, OpenVoting,
        OpenDiscussion,
        RevealVotes, RevealRow, CommitStory, CommitRow, MaybeReturnToReview,
        SkipStory, SkipRow, SplitStory, SplitRows, CastVote, CastVoteRow,
        AcceptAgreed, OpenAsync, OpenAsyncRows, roomVars
  <2> QED  BY <1>1, <2>1, AuthorityStutters
<1> QED  BY <1>2, <1>3

(* A task of a synchronous room is a vacancy or a stutter.                 *)
LEMMA DispatchTaskRefines ==
    ASSUME CoverInv, DispatchTask, Mode = "sync"
    PROVE  HA!Vacate \/ UNCHANGED HA!authorityVars
<1>1. PICK t \in tasks :
        /\ t.type = "host_vacant" => HostVacantFire(t)
        /\ UNCHANGED boundTo
  BY DEF DispatchTask, voterVars
<1>2. HostVacantFire(t)
  BY <1>1 DEF CoverInv, OnlyVacancyTasks
<1>3. CASE UNCHANGED roomVars
  BY <1>1, <1>3, AuthorityStutters DEF roomVars
<1>4. CASE /\ hostId = t.host /\ ~Live(t.host)
           /\ roomState' = "host_vacant" /\ UNCHANGED hostId
  <2>1. {v \in Voter : Live(v)}' = {v \in Voter : Live(v)}
    BY <1>1 DEF Live
  <2> QED  BY <1>4, <2>1 DEF HA!Vacate
<1> QED  BY <1>2, <1>3, <1>4 DEF HostVacantFire

(* Every step of a synchronous room is a step of HostAuthority or a        *)
(* stutter.                                                                *)
LEMMA StepRefines ==
    ASSUME CoverInv, [Next]_vars, Mode = "sync"
    PROVE  [HA!Next]_HA!authorityVars
<1>1. CASE AlarmFires \/ AlarmDone \/ Tick \/ UNCHANGED vars
  <2>1. UNCHANGED <<hostId, boundTo, roomState>>
    BY <1>1 DEF AlarmFires, AlarmDone, Tick, vars, roomVars, voterVars
  <2> QED  BY <2>1, AuthorityStutters
<1>2. CASE DispatchTask
  BY <1>2, DispatchTaskRefines DEF HA!Next
<1> QED  BY <1>1, <1>2, HostMessageRefines, StoryMessageRefines DEF Next

(* A synchronous room with any voters, sockets and timing implements the   *)
(* abstract host seat.                                                     *)
THEOREM SyncRoomImplementsHostAuthority ==
    ASSUME Mode = "sync"
    PROVE  Spec => ImplementsHostAuthority
<1>1. CoverInv /\ [Next]_vars => [HA!Next]_HA!authorityVars
  BY StepRefines
<1> QED  BY <1>1, InitRefines, CoverAlways, PTL
         DEF Spec, ImplementsHostAuthority, HA!Spec
=============================================================================
