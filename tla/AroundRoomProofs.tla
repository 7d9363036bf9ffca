-------------------------- MODULE AroundRoomProofs --------------------------
(***************************************************************************)
(* What surrounds the room, for any voters, sockets, stories, texts,       *)
(* limits and clocks: the room keeps what is proved of Room while AI calls *)
(* run beside it and while browsers watch it.  A story has one AI call at  *)
(* a time, an answer is kept, and it reaches the room only by being        *)
(* shared; every browser with a bound socket agrees with the room on the   *)
(* roster, the stories, the rounds and the room's own state.               *)
(***************************************************************************)
EXTENDS RoomAi, RoomClients, RoomProofs

-----------------------------------------------------------------------------
(* The room with AI calls beside it.                                       *)

(* Every event with AI is an event of the room or leaves it alone.         *)
LEMMA AiStepIsRoomStep == [AiNext \/ CallLost]_aiVars => [Next]_vars
<1> SUFFICES ASSUME [AiNext \/ CallLost]_aiVars PROVE [Next]_vars
  OBVIOUS
<1>1. CASE SeatMessage
  <2>1. HostMessage
    BY <1>1 DEF SeatMessage, HostMessage
  <2> QED  BY <2>1 DEF Next
<1>2. CASE QueueMessage
  <2>1. StoryMessage
    BY <1>2 DEF QueueMessage, StoryMessage
  <2> QED  BY <2>1 DEF Next
<1>3. CASE AlarmEvent
  BY <1>3 DEF AlarmEvent, Next
<1>4. CASE \/ AiMessage \/ HourTurns \/ CallLost
           \/ HeadersEvent \/ AnswerEvent \/ FailureEvent \/ TimeoutEvent
  BY <1>4 DEF AiMessage, HourTurns, CallLost, HeadersEvent, AnswerEvent, FailureEvent,
              TimeoutEvent
<1>5. CASE UNCHANGED aiVars
  BY <1>5 DEF aiVars
<1> QED  BY <1>1, <1>2, <1>3, <1>4, <1>5 DEF AiNext

(* AI takes nothing from the room and adds nothing to it (room.ts          *)
(* runAiCall, dispatcher.ts): what is proved of Room holds beside it.      *)
THEOREM AiKeepsRoom == AiSpec => Spec
<1>1. AiInit => Init
  BY DEF AiInit
<1> QED  BY <1>1, AiStepIsRoomStep, PTL DEF AiSpec, Spec

-----------------------------------------------------------------------------
(* The rows and the calls.                                                 *)

AiInv == AiTypeOK /\ OneCallPerStory

(* The rows of a room at its start.                                        *)
LEMMA AiInitInv == AiInit => AiInv
<1> SUFFICES ASSUME AiInit PROVE AiInv
  OBVIOUS
<1>1. shared \in [Story -> BOOLEAN] /\ \A st \in Story : ~shared[st]
  BY Zenon DEF AiInit
<1> QED  BY <1>1, AiAssumption DEF AiInit, AiInv, AiTypeOK, OneCallPerStory

(* The actions that change more than the texts and what is known of them.  *)
LEMMA AiCases ==
    ASSUME [AiNext \/ CallLost]_aiVars, NEW P,
           SeatMessage \/ QueueMessage \/ AlarmEvent => P,
           \A st \in Story, x \in Text : EditStory(st, x) /\ UNCHANGED vars => P,
           \A st \in Story : RequestCall(st) /\ UNCHANGED vars => P,
           \A st \in Story : RequestRefused(st) /\ UNCHANGED vars => P,
           \A st \in Story : RequestCached(st) /\ UNCHANGED vars => P,
           \A st \in Story : RequestAgain(st) /\ UNCHANGED vars => P,
           \A st \in Story : ShareAi(st) /\ UNCHANGED vars => P,
           \A c \in calls : HeadersArrive(c) /\ UNCHANGED vars => P,
           \A c \in calls : CallAnswers(c) /\ UNCHANGED vars => P,
           \A c \in calls : CallFails(c) /\ UNCHANGED vars => P,
           HourTurns \/ CallLost => P,
           UNCHANGED aiVars => P
    PROVE  P
<1>1. CASE AiMessage
  BY <1>1, Zenon DEF AiMessage
<1>2. CASE HeadersEvent \/ AnswerEvent \/ FailureEvent \/ TimeoutEvent
  BY <1>2, Zenon DEF HeadersEvent, AnswerEvent, FailureEvent, TimeoutEvent, CallTimesOut
<1> QED  BY <1>1, <1>2, Zenon DEF AiNext

(* The room's own events write no row of AI but the texts.                 *)
LEMMA RoomEventsKeepRows ==
    ASSUME AiTypeOK, SeatMessage \/ QueueMessage \/ AlarmEvent
    PROVE  /\ UNCHANGED <<aiState, shared, cached, spent, calls>>
           /\ text' \in [Story -> Text]
<1>1. CASE SeatMessage \/ AlarmEvent
  BY <1>1 DEF SeatMessage, AlarmEvent, aiRows, AiTypeOK
<1>2. CASE QueueMessage
  BY <1>2 DEF QueueMessage, aiRows, AiTypeOK
<1> QED  BY <1>1, <1>2

(* Browsers hear of stories.                                               *)
LEMMA AwareTyped ==
    ASSUME AiTypeOK, [AiNext \/ CallLost]_aiVars
    PROVE  aware' \in [Voter -> SUBSET Story]
<1> USE DEF AiTypeOK
<1>1. ASSUME NEW v, Snapshot(v)
      PROVE  aware' \in [Voter -> SUBSET Story]
  BY <1>1 DEF Snapshot
<1>2. ASSUME NEW sts \in SUBSET Story, RevealCarries(sts)
      PROVE  aware' \in [Voter -> SUBSET Story]
  BY <1>2 DEF RevealCarries
<1>3. ASSUME NEW st \in Story, SendToHost(st)
      PROVE  aware' \in [Voter -> SUBSET Story]
  BY <1>3 DEF SendToHost
<1>4. CASE SeatMessage
  BY <1>1, <1>4 DEF SeatMessage
<1>5. CASE QueueMessage
  BY <1>2, <1>5 DEF QueueMessage
<1>6. CASE AlarmEvent
  BY <1>2, <1>6 DEF AlarmEvent, ActiveStories
<1>7. ASSUME NEW st \in Story, ShareAi(st)
      PROVE  aware' \in [Voter -> SUBSET Story]
  BY <1>7 DEF ShareAi
<1>8. ASSUME NEW c \in calls, CallAnswers(c) \/ CallFails(c)
      PROVE  aware' \in [Voter -> SUBSET Story]
  BY <1>3, <1>8 DEF CallAnswers, CallFails, Call
<1> QED  BY <1>3, <1>4, <1>5, <1>6, <1>7, <1>8, AiCases
         DEF EditStory, RequestCall, RequestRefused, RequestCached, RequestAgain,
             HeadersArrive, HourTurns, CallLost, aiVars, aiRows

(* Every event keeps the rows typed and a story to one call.               *)
LEMMA AiStep == AiInv /\ [AiNext \/ CallLost]_aiVars => AiInv'
<1> SUFFICES ASSUME AiInv, [AiNext \/ CallLost]_aiVars PROVE AiInv'
  OBVIOUS
<1>0. aware' \in [Voter -> SUBSET Story] /\ AiTypeOK
  BY AwareTyped DEF AiInv
<1> USE AiAssumption DEF AiInv, AiTypeOK, OneCallPerStory
<1>1. ASSUME SeatMessage \/ QueueMessage \/ AlarmEvent
      PROVE  AiInv'
  BY <1>0, <1>1, RoomEventsKeepRows
<1>2. ASSUME NEW st \in Story, NEW x \in Text, EditStory(st, x)
      PROVE  AiInv'
  BY <1>0, <1>2 DEF EditStory
<1>3. ASSUME NEW st \in Story, RequestCall(st)
      PROVE  AiInv'
  <2> DEFINE c == [story |-> st, text |-> text[st], phase |-> "waiting"]
  <2>1. c \in Call /\ c.story = st
    BY DEF Call
  <2>2. \A d \in calls : d.story # st
    BY <1>3 DEF RequestCall
  <2>3. calls' = calls \cup {c} /\ UNCHANGED <<text, shared, cached>>
    BY <1>3 DEF RequestCall
  <2>4. /\ aiState' = [aiState EXCEPT ![st] = "pending"] /\ spent' = spent + 1
        /\ aiState[st] \in {"none", "failed"} /\ spent < Limit
    BY <1>3 DEF RequestCall
  <2> HIDE DEF c
  <2>5. AiTypeOK'
    BY <1>0, <2>1, <2>3, <2>4
  <2>6. OneCallPerStory'
    BY <2>1, <2>2, <2>3, <2>4 DEF Call
  <2> QED  BY <2>5, <2>6
<1>4. ASSUME NEW st \in Story, RequestRefused(st) \/ RequestAgain(st)
      PROVE  AiInv'
  BY <1>0, <1>4 DEF RequestRefused, RequestAgain, aiRows
<1>5. ASSUME NEW st \in Story, RequestCached(st)
      PROVE  AiInv'
  <2>1. \A d \in calls : d.story # st
    BY <1>5 DEF RequestCached
  <2>2. /\ aiState' = [aiState EXCEPT ![st] = "ready"]
        /\ shared' = [shared EXCEPT ![st] = FALSE]
        /\ UNCHANGED <<text, cached, spent, calls>>
    BY <1>5 DEF RequestCached, Answered
  <2>3. AiTypeOK'
    BY <1>0, <2>2
  <2>4. OneCallPerStory'
    BY <2>1, <2>2 DEF Call
  <2> QED  BY <2>3, <2>4
<1>6. ASSUME NEW st \in Story, ShareAi(st)
      PROVE  AiInv'
  BY <1>0, <1>6 DEF ShareAi, MarkShared
<1>7. ASSUME NEW c \in calls, HeadersArrive(c)
      PROVE  AiInv'
  <2> DEFINE d == [c EXCEPT !.phase = "reading"]
  <2>1. d \in Call /\ d.story = c.story
    BY DEF Call
  <2>2. calls' = (calls \ {c}) \cup {d} /\ UNCHANGED <<text, aiState, shared, cached, spent>>
    BY <1>7 DEF HeadersArrive
  <2> HIDE DEF d
  <2> QED  BY <1>0, <2>1, <2>2
<1>8. ASSUME NEW c \in calls, CallAnswers(c)
      PROVE  AiInv'
  <2>1. /\ aiState' = [aiState EXCEPT ![c.story] = "ready"]
        /\ shared' = [shared EXCEPT ![c.story] = FALSE]
        /\ calls' = calls \ {c} /\ cached' = cached \cup {c.text}
        /\ UNCHANGED <<text, spent>>
    BY <1>8 DEF CallAnswers, Answered, PutCache
  <2>2. c.story \in Story /\ c.text \in Text
    BY DEF Call
  <2>3. AiTypeOK'
    BY <1>0, <2>1, <2>2
  <2>4. OneCallPerStory'
    BY <2>1, <2>2 DEF Call
  <2> QED  BY <2>3, <2>4
<1>9. ASSUME NEW c \in calls, CallFails(c)
      PROVE  AiInv'
  <2>1. /\ aiState' = [aiState EXCEPT ![c.story] = "failed"]
        /\ shared' = [shared EXCEPT ![c.story] = FALSE]
        /\ calls' = calls \ {c}
        /\ UNCHANGED <<text, cached, spent>>
    BY <1>9 DEF CallFails
  <2>2. c.story \in Story
    BY DEF Call
  <2>3. AiTypeOK'
    BY <1>0, <2>1, <2>2
  <2>4. OneCallPerStory'
    BY <2>1, <2>2 DEF Call
  <2> QED  BY <2>3, <2>4
<1>10. ASSUME HourTurns \/ CallLost
       PROVE  AiInv'
  BY <1>0, <1>10 DEF HourTurns, CallLost
<1>11. ASSUME UNCHANGED aiVars
       PROVE  AiInv'
  BY <1>0, <1>11 DEF aiVars, aiRows
<1> HIDE DEF AiInv
<1> QED  BY <1>1, <1>2, <1>3, <1>4, <1>5, <1>6, <1>7, <1>8, <1>9, <1>10, <1>11, AiCases

(* The two hold in every state.                                            *)
LEMMA AiAlways == AiSpec => []AiInv
  BY AiInitInv, AiStep, PTL DEF AiSpec

(* Every row of AI is well typed and only an answer is shared              *)
(* (operations.ts, ai.ts).                                                 *)
THEOREM AiTypeCorrect == AiSpec => []AiTypeOK
<1>1. AiInv => AiTypeOK
  BY DEF AiInv
<1> QED  BY <1>1, AiAlways, PTL

(* A story has one call at a time, and its row says so (dispatcher.ts      *)
(* handleRequestAi, room.ts runAiCall).                                    *)
THEOREM OneCallAlways == AiSpec => []OneCallPerStory
<1>1. AiInv => OneCallPerStory
  BY DEF AiInv
<1> QED  BY <1>1, AiAlways, PTL

-----------------------------------------------------------------------------
(* Answers stay, and cross to the room by being shared.                    *)

(* An answer is not overwritten, nor is it unshared (room.ts runAiCall).   *)
THEOREM AnswerAlwaysKept == AiSpec => AnswerKept
<1> DEFINE Kept == \A st \in Story : /\ aiState[st] = "ready" => aiState'[st] = "ready"
                                     /\ shared[st] => shared'[st]
<1>1. ASSUME AiInv, [AiNext \/ CallLost]_aiVars
      PROVE  Kept
  <2> USE <1>1 DEF AiInv, AiTypeOK
  <2>1. ASSUME SeatMessage \/ QueueMessage \/ AlarmEvent
        PROVE  Kept
    BY <2>1, RoomEventsKeepRows
  <2>2. ASSUME NEW st \in Story, RequestCall(st) \/ RequestCached(st)
        PROVE  Kept
    <3>1. aiState[st] # "ready" /\ ~shared[st]
      BY <2>2 DEF RequestCall, RequestCached
    <3>2. \A x \in Story : x # st => aiState'[x] = aiState[x] /\ shared'[x] = shared[x]
      BY <2>2 DEF RequestCall, RequestCached, Answered
    <3> QED  BY <3>1, <3>2
  <2>3. ASSUME NEW st \in Story, ShareAi(st)
        PROVE  Kept
    <3>1. aiState' = aiState /\ \A x \in Story : shared'[x] = shared[x] \/ shared'[x] = TRUE
      BY <2>3 DEF ShareAi, MarkShared
    <3> QED  BY <3>1
  <2>4. ASSUME NEW c \in calls, CallAnswers(c) \/ CallFails(c)
        PROVE  Kept
    <3>1. c.story \in Story
      BY DEF Call
    <3>2. aiState[c.story] # "ready" /\ ~shared[c.story]
      BY <3>1 DEF OneCallPerStory
    <3>3. \A x \in Story : x # c.story => aiState'[x] = aiState[x] /\ shared'[x] = shared[x]
      BY <2>4 DEF CallAnswers, CallFails, Answered
    <3> QED  BY <3>2, <3>3
  <2>5. UNCHANGED <<aiState, shared>> => Kept
    OBVIOUS
  <2> HIDE DEF Kept
  <2> QED  BY <1>1, <2>1, <2>2, <2>3, <2>4, <2>5, AiCases
           DEF EditStory, RequestRefused, RequestAgain, HeadersArrive, HourTurns, CallLost,
               aiVars, aiRows
<1>2. AiInv /\ [AiNext \/ CallLost]_aiVars => [Kept]_aiVars
  BY <1>1
<1> QED  BY <1>2, AiAlways, PTL DEF AiSpec, AnswerKept

(* What a room event sends along.                                          *)
LEMMA ProjectedAfter ==
    ASSUME NEW v, NEW st, NEW state, Projected(v, st, state), v # hostId'
    PROVE  shared[st] /\ state \in {"revealed", "committed"}
  BY DEF Projected

(* No trace of AI reaches anybody but the host before it is shared         *)
(* (broadcast.ts projectAiForRecipient and its callers).                   *)
THEOREM NoTraceEverBeforeShare == AiSpec => NoTraceBeforeShare
<1> DEFINE Traced == \A v \in Voter : \A st \in aware'[v] \ aware[v] :
                        v = hostId' \/ (shared'[st] /\ story'[st] \in {"revealed", "committed"})
<1>1. ASSUME AiInv, TypeInv, [AiNext \/ CallLost]_aiVars
      PROVE  Traced
  <2> USE <1>1 DEF AiInv, AiTypeOK
  <2>1. UNCHANGED aware => Traced
    OBVIOUS
  <2>2. ASSUME NEW w, Snapshot(w), story' = story, shared' = shared
        PROVE  Traced
    <3> SUFFICES ASSUME NEW v \in Voter, NEW st \in aware'[v] \ aware[v], v # hostId'
                 PROVE  shared'[st] /\ story'[st] \in {"revealed", "committed"}
      OBVIOUS
    <3>1. v = w /\ Projected(w, st, story[st])
      BY <2>2 DEF Snapshot
    <3> QED  BY <2>2, <3>1, ProjectedAfter
  <2>3. ASSUME NEW sts \in SUBSET Story, RevealCarries(sts), shared' = shared,
               \A st \in sts : story'[st] = "revealed"
        PROVE  Traced
    <3> SUFFICES ASSUME NEW v \in Voter, NEW st \in aware'[v] \ aware[v], v # hostId'
                 PROVE  shared'[st] /\ story'[st] \in {"revealed", "committed"}
      OBVIOUS
    <3>1. st \in sts /\ Projected(v, st, "revealed")
      BY <2>3 DEF RevealCarries
    <3> QED  BY <2>3, <3>1, ProjectedAfter
  <2>4. ASSUME NEW st \in Story, SendToHost(st), hostId' = hostId
        PROVE  Traced
    BY <2>4 DEF SendToHost
  <2>5. ASSUME SeatMessage
        PROVE  Traced
    <3>1. story' = story /\ shared' = shared
      BY <2>5 DEF SeatMessage, aiRows, JoinResume, JoinNew, ReJoin, CloseSocket, ClaimHost,
                  TransferHost, storyVars
    <3> QED  BY <2>1, <2>2, <2>5, <3>1 DEF SeatMessage
  <2>6. ASSUME QueueMessage
        PROVE  Traced
    <3>1. ASSUME NEW st \in Story, RevealVotes(st), RevealCarries({st}), shared' = shared
          PROVE  Traced
      <4>1. story'[st] \in {"revealed"}
        BY <1>1, <3>1 DEF RevealVotes, RevealRow, TypeInv, TypeOK
      <4> QED  BY <2>3, <3>1, <4>1
    <3> QED  BY <2>1, <2>6, <3>1 DEF QueueMessage, aiRows
  <2>7. ASSUME AlarmEvent
        PROVE  Traced
    <3>1. CASE UNCHANGED aware
      BY <2>1, <3>1
    <3>2. CASE /\ RevealCarries({st \in ActiveStories : story'[st] = "revealed"})
               /\ UNCHANGED aiRows
      BY <2>3, <3>2 DEF aiRows, ActiveStories
    <3> QED  BY <2>7, <3>1, <3>2 DEF AlarmEvent
  <2>8. ASSUME NEW st \in Story, ShareAi(st), UNCHANGED vars
        PROVE  Traced
    <3>1. /\ story[st] \in {"revealed", "committed"} /\ story' = story
          /\ shared'[st] = TRUE
          /\ \A v \in Voter : aware'[v] \ aware[v] \subseteq {st}
      BY <2>8 DEF ShareAi, MarkShared, vars
    <3> QED  BY <3>1
  <2>9. ASSUME NEW st \in Story, RequestCached(st) \/ RequestAgain(st), UNCHANGED vars
        PROVE  Traced
    BY <2>4, <2>9 DEF RequestCached, RequestAgain, vars
  <2>10. ASSUME NEW c \in calls, CallAnswers(c) \/ CallFails(c), UNCHANGED vars
         PROVE  Traced
    BY <2>4, <2>10 DEF CallAnswers, CallFails, Call, vars
  <2> HIDE DEF Traced
  <2> QED  BY <1>1, <2>1, <2>5, <2>6, <2>7, <2>8, <2>9, <2>10, AiCases
           DEF EditStory, RequestCall, RequestRefused, HeadersArrive, HourTurns, CallLost,
               aiVars
<1>2. AiInv /\ TypeInv /\ [AiNext \/ CallLost]_aiVars =>
        [\A v \in Voter : \A st \in aware'[v] \ aware[v] :
            \/ v = hostId'
            \/ shared'[st] /\ story'[st] \in {"revealed", "committed"}]_aiVars
  BY <1>1
<1>3. AiSpec => []TypeInv
  BY AiKeepsRoom, InitTypeInv, TypeStep, PTL DEF Spec
<1> HIDE DEF Traced
<1> QED  BY <1>2, <1>3, AiAlways, PTL DEF AiSpec, NoTraceBeforeShare

-----------------------------------------------------------------------------
(* The room with browsers.                                                 *)

(* Every event with its broadcast is an event of the room or leaves it     *)
(* alone.                                                                  *)
LEMMA ClientsStepIsRoomStep == [ClientsNext]_clientVars => [Next]_vars
<1> SUFFICES ASSUME [ClientsNext]_clientVars PROVE [Next]_vars
  OBVIOUS
<1>1. CASE /\ JoinEvent \/ ReJoinEvent \/ CloseEvent \/ SeatEvent
           /\ ~draining
           /\ UNCHANGED clockVars
  <2>1. HostMessage
    BY <1>1 DEF HostMessage, JoinEvent, ReJoinEvent, CloseEvent, SeatEvent
  <2> QED  BY <2>1 DEF Next
<1>2. CASE /\ OpenEvent \/ CastEvent \/ AddEvent \/ FinishEvent \/ AsyncEvent
           /\ ~draining
           /\ UNCHANGED <<voterVars, clockVars>>
  <2>1. StoryMessage
    BY <1>2 DEF StoryMessage, OpenEvent, CastEvent, AddEvent, FinishEvent, AsyncEvent
  <2> QED  BY <2>1 DEF Next
<1>3. CASE TaskEvent \/ AlarmFires \/ AlarmDone \/ Tick
  BY <1>3 DEF TaskEvent, Next
<1>4. CASE LateClaim \/ UNCHANGED clientVars
  BY <1>4 DEF LateClaim, clientVars
<1> QED  BY <1>1, <1>2, <1>3, <1>4 DEF ClientsNext

(* Broadcasting takes nothing from the room and adds nothing to it         *)
(* (dispatcher.ts, broadcast.ts): what is proved of Room holds beside the  *)
(* browsers.                                                               *)
THEOREM ClientsKeepRoom == ClientsSpec => Spec
<1>1. ClientsInit => Init
  BY DEF ClientsInit
<1> QED  BY <1>1, ClientsStepIsRoomStep, PTL DEF ClientsSpec, Spec

(* The host's seat under the browsers.                                     *)
LEMMA ClientsCover == ClientsSpec => []CoverInv
  BY ClientsKeepRoom, CoverAlways, PTL

-----------------------------------------------------------------------------
(* What each message leaves alone.                                         *)

SameRoster(x, w) == x.host = w.host /\ x.role = w.role /\ x.conn = w.conn

SameStories(x, w) == /\ x.story = w.story /\ x.flag = w.flag
                     /\ x.revealed = w.revealed /\ x.mine = w.mine

SameRoom(x, w) == x.state = w.state /\ x.window = w.window

(* HOST_RECLAIMED moves the seat and ends a vacancy.                       *)
LEMMA ReclaimedFields ==
    ASSUME NEW w \in View, NEW v \in Voter, NEW x, x = ApplyHostReclaimed(w, v)
    PROVE  /\ x \in View /\ SameStories(x, w) /\ x.conn = w.conn
           /\ x.host = v /\ x.window = w.window
           /\ x.role = [w.role EXCEPT ![w.host] = "voter", ![v] = "host"]
           /\ x.state = IF w.state = "host_vacant" THEN "active" ELSE w.state
  BY DEF View, ApplyHostReclaimed, SameStories, RoomState, Role

(* VOTER_JOINED writes one voter's row.                                    *)
LEMMA JoinedFields ==
    ASSUME TypeInv', NEW w \in View, NEW v \in Voter, NEW x, x = VoterJoined(w, v)
    PROVE  /\ x \in View /\ SameStories(x, w) /\ SameRoom(x, w) /\ x.host = w.host
           /\ x.role = [w.role EXCEPT ![v] = role'[v]]
           /\ x.conn = [w.conn EXCEPT ![v] = conn'[v]]
<1>1. role'[v] \in Role /\ conn'[v] \in Conn
  BY DEF TypeInv, TypeOK
<1> QED  BY <1>1 DEF View, VoterJoined, SameStories, SameRoom

(* VOTER_LEFT marks one voter.                                             *)
LEMMA LeftFields ==
    ASSUME NEW w \in View, NEW v \in Voter, NEW x, x = VoterLeft(w, v)
    PROVE  /\ x \in View /\ SameStories(x, w) /\ SameRoom(x, w) /\ x.host = w.host
           /\ x.role = w.role
           /\ w.role[v] # "none" => x.conn = [w.conn EXCEPT ![v] = "left"]
  BY DEF View, VoterLeft, SameStories, SameRoom, Conn

(* The messages about the room's own state.                                *)
LEMMA RoomFields ==
    ASSUME NEW w \in View, NEW state \in RoomState
    PROVE  /\ RoomStateChanged(w, state) \in View
           /\ SameStories(RoomStateChanged(w, state), w)
           /\ SameRoster(RoomStateChanged(w, state), w)
           /\ RoomStateChanged(w, state).state = state
           /\ RoomStateChanged(w, state).window = w.window
           /\ AsyncWindowClosed(w) \in View
           /\ SameStories(AsyncWindowClosed(w), w)
           /\ SameRoster(AsyncWindowClosed(w), w)
           /\ AsyncWindowClosed(w).state = "review"
           /\ AsyncWindowClosed(w).window = NoTime
           /\ ApplyHostVacant(w) = RoomStateChanged(w, "host_vacant")
  BY DEF View, RoomStateChanged, AsyncWindowClosed, ApplyHostVacant, SameStories,
         SameRoster, Time, RoomState

(* What a mark makes of a store: the stories of the list change state.   *)
Marks(x, w, sts, state) ==
    /\ x \in View /\ SameRoster(x, w) /\ SameRoom(x, w)
    /\ x.flag = w.flag /\ x.revealed = w.revealed /\ x.mine = w.mine
    /\ \A st \in Story : x.story[st] =
         IF st \in sts /\ w.story[st] # "absent" THEN state ELSE w.story[st]

(* STORY_SKIPPED and its like mark a story.                                *)
LEMMA MarkFields ==
    ASSUME NEW w \in View, NEW sts \in SUBSET Story, NEW state \in StoryState, NEW x,
           x = Mark(w, sts, state)
    PROVE  Marks(x, w, sts, state)
  BY DEF Marks, View, Mark, SameRoster, SameRoom

(* What the opening of a round makes of a store.                           *)
Opens(x, w, st) ==
    /\ x \in View /\ SameRoster(x, w) /\ SameRoom(x, w) /\ x.flag = w.flag
    /\ x.revealed = w.revealed \ {st} /\ x.mine = w.mine \ {st}
    /\ \A y \in Story : x.story[y] =
         IF w.story[y] = "absent" THEN "absent"
         ELSE IF y = st THEN "active"
         ELSE IF w.story[y] = "active" THEN "pending" ELSE w.story[y]

(* VOTING_OPENED clears the old round.                                     *)
LEMMA OpenedFields ==
    ASSUME NEW w \in View, NEW st \in Story, NEW x, x = VotingOpened(w, st)
    PROVE  Opens(x, w, st)
<1> DEFINE states == [y \in Story |-> CASE y = st /\ w.story[y] # "absent" -> "active"
                                        [] y # st /\ w.story[y] = "active" -> "pending"
                                        [] OTHER -> w.story[y]]
<1>1. \A y \in Story : states[y] = IF w.story[y] = "absent" THEN "absent"
                                   ELSE IF y = st THEN "active"
                                   ELSE IF w.story[y] = "active" THEN "pending"
                                   ELSE w.story[y]
  <2> TAKE y \in Story
  <2>1. CASE w.story[y] = "absent"
    BY <2>1
  <2>2. CASE w.story[y] # "absent" /\ y = st
    BY <2>2
  <2>3. CASE w.story[y] # "absent" /\ y # st
    BY <2>3
  <2> QED  BY <2>1, <2>2, <2>3
<1>2. states \in [Story -> StoryState]
  BY DEF View, StoryState
<1>3. x = [w EXCEPT !.story = states, !.revealed = @ \ {st}, !.mine = @ \ {st}]
  BY DEF VotingOpened
<1> HIDE DEF states
<1> QED  BY <1>1, <1>2, <1>3 DEF Opens, View, SameRoster, SameRoom

(* STORY_ADDED appends a pending story.                                    *)
LEMMA AddedFields ==
    ASSUME NEW w \in View, NEW st \in Story, NEW x, x = StoryAdded(w, st)
    PROVE  /\ x \in View /\ SameRoster(x, w) /\ SameRoom(x, w)
           /\ x.revealed = w.revealed /\ x.mine = w.mine
           /\ x.story = [w.story EXCEPT ![st] = "pending"]
           /\ x.flag = [w.flag EXCEPT ![st] = FALSE]
  BY DEF View, StoryAdded, SameRoster, SameRoom, StoryState

(* What a split makes of a store.                                          *)
Splits(x, w, st, children) ==
    /\ x \in View /\ SameRoster(x, w) /\ SameRoom(x, w)
    /\ x.revealed = w.revealed /\ x.mine = w.mine
    /\ \A y \in Story :
         /\ x.story[y] = IF y \in children THEN "pending"
                         ELSE IF y = st /\ w.story[y] # "absent" THEN "split"
                         ELSE w.story[y]
         /\ x.flag[y] = IF y \in children THEN FALSE ELSE w.flag[y]

(* STORY_SPLIT ends the parent and appends the children.                   *)
LEMMA SplitFields ==
    ASSUME NEW w \in View, NEW st \in Story, NEW children \in SUBSET Story, NEW x,
           x = StorySplit(w, st, children)
    PROVE  Splits(x, w, st, children)
<1> DEFINE m == Mark(w, {st}, "split")
<1>1. Marks(m, w, {st}, "split")
  BY MarkFields DEF StoryState
<1> DEFINE states == [y \in Story |-> IF y \in children THEN "pending" ELSE m.story[y]]
           flags == [y \in Story |-> IF y \in children THEN FALSE ELSE w.flag[y]]
<1>2. x = [m EXCEPT !.story = states, !.flag = flags]
  BY DEF StorySplit
<1>3. /\ \A y \in Story : states[y] = IF y \in children THEN "pending" ELSE m.story[y]
      /\ \A y \in Story : flags[y] = IF y \in children THEN FALSE ELSE w.flag[y]
  OBVIOUS
<1> HIDE DEF m
<1>4. states \in [Story -> StoryState] /\ flags \in [Story -> BOOLEAN]
  BY <1>1 DEF Marks, View, StoryState
<1> HIDE DEF states, flags
<1>5. x \in View
  BY <1>1, <1>2, <1>4 DEF Marks, View
<1>6. x.story = states /\ x.flag = flags
  BY <1>1, <1>2 DEF Marks, View
<1>7. SameRoster(x, w) /\ SameRoom(x, w) /\ x.revealed = w.revealed /\ x.mine = w.mine
  BY <1>1, <1>2 DEF Marks, View, SameRoster, SameRoom
<1> QED  BY <1>1, <1>3, <1>5, <1>6, <1>7 DEF Marks, Splits

(* What a reveal makes of a store.                                         *)
Reveals(x, w, sts, byClose) ==
    /\ x \in View /\ SameRoster(x, w) /\ SameRoom(x, w)
    /\ x.revealed = w.revealed \cup sts /\ x.mine = w.mine
    /\ \A y \in Story :
         /\ x.story[y] = IF y \in sts /\ w.story[y] # "absent" THEN "revealed"
                         ELSE w.story[y]
         /\ x.flag[y] = IF byClose /\ y \in sts /\ w.story[y] # "absent"
                        THEN flagged'[y] ELSE w.flag[y]

(* VOTES_REVEALED lays the cards of the stories open.                      *)
LEMMA RevealedFields ==
    ASSUME TypeInv', NEW w \in View, NEW sts \in SUBSET Story, NEW byClose \in BOOLEAN,
           NEW x, x = VotesRevealed(w, sts, byClose)
    PROVE  Reveals(x, w, sts, byClose)
<1> DEFINE m == Mark(w, sts, "revealed")
<1>1. Marks(m, w, sts, "revealed")
  BY MarkFields DEF StoryState
<1> DEFINE flags == [y \in Story |-> IF byClose /\ y \in sts /\ w.story[y] # "absent"
                                     THEN flagged'[y] ELSE w.flag[y]]
<1>2. x = [m EXCEPT !.revealed = @ \cup sts, !.flag = flags]
  BY DEF VotesRevealed
<1>3. flags \in [Story -> BOOLEAN]
  BY DEF TypeInv, TypeOK, View
<1>4. \A y \in Story : flags[y] = IF byClose /\ y \in sts /\ w.story[y] # "absent"
                                  THEN flagged'[y] ELSE w.flag[y]
  OBVIOUS
<1> HIDE DEF m, flags
<1>5. x.revealed = w.revealed \cup sts /\ x.flag = flags
  BY <1>1, <1>2, <1>3 DEF Marks, View
<1>6. x \in View
  <2>1. m.revealed \cup sts \in SUBSET Story
    BY <1>1 DEF Marks, View
  <2> QED  BY <1>1, <1>2, <1>3, <2>1 DEF Marks, View
<1>7. SameRoster(x, w) /\ SameRoom(x, w) /\ x.story = m.story /\ x.mine = w.mine
  BY <1>1, <1>2 DEF Marks, View, SameRoster, SameRoom
<1> QED  BY <1>1, <1>4, <1>5, <1>6, <1>7 DEF Marks, Reveals

(* ASYNC_WINDOW_OPENED activates the listed stories and stamps the window. *)
LEMMA WindowOpenedFields ==
    ASSUME NEW w \in View, NEW sts \in SUBSET Story, NEW at \in Time, NEW x,
           x = AsyncWindowOpened(w, sts, at)
    PROVE  /\ x \in View /\ SameRoster(x, w)
           /\ x.flag = w.flag /\ x.revealed = w.revealed /\ x.mine = w.mine
           /\ x.state = "active" /\ x.window = at
           /\ \A st \in Story : x.story[st] =
                IF st \in sts /\ w.story[st] # "absent" THEN "active" ELSE w.story[st]
<1> DEFINE m == Mark(w, sts, "active")
<1>1. Marks(m, w, sts, "active")
  BY MarkFields DEF StoryState
<1>2. x = [m EXCEPT !.state = "active", !.window = at]
  BY DEF AsyncWindowOpened
<1> HIDE DEF m
<1>3. x \in View
  BY <1>1, <1>2 DEF Marks, View, RoomState
<1>4. SameRoster(x, w) /\ x.state = "active" /\ x.window = at
  BY <1>1, <1>2 DEF Marks, View, SameRoster
<1>5. /\ x.flag = w.flag /\ x.revealed = w.revealed /\ x.mine = w.mine
      /\ x.story = m.story
  BY <1>1, <1>2 DEF Marks, View
<1> QED  BY <1>1, <1>3, <1>4, <1>5 DEF Marks

(* What the snapshot for the voter v says.                                 *)
LEMMA SnapshotFields ==
    ASSUME TypeInv, TypeInv', UNCHANGED <<story, flagged>>, NEW v, NEW x \in Snapshots(v)
    PROVE  /\ x \in View
           /\ x.host = hostId' /\ x.role = role' /\ x.conn = conn'
           /\ x.state = roomState' /\ x.window = window'
           /\ x.mine = {st \in ActiveStories : <<v, st>> \in cast}
           /\ x.revealed \subseteq Finished
           /\ \A st \in Story :
                /\ x.story[st] # "absent" =>
                     x.story[st] = story[st] /\ x.flag[st] = flagged[st]
                /\ x.story[st] \in {"revealed", "committed"} => st \in x.revealed
<1>1. PICK kept \in SUBSET Finished :
        x = [state |-> roomState', host |-> hostId', window |-> window',
             story |-> [st \in Story |-> IF st \in ActiveStories \cup kept
                                         THEN story[st] ELSE "absent"],
             flag |-> [st \in Story |-> st \in ActiveStories \cup kept /\ flagged[st]],
             role |-> role', conn |-> conn', revealed |-> kept,
             mine |-> {st \in ActiveStories : <<v, st>> \in cast}]
  BY DEF Snapshots
<1>2. /\ roomState' \in RoomState /\ hostId' \in Voter /\ window' \in Time
      /\ role' \in [Voter -> Role] /\ conn' \in [Voter -> Conn]
      /\ story \in [Story -> StoryState] /\ flagged \in [Story -> BOOLEAN]
  BY DEF TypeInv, TypeOK
<1>3. \A st \in Story : st \in ActiveStories \/ st \in Finished => story[st] # "absent"
  BY DEF ActiveStories, Finished
<1>4. x \in View
  <2>1. [st \in Story |-> IF st \in ActiveStories \cup kept THEN story[st] ELSE "absent"]
            \in [Story -> StoryState]
    BY <1>2 DEF StoryState
  <2>2. [st \in Story |-> st \in ActiveStories \cup kept /\ flagged[st]] \in [Story -> BOOLEAN]
    OBVIOUS
  <2>3. kept \in SUBSET Story /\ {st \in ActiveStories : <<v, st>> \in cast} \in SUBSET Story
    BY DEF Finished, ActiveStories
  <2> QED  BY <1>1, <1>2, <2>1, <2>2, <2>3 DEF View
<1>5. \A st \in Story : st \in ActiveStories => story[st] = "active"
  BY DEF ActiveStories
<1> QED  BY <1>1, <1>2, <1>3, <1>4, <1>5 DEF Finished

-----------------------------------------------------------------------------
(* The inductive invariant.                                                *)

(* A story that has not been voted on has no flag and no vote row, and no  *)
(* browser keeps cards or an own vote of it.                               *)
FreshStories ==
    \A st \in Story : story[st] \in {"absent", "pending"} =>
        /\ ~flagged[st]
        /\ \A c \in cast : c[2] # st
        /\ \A s \in Watching : st \notin view[s].revealed \cup view[s].mine

(* Only the close of a window sets the discuss flag.                       *)
SyncUnflagged == Mode = "sync" => \A st \in Story : ~flagged[st]

StoriesInv == FreshStories /\ StoriesAgree /\ RoundAgrees

ClientsInv == /\ CoverInv /\ ClientsTypeOK /\ SyncUnflagged
              /\ RosterAgrees /\ RoomAgrees /\ StoriesInv

(* One store that agrees with the room.                                    *)
ShowsRoster(w) == w.host = hostId /\ w.role = role /\ w.conn = conn

ShowsRoom(w) == /\ window # NoTime => w.window = window
                /\ roomState = "host_vacant" => w.state = "host_vacant"
                /\ Mode = "sync" => w.state = roomState

ShowsRoomNext(w) == /\ window' # NoTime => w.window = window'
                    /\ roomState' = "host_vacant" => w.state = "host_vacant"
                    /\ Mode = "sync" => w.state = roomState'

(* A store that moves from w to x with nothing said about stories.         *)
Quiet(s) ==
    \/ view'[s] \in Snapshots(boundTo'[s])
    \/ boundTo'[s] = boundTo[s] /\ SameStories(view'[s], view[s])

(* What a browser shows of the room's rows stays so while neither moves.   *)
LEMMA QuietStories ==
    ASSUME StoriesInv, TypeInv, TypeInv', UNCHANGED <<story, flagged, cast>>,
           \A s \in Socket : boundTo'[s] # NoVoter => Quiet(s)
    PROVE  StoriesInv'
<1>1. ASSUME NEW s \in Socket, boundTo'[s] # NoVoter, NEW st \in Story
      PROVE  /\ story[st] \in {"absent", "pending"} =>
                    st \notin view'[s].revealed \cup view'[s].mine
             /\ view'[s].story[st] # "absent" =>
                    view'[s].story[st] = story[st] /\ view'[s].flag[st] = flagged[st]
             /\ view'[s].story[st] \in {"revealed", "committed"} => st \in view'[s].revealed
             /\ view'[s].story[st] = "active" =>
                    /\ st \notin view'[s].revealed
                    /\ st \in view'[s].mine <=> <<boundTo'[s], st>> \in cast
  <2>1. CASE view'[s] \in Snapshots(boundTo'[s])
    <3> DEFINE x == view'[s]
    <3>1. /\ x.mine = {y \in ActiveStories : <<boundTo'[s], y>> \in cast}
          /\ x.revealed \subseteq Finished
          /\ x.story[st] # "absent" => x.story[st] = story[st] /\ x.flag[st] = flagged[st]
          /\ x.story[st] \in {"revealed", "committed"} => st \in x.revealed
      BY <2>1, SnapshotFields
    <3> HIDE DEF x
    <3>2. /\ st \in x.mine => story[st] = "active"
          /\ st \in x.revealed => story[st] \in {"revealed", "committed"}
          /\ story[st] = "active" => (st \in x.mine <=> <<boundTo'[s], st>> \in cast)
      BY <3>1 DEF ActiveStories, Finished
    <3>3. x.story[st] = "active" => story[st] = "active"
      BY <3>1
    <3> QED  BY <3>1, <3>2, <3>3 DEF x
  <2>2. CASE boundTo'[s] = boundTo[s] /\ SameStories(view'[s], view[s])
    <3>1. s \in Watching
      BY <1>1, <2>2 DEF Watching
    <3> QED  BY <2>2, <3>1 DEF SameStories, StoriesInv, FreshStories, StoriesAgree, RoundAgrees
  <2> QED  BY <1>1, <2>1, <2>2 DEF Quiet
<1>2. FreshStories'
  <2>1. \A st \in Story : story[st] \in {"absent", "pending"} =>
            ~flagged[st] /\ \A c \in cast : c[2] # st
    BY DEF StoriesInv, FreshStories
  <2> QED  BY <1>1, <2>1 DEF FreshStories, Watching
<1>3. StoriesAgree' /\ RoundAgrees'
  BY <1>1 DEF StoriesAgree, RoundAgrees, Watching
<1> QED  BY <1>2, <1>3 DEF StoriesInv

-----------------------------------------------------------------------------
(* The seat.                                                               *)

(* HOST_RECLAIMED shows what setRoomHost wrote.                            *)
LEMMA ReclaimShown ==
    ASSUME CoverInv, SyncUnflagged, NEW v \in Voter, SetRoomHost(v), window' = window,
           NEW w \in View, ShowsRoster(w), ShowsRoom(w), NEW x, x = ApplyHostReclaimed(w, v)
    PROVE  /\ x \in View /\ SameStories(x, w)
           /\ x.host = hostId' /\ x.role = role' /\ x.conn = conn /\ ShowsRoomNext(x)
<1>1. /\ x \in View /\ SameStories(x, w) /\ x.conn = w.conn
      /\ x.host = v /\ x.window = w.window
      /\ x.role = [w.role EXCEPT ![w.host] = "voter", ![v] = "host"]
      /\ x.state = IF w.state = "host_vacant" THEN "active" ELSE w.state
  BY ReclaimedFields
<1>2. x.host = hostId' /\ x.role = role' /\ x.conn = conn
  BY <1>1 DEF SetRoomHost, ShowsRoster
<1>3. roomState' # "host_vacant"
  BY DEF SetRoomHost, DeriveReclaimRoomState
<1>4. Mode = "sync" => x.state = roomState'
  BY <1>1 DEF SetRoomHost, DeriveReclaimRoomState, StillToDiscuss, SyncUnflagged, ShowsRoom
<1> QED  BY <1>1, <1>2, <1>3, <1>4 DEF ShowsRoom, ShowsRoomNext

(* The announcement of a reclaim that comes with a join.                   *)
LEMMA ReturnShown ==
    ASSUME CoverInv, SyncUnflagged, NEW v \in Voter, HostReturns(v), window' = window,
           NEW w \in View, ShowsRoster(w), ShowsRoom(w), NEW x,
           x = IF roomState' # roomState THEN ApplyHostReclaimed(w, v) ELSE w
    PROVE  /\ x \in View /\ SameStories(x, w)
           /\ x.host = hostId' /\ x.role = role' /\ x.conn = conn /\ ShowsRoomNext(x)
<1>1. CASE UNCHANGED <<roomState, hostId, role>>
  BY <1>1 DEF ShowsRoster, ShowsRoom, ShowsRoomNext, SameStories
<1>2. CASE roomState = "host_vacant" /\ SetRoomHost(v)
  <2>1. roomState' # roomState
    BY <1>2 DEF SetRoomHost, DeriveReclaimRoomState
  <2> QED  BY <1>2, <2>1, ReclaimShown
<1> QED  BY <1>1, <1>2 DEF HostReturns

(* What follows for all browsers of an event of the seat.                  *)
LEMMA SeatShown ==
    ASSUME CoverInv', cast' = cast, ClientsTypeOK, CoverInv,
           \A v \in Voter : role[v] \in {"host", "voter"} => role'[v] \in {"host", "voter"},
           view' \in [Socket -> View], UNCHANGED storyVars, SyncUnflagged, StoriesInv,
           \A s \in Socket : boundTo'[s] # NoVoter =>
                /\ Quiet(s)
                /\ view'[s].host = hostId' /\ view'[s].role = role' /\ view'[s].conn = conn'
                /\ window' # NoTime => view'[s].window = window'
                /\ roomState' = "host_vacant" => view'[s].state = "host_vacant"
                /\ Mode = "sync" => view'[s].state = roomState'
    PROVE  ClientsInv'
<1>1. TypeInv /\ TypeInv'
  BY DEF CoverInv, SeatInv
<1>2. StoriesInv'
  BY <1>1, QuietStories DEF storyVars
<1>3. ClientsTypeOK'
  BY DEF ClientsTypeOK
<1>4. SyncUnflagged'
  BY DEF SyncUnflagged, storyVars
<1>5. RosterAgrees' /\ RoomAgrees'
  BY DEF RosterAgrees, RoomAgrees, Watching
<1> QED  BY <1>2, <1>3, <1>4, <1>5 DEF ClientsInv

(* Whoever may vote stays somebody who may.                                *)
LEMMA VotersStay ==
    ASSUME TypeInv,
           \/ \E v \in Voter : SetRoomHost(v) \/ HostReturns(v)
           \/ \E v \in Voter, r \in {"voter", "spectator"} : AddVoter(v, r)
           \/ role' = role
    PROVE  \A v \in Voter : role[v] \in {"host", "voter"} => role'[v] \in {"host", "voter"}
<1>1. ASSUME NEW v \in Voter, SetRoomHost(v)
      PROVE  \A w \in Voter : role[w] \in {"host", "voter"} => role'[w] \in {"host", "voter"}
  BY <1>1 DEF SetRoomHost, TypeInv, TypeOK
<1>2. ASSUME NEW v \in Voter, NEW r \in {"voter", "spectator"}, AddVoter(v, r)
      PROVE  \A w \in Voter : role[w] \in {"host", "voter"} => role'[w] \in {"host", "voter"}
  BY <1>2 DEF AddVoter, TypeInv, TypeOK
<1> QED  BY <1>1, <1>2 DEF HostReturns

(* A join is shown by its snapshot and its announcement.                   *)
LEMMA JoinEventShown ==
    ASSUME ClientsInv, CoverInv', JoinEvent
    PROVE  ClientsInv'
<1>1. PICK s \in Socket, v \in Voter :
        /\ JoinResume(s, v) \/ \E r \in {"voter", "spectator"} : JoinNew(s, v, r)
        /\ Joins(s, v)
  BY DEF JoinEvent
<1>2. TypeInv /\ TypeInv' /\ SeatInv
  BY DEF ClientsInv, CoverInv, SeatInv
<1>3. /\ boundTo[s] = NoVoter /\ boundTo' = [boundTo EXCEPT ![s] = v]
      /\ window' = window /\ UNCHANGED storyVars /\ cast' = cast
      /\ conn' = [conn EXCEPT ![v] = "connected"]
  BY <1>1 DEF JoinResume, ResumeVoter, JoinNew, AddVoter, roomVars, JoinEvent
<1>4. \/ HostReturns(v)
      \/ /\ UNCHANGED <<roomState, hostId>>
         /\ \E r \in {"voter", "spectator"} : AddVoter(v, r)
  BY <1>1 DEF JoinResume, JoinNew, roomVars
<1>5. PICK snapshot \in Snapshots(v) :
        view' = [x \in Socket |->
                   IF x = s THEN snapshot
                   ELSE IF boundTo[x] = NoVoter THEN view[x]
                   ELSE VoterJoined(IF roomState' # roomState
                                    THEN ApplyHostReclaimed(view[x], v)
                                    ELSE view[x], v)]
  BY <1>1 DEF Joins
<1>6. ASSUME NEW x \in Socket, x # s, boundTo[x] # NoVoter
      PROVE  /\ view'[x] \in View /\ SameStories(view'[x], view[x])
             /\ view'[x].host = hostId' /\ view'[x].role = role' /\ view'[x].conn = conn'
             /\ ShowsRoomNext(view'[x])
  <2> DEFINE w == view[x]
             u == IF roomState' # roomState THEN ApplyHostReclaimed(w, v) ELSE w
  <2>1. w \in View /\ ShowsRoster(w) /\ ShowsRoom(w)
    BY <1>6 DEF ClientsInv, ClientsTypeOK, RosterAgrees, RoomAgrees, Watching, ShowsRoster,
                ShowsRoom
  <2>2. view'[x] = VoterJoined(u, v)
    BY <1>5, <1>6
  <2> HIDE DEF w
  <2>3. /\ u \in View /\ SameStories(u, w) /\ u.host = hostId' /\ u.conn = conn
        /\ u.role \in [Voter -> Role] /\ \A y \in Voter : y # v => u.role[y] = role'[y]
        /\ ShowsRoomNext(u)
    <3>1. CASE HostReturns(v)
      <4>1. /\ u \in View /\ SameStories(u, w)
            /\ u.host = hostId' /\ u.role = role' /\ u.conn = conn /\ ShowsRoomNext(u)
        BY <1>3, <2>1, <3>1, ReturnShown DEF ClientsInv
      <4> QED  BY <1>2, <4>1 DEF TypeInv, TypeOK
    <3>2. CASE /\ UNCHANGED <<roomState, hostId>>
               /\ \E r \in {"voter", "spectator"} : AddVoter(v, r)
      <4>1. u = w
        BY <3>2
      <4>2. w.role \in [Voter -> Role] /\ w.role = role /\ w.host = hostId /\ w.conn = conn
        BY <2>1 DEF View, ShowsRoster
      <4>3. \A y \in Voter : y # v => role'[y] = role[y]
        BY <1>2, <3>2 DEF AddVoter, TypeInv, TypeOK
      <4> QED  BY <1>3, <2>1, <3>2, <4>1, <4>2, <4>3 DEF ShowsRoom, ShowsRoomNext, SameStories
    <3> QED  BY <1>4, <3>1, <3>2
  <2> HIDE DEF u
  <2>4. /\ view'[x] \in View /\ SameStories(view'[x], u) /\ SameRoom(view'[x], u)
        /\ view'[x].host = u.host
        /\ view'[x].role = [u.role EXCEPT ![v] = role'[v]]
        /\ view'[x].conn = [u.conn EXCEPT ![v] = conn'[v]]
    <3>1. u \in View /\ TypeInv'
      BY <1>2, <2>3
    <3> QED  BY ONLY <2>2, <3>1, JoinedFields
  <2>5. view'[x].role = role'
    BY <1>2, <2>3, <2>4 DEF TypeInv, TypeOK
  <2>6. view'[x].conn = conn'
    BY <1>2, <1>3, <2>3, <2>4 DEF TypeInv, TypeOK
  <2> QED  BY <2>3, <2>4, <2>5, <2>6 DEF SameStories, SameRoom, ShowsRoomNext, w
<1>7. /\ snapshot \in View /\ view'[s] = snapshot /\ boundTo'[s] = v
      /\ snapshot.host = hostId' /\ snapshot.role = role' /\ snapshot.conn = conn'
      /\ snapshot.state = roomState' /\ snapshot.window = window'
  BY <1>2, <1>3, <1>5, SnapshotFields DEF storyVars, TypeInv, TypeOK
<1>8. view' \in [Socket -> View]
  <2>1. ASSUME NEW x \in Socket PROVE view'[x] \in View
    <3>1. CASE x # s /\ boundTo[x] = NoVoter
      BY <1>5, <3>1 DEF ClientsInv, ClientsTypeOK
    <3> QED  BY <1>6, <1>7, <3>1
  <2>2. view' = [x \in Socket |-> view'[x]]
    BY <1>5
  <2> QED  BY <2>1, <2>2
<1>9. ASSUME NEW x \in Socket, boundTo'[x] # NoVoter
      PROVE  /\ Quiet(x)
             /\ view'[x].host = hostId' /\ view'[x].role = role' /\ view'[x].conn = conn'
             /\ window' # NoTime => view'[x].window = window'
             /\ roomState' = "host_vacant" => view'[x].state = "host_vacant"
             /\ Mode = "sync" => view'[x].state = roomState'
  <2>1. CASE x = s
    BY <1>7, <2>1 DEF Quiet
  <2>2. CASE x # s
    <3>1. boundTo'[x] = boundTo[x]
      BY <1>2, <1>3, <2>2 DEF TypeInv, TypeOK
    <3> QED  BY <1>6, <1>9, <2>2, <3>1 DEF Quiet, ShowsRoomNext
  <2> QED  BY <2>1, <2>2
<1>10. \A w \in Voter : role[w] \in {"host", "voter"} => role'[w] \in {"host", "voter"}
  BY <1>2, <1>4, VotersStay
<1> QED  BY <1>3, <1>8, <1>9, <1>10, SeatShown DEF ClientsInv

(* A store of a bound socket before the event.                             *)
LEMMA WatcherShows ==
    ASSUME ClientsInv, NEW s \in Socket, boundTo[s] # NoVoter
    PROVE  view[s] \in View /\ ShowsRoster(view[s]) /\ ShowsRoom(view[s])
  BY DEF ClientsInv, ClientsTypeOK, RosterAgrees, RoomAgrees, Watching, ShowsRoster, ShowsRoom

(* A repeated JOIN brings a snapshot, and to the others at most a reclaim. *)
LEMMA ReJoinEventShown ==
    ASSUME ClientsInv, CoverInv', ReJoinEvent
    PROVE  ClientsInv'
<1>1. PICK s \in Socket :
        /\ ReJoin(s)
        /\ \E snapshot \in Snapshots(boundTo[s]) :
              view' = [x \in Socket |->
                         IF x = s THEN snapshot
                         ELSE IF boundTo[x] # NoVoter /\ roomState' # roomState
                         THEN ApplyHostReclaimed(view[x], boundTo[s])
                         ELSE view[x]]
  BY DEF ReJoinEvent
<1> DEFINE v == boundTo[s]
<1>2. TypeInv /\ TypeInv' /\ SeatInv
  BY DEF ClientsInv, CoverInv, SeatInv
<1>3. /\ v \in Voter /\ HostReturns(v) /\ UNCHANGED <<window, conn, boundTo, storyVars>>
      /\ cast' = cast
  BY <1>1, <1>2 DEF ReJoin, TypeInv, TypeOK, ReJoinEvent
<1>4. PICK snapshot \in Snapshots(v) :
        view' = [x \in Socket |->
                   IF x = s THEN snapshot
                   ELSE IF boundTo[x] # NoVoter /\ roomState' # roomState
                   THEN ApplyHostReclaimed(view[x], v)
                   ELSE view[x]]
  BY <1>1
<1>5. boundTo'[s] = v
  BY <1>3
<1> HIDE DEF v
<1>6. ASSUME NEW x \in Socket, x # s, boundTo[x] # NoVoter
      PROVE  /\ view'[x] \in View /\ SameStories(view'[x], view[x])
             /\ view'[x].host = hostId' /\ view'[x].role = role' /\ view'[x].conn = conn'
             /\ ShowsRoomNext(view'[x])
  <2> DEFINE u == IF roomState' # roomState THEN ApplyHostReclaimed(view[x], v) ELSE view[x]
  <2>1. view'[x] = u
    BY <1>4, <1>6
  <2>2. /\ u \in View /\ SameStories(u, view[x])
        /\ u.host = hostId' /\ u.role = role' /\ u.conn = conn /\ ShowsRoomNext(u)
    <3>1. view[x] \in View /\ ShowsRoster(view[x]) /\ ShowsRoom(view[x])
      BY <1>6, WatcherShows
    <3> QED  BY <1>3, <3>1, ReturnShown DEF ClientsInv
  <2> QED  BY <1>3, <2>1, <2>2
<1>7. /\ snapshot \in View /\ view'[s] = snapshot
      /\ snapshot.host = hostId' /\ snapshot.role = role' /\ snapshot.conn = conn'
      /\ snapshot.state = roomState' /\ snapshot.window = window'
  BY <1>2, <1>3, <1>4, SnapshotFields DEF storyVars
<1>8. view' \in [Socket -> View]
  <2>1. ASSUME NEW x \in Socket PROVE view'[x] \in View
    <3>1. CASE x # s /\ boundTo[x] = NoVoter
      BY <1>4, <3>1 DEF ClientsInv, ClientsTypeOK
    <3> QED  BY <1>6, <1>7, <3>1
  <2>2. view' = [x \in Socket |-> view'[x]]
    BY <1>4
  <2> QED  BY <2>1, <2>2
<1>9. ASSUME NEW x \in Socket, boundTo'[x] # NoVoter
      PROVE  /\ Quiet(x)
             /\ view'[x].host = hostId' /\ view'[x].role = role' /\ view'[x].conn = conn'
             /\ window' # NoTime => view'[x].window = window'
             /\ roomState' = "host_vacant" => view'[x].state = "host_vacant"
             /\ Mode = "sync" => view'[x].state = roomState'
  <2>1. CASE x = s
    BY <1>5, <1>7, <2>1 DEF Quiet
  <2>2. CASE x # s
    BY <1>3, <1>6, <1>9, <2>2 DEF Quiet, ShowsRoomNext
  <2> QED  BY <2>1, <2>2
<1>10. \A w \in Voter : role[w] \in {"host", "voter"} => role'[w] \in {"host", "voter"}
  BY <1>2, <1>3, VotersStay
<1> QED  BY <1>3, <1>8, <1>9, <1>10, SeatShown DEF ClientsInv

(* An event that leaves the bindings alone and takes the bound stores to   *)
(* new ones.                                                               *)
LEMMA BroadcastShown ==
    ASSUME ClientsInv, CoverInv', UNCHANGED <<boundTo, cast, storyVars>>,
           view' \in [Socket -> View],
           \A v \in Voter : role[v] \in {"host", "voter"} => role'[v] \in {"host", "voter"},
           \A s \in Socket : boundTo[s] # NoVoter =>
                /\ SameStories(view'[s], view[s])
                /\ view'[s].host = hostId' /\ view'[s].role = role' /\ view'[s].conn = conn'
                /\ ShowsRoomNext(view'[s])
    PROVE  ClientsInv'
<1>1. ASSUME NEW x \in Socket, boundTo'[x] # NoVoter
      PROVE  /\ Quiet(x)
             /\ view'[x].host = hostId' /\ view'[x].role = role' /\ view'[x].conn = conn'
             /\ window' # NoTime => view'[x].window = window'
             /\ roomState' = "host_vacant" => view'[x].state = "host_vacant"
             /\ Mode = "sync" => view'[x].state = roomState'
  BY <1>1 DEF Quiet, ShowsRoomNext
<1> QED  BY <1>1, SeatShown DEF ClientsInv

(* A broadcast types every store if it types the bound ones.               *)
LEMMA BroadcastTyped ==
    ASSUME ClientsTypeOK, NEW new \in [Socket -> View], Broadcast(new)
    PROVE  /\ view' \in [Socket -> View]
           /\ \A s \in Socket : view'[s] = IF boundTo[s] # NoVoter THEN new[s] ELSE view[s]
  BY DEF ClientsTypeOK, Broadcast

(* VOTER_LEFT shows the closed socket's voter as the row says.             *)
LEMMA CloseEventShown ==
    ASSUME ClientsInv, CoverInv', CloseEvent
    PROVE  ClientsInv'
<1>1. PICK s \in Socket :
        /\ CloseSocket(s)
        /\ view' = [x \in Socket |->
                      IF x # s /\ boundTo[x] # NoVoter
                      THEN VoterLeft(view[x], boundTo[s]) ELSE view[x]]
  BY DEF CloseEvent
<1> DEFINE v == boundTo[s]
<1>2. TypeInv /\ TypeInv' /\ SeatInv
  BY DEF ClientsInv, CoverInv, SeatInv
<1>3. /\ v \in Voter /\ role[v] # "none"
      /\ conn' = [conn EXCEPT ![v] = "left"] /\ boundTo' = [boundTo EXCEPT ![s] = NoVoter]
      /\ UNCHANGED <<role, roomVars, storyVars>> /\ cast' = cast
  <2>1. /\ boundTo[s] # NoVoter
        /\ conn' = [conn EXCEPT ![boundTo[s]] = "left"]
        /\ boundTo' = [boundTo EXCEPT ![s] = NoVoter]
        /\ UNCHANGED <<role, roomVars, storyVars>>
    BY <1>1 DEF CloseSocket
  <2>2. boundTo[s] \in Voter /\ role[boundTo[s]] # "none"
    BY <1>2, <2>1 DEF TypeInv, TypeOK, SeatInv, RowsExist
  <2> QED  BY <2>1, <2>2 DEF CloseEvent
<1>4. \A x \in Socket : view'[x] = IF x # s /\ boundTo[x] # NoVoter
                                   THEN VoterLeft(view[x], v) ELSE view[x]
  BY <1>1
<1> HIDE DEF v
<1>5. ASSUME NEW x \in Socket, x # s, boundTo[x] # NoVoter
      PROVE  /\ view'[x] \in View /\ SameStories(view'[x], view[x])
             /\ view'[x].host = hostId' /\ view'[x].role = role' /\ view'[x].conn = conn'
             /\ ShowsRoomNext(view'[x])
  <2>1. view[x] \in View /\ ShowsRoster(view[x]) /\ ShowsRoom(view[x])
    BY <1>5, WatcherShows
  <2>2. view'[x] = VoterLeft(view[x], v)
    BY <1>4, <1>5
  <2>3. /\ view'[x] \in View /\ SameStories(view'[x], view[x]) /\ SameRoom(view'[x], view[x])
        /\ view'[x].host = view[x].host /\ view'[x].role = view[x].role
        /\ view[x].role[v] # "none" => view'[x].conn = [view[x].conn EXCEPT ![v] = "left"]
    <3>1. v \in Voter /\ view[x] \in View
      BY <1>3, <2>1
    <3> QED  BY ONLY <2>2, <3>1, LeftFields
  <2> QED  BY <1>3, <2>1, <2>3 DEF ShowsRoster, ShowsRoom, ShowsRoomNext, SameRoom, roomVars
<1>6. view' \in [Socket -> View]
  <2>1. ASSUME NEW x \in Socket PROVE view'[x] \in View
    <3>1. CASE ~ (x # s /\ boundTo[x] # NoVoter)
      BY <1>4, <3>1 DEF ClientsInv, ClientsTypeOK
    <3> QED  BY <1>5, <3>1
  <2>2. view' = [x \in Socket |-> view'[x]]
    BY <1>1
  <2> QED  BY <2>1, <2>2
<1>7. ASSUME NEW x \in Socket, boundTo'[x] # NoVoter
      PROVE  /\ Quiet(x)
             /\ view'[x].host = hostId' /\ view'[x].role = role' /\ view'[x].conn = conn'
             /\ window' # NoTime => view'[x].window = window'
             /\ roomState' = "host_vacant" => view'[x].state = "host_vacant"
             /\ Mode = "sync" => view'[x].state = roomState'
  <2>1. x # s /\ boundTo'[x] = boundTo[x]
    BY <1>2, <1>3, <1>7 DEF TypeInv, TypeOK
  <2> QED  BY <1>5, <1>7, <2>1 DEF Quiet, ShowsRoomNext
<1> QED  BY <1>3, <1>6, <1>7, SeatShown DEF ClientsInv

(* A claim and a transfer are shown by the same message.                   *)
LEMMA SeatEventShown ==
    ASSUME ClientsInv, CoverInv', SeatEvent
    PROVE  ClientsInv'
<1>1. TypeInv /\ SeatInv
  BY DEF ClientsInv, CoverInv, SeatInv
<1>2. PICK v \in Voter :
        /\ SetRoomHost(v) /\ UNCHANGED <<window, conn, boundTo, storyVars>>
        /\ Broadcast([x \in Socket |-> ApplyHostReclaimed(view[x], v)])
  <2>1. ASSUME NEW s \in Socket, ClaimHost(s)
        PROVE  /\ boundTo[s] \in Voter /\ SetRoomHost(boundTo[s])
               /\ UNCHANGED <<window, conn, boundTo, storyVars>>
    BY <1>1, <2>1 DEF ClaimHost, TypeInv, TypeOK
  <2>2. ASSUME NEW v \in Voter, TransferHost(v)
        PROVE  SetRoomHost(v) /\ UNCHANGED <<window, conn, boundTo, storyVars>>
    BY <2>2 DEF TransferHost
  <2> QED  BY <2>1, <2>2 DEF SeatEvent
<1>3. ASSUME NEW s \in Socket
      PROVE  ApplyHostReclaimed(view[s], v) \in View
  BY <1>3, ReclaimedFields DEF ClientsInv, ClientsTypeOK
<1>4. /\ view' \in [Socket -> View]
      /\ \A s \in Socket : boundTo[s] # NoVoter => view'[s] = ApplyHostReclaimed(view[s], v)
  <2> DEFINE new == [s \in Socket |-> ApplyHostReclaimed(view[s], v)]
  <2>1. new \in [Socket -> View] /\ Broadcast(new)
    BY <1>2, <1>3
  <2>2. \A s \in Socket : new[s] = ApplyHostReclaimed(view[s], v)
    OBVIOUS
  <2> HIDE DEF new
  <2> QED  BY <2>1, <2>2, BroadcastTyped DEF ClientsInv
<1>5. ASSUME NEW s \in Socket, boundTo[s] # NoVoter
      PROVE  /\ SameStories(view'[s], view[s])
             /\ view'[s].host = hostId' /\ view'[s].role = role' /\ view'[s].conn = conn'
             /\ ShowsRoomNext(view'[s])
  <2>1. view[s] \in View /\ ShowsRoster(view[s]) /\ ShowsRoom(view[s])
    BY <1>5, WatcherShows
  <2>2. view'[s] = ApplyHostReclaimed(view[s], v)
    BY <1>4, <1>5
  <2>3. conn' = conn /\ window' = window
    BY <1>2
  <2> QED  BY <1>2, <2>1, <2>2, <2>3, ReclaimShown DEF ClientsInv
<1>6. \A w \in Voter : role[w] \in {"host", "voter"} => role'[w] \in {"host", "voter"}
  BY <1>1, <1>2, VotersStay
<1>7. cast' = cast
  BY DEF SeatEvent
<1> QED  BY <1>2, <1>4, <1>5, <1>6, <1>7, BroadcastShown

(* The answer to a claim that comes too late names the host that is known. *)
LEMMA LateClaimShown ==
    ASSUME ClientsInv, CoverInv', LateClaim
    PROVE  ClientsInv'
<1>1. PICK s \in Socket :
        boundTo[s] # NoVoter /\ view' = [view EXCEPT ![s] = ApplyHostReclaimed(@, hostId)]
  BY DEF LateClaim
<1>2. roomState # "host_vacant" /\ UNCHANGED vars /\ UNCHANGED cast
  BY DEF LateClaim
<1>3. TypeInv /\ ExactlyOneHost /\ hostId \in Voter
  BY DEF ClientsInv, CoverInv, SeatInv, TypeInv, TypeOK
<1> DEFINE x == ApplyHostReclaimed(view[s], hostId)
<1>4. view[s] \in View /\ ShowsRoster(view[s]) /\ ShowsRoom(view[s])
  BY <1>1, WatcherShows
<1>5. /\ x \in View /\ SameStories(x, view[s]) /\ x.conn = view[s].conn
      /\ x.host = hostId /\ x.window = view[s].window
      /\ x.role = [view[s].role EXCEPT ![view[s].host] = "voter", ![hostId] = "host"]
      /\ x.state = IF view[s].state = "host_vacant" THEN "active" ELSE view[s].state
  BY <1>3, <1>4, ReclaimedFields
<1>6. view' \in [Socket -> View] /\ view'[s] = x
      /\ \A y \in Socket : y # s => view'[y] = view[y]
  BY <1>1, <1>5 DEF ClientsInv, ClientsTypeOK
<1> HIDE DEF x
<1>7. x.role = role
  BY <1>3, <1>4, <1>5 DEF ShowsRoster, ExactlyOneHost, TypeInv, TypeOK
<1>8. ASSUME NEW y \in Socket, boundTo[y] # NoVoter
      PROVE  /\ SameStories(view'[y], view[y])
             /\ view'[y].host = hostId' /\ view'[y].role = role' /\ view'[y].conn = conn'
             /\ ShowsRoomNext(view'[y])
  <2>1. CASE y = s
    BY <1>2, <1>4, <1>5, <1>6, <1>7, <2>1 DEF vars, ShowsRoster, ShowsRoom, ShowsRoomNext
  <2>2. CASE y # s
    <3>1. ShowsRoster(view[y]) /\ ShowsRoom(view[y]) /\ view'[y] = view[y]
      BY <1>6, <1>8, <2>2, WatcherShows
    <3> QED  BY <1>2, <3>1 DEF vars, ShowsRoster, ShowsRoom, ShowsRoomNext, SameStories
  <2> QED  BY <2>1, <2>2
<1>9. UNCHANGED <<boundTo, cast, storyVars>> /\ role' = role
  BY <1>2 DEF vars, storyVars
<1> QED  BY <1>6, <1>8, <1>9, BroadcastShown

-----------------------------------------------------------------------------
(* The stories.                                                            *)

(* What one browser shows of one story.                                    *)
Shown(s, st) ==
    /\ story[st] \in {"absent", "pending"} => st \notin view[s].revealed \cup view[s].mine
    /\ view[s].story[st] # "absent" =>
         view[s].story[st] = story[st] /\ view[s].flag[st] = flagged[st]
    /\ view[s].story[st] \in {"revealed", "committed"} => st \in view[s].revealed
    /\ view[s].story[st] = "active" =>
         /\ st \notin view[s].revealed
         /\ st \in view[s].mine <=> <<boundTo[s], st>> \in cast

FreshRow(st) ==
    story[st] \in {"absent", "pending"} => ~flagged[st] /\ \A c \in cast : c[2] # st

(* Where the stories agree each of them does in each browser.              *)
LEMMA StoryByStory ==
    ASSUME StoriesInv
    PROVE  \A st \in Story : /\ FreshRow(st)
                             /\ \A s \in Watching : Shown(s, st)
  BY DEF StoriesInv, FreshStories, StoriesAgree, RoundAgrees, FreshRow, Shown

(* What follows for all browsers of an event of the stories.               *)
LEMMA StoryShown ==
    ASSUME ClientsInv, CoverInv', UNCHANGED <<voterVars, hostId>>, SyncUnflagged',
           cast' \subseteq Voter \X Story, \A c \in cast' : role[c[1]] \in {"host", "voter"},
           view' \in [Socket -> View],
           \A s \in Socket : boundTo[s] # NoVoter =>
                SameRoster(view'[s], view[s]) /\ ShowsRoomNext(view'[s]),
           \A st \in Story : FreshRow(st)',
           \A s \in Socket, st \in Story : boundTo[s] # NoVoter => Shown(s, st)'
    PROVE  ClientsInv'
<1>1. \A s \in Socket : boundTo'[s] = boundTo[s]
  BY DEF voterVars
<1>2. Watching' = Watching
  BY <1>1 DEF Watching
<1>3. StoriesInv'
  <2>1. \A st \in Story : FreshRow(st)' /\ \A s \in Watching' : Shown(s, st)'
    BY <1>2 DEF Watching
  <2>2. FreshStories'
    BY <2>1 DEF FreshStories, FreshRow, Shown
  <2>3. StoriesAgree' /\ RoundAgrees'
    BY <2>1 DEF StoriesAgree, RoundAgrees, Shown
  <2> QED  BY <2>2, <2>3 DEF StoriesInv
<1>4. ClientsTypeOK'
  BY DEF ClientsTypeOK, voterVars
<1>5. RosterAgrees' /\ RoomAgrees'
  BY <1>2 DEF RosterAgrees, RoomAgrees, Watching, SameRoster, ShowsRoomNext, ClientsInv,
              voterVars
<1> QED  BY <1>3, <1>4, <1>5 DEF ClientsInv

(* What is known of a bound store before an event of the stories.          *)
LEMMA WatcherStories ==
    ASSUME ClientsInv, NEW s \in Socket, boundTo[s] # NoVoter
    PROVE  /\ view[s] \in View /\ ShowsRoom(view[s])
           /\ \A st \in Story : Shown(s, st)
  BY WatcherShows, StoryByStory DEF ClientsInv, Watching

(* The tables before an event of the stories.                              *)
LEMMA TablesBefore ==
    ASSUME ClientsInv
    PROVE  /\ TypeInv /\ SeatInv /\ ClientsTypeOK /\ SyncUnflagged
           /\ story \in [Story -> StoryState] /\ flagged \in [Story -> BOOLEAN]
           /\ boundTo \in [Socket -> Voter \cup {NoVoter}]
           /\ cast \subseteq Voter \X Story
           /\ \A c \in cast : role[c[1]] \in {"host", "voter"}
           /\ \A st \in Story : FreshRow(st)
  BY StoryByStory DEF ClientsInv, CoverInv, SeatInv, TypeInv, TypeOK, ClientsTypeOK

(* A broadcast of one function of the stores.                              *)
LEMMA AllNew ==
    ASSUME ClientsTypeOK, NEW new, Broadcast(new), new = [s \in Socket |-> new[s]],
           \A s \in Socket : new[s] \in View
    PROVE  /\ view' \in [Socket -> View]
           /\ \A s \in Socket : boundTo[s] # NoVoter => view'[s] = new[s]
<1>1. new \in [Socket -> View]
  OBVIOUS
<1> QED  BY <1>1, BroadcastTyped

(* The old round is cleared in the browsers as in the tables.              *)
LEMMA OpenEventShown ==
    ASSUME ClientsInv, CoverInv', OpenEvent, UNCHANGED voterVars
    PROVE  ClientsInv'
<1> DEFINE opened(s, st) == VotingOpened(view[s], st)
           new(st) == [s \in Socket |->
               LET w == VotingOpened(view[s], st) IN
               IF roomState' # roomState THEN RoomStateChanged(w, roomState') ELSE w]
<1>1. PICK st \in Story :
        /\ OpenVoting(st) \/ OpenDiscussion(st)
        /\ cast' = {c \in cast : c[2] # st}
        /\ Broadcast(new(st))
  BY DEF OpenEvent
<1>2. /\ story[st] \in {"pending", "revealed"} /\ \A y \in Story : story[y] # "active"
      /\ story' = [story EXCEPT ![st] = "active"] /\ flagged' = flagged
      /\ UNCHANGED <<hostId, window>>
      /\ roomState' # "host_vacant" \/ roomState' = roomState
  BY <1>1 DEF OpenVoting, OpenDiscussion, OpenVotingRow, Openable, ActiveStories, roomVars
<1>3. /\ TypeInv /\ SeatInv /\ ClientsTypeOK /\ SyncUnflagged
      /\ story \in [Story -> StoryState] /\ flagged \in [Story -> BOOLEAN]
      /\ boundTo \in [Socket -> Voter \cup {NoVoter}]
      /\ cast \subseteq Voter \X Story
      /\ \A c \in cast : role[c[1]] \in {"host", "voter"}
      /\ \A y \in Story : FreshRow(y)
  BY TablesBefore
<1>4. roomState' \in RoomState
  BY DEF CoverInv, SeatInv, TypeInv, TypeOK
<1>5. ASSUME NEW s \in Socket
      PROVE  /\ new(st)[s] \in View /\ SameRoster(new(st)[s], view[s])
             /\ SameStories(new(st)[s], opened(s, st)) /\ Opens(opened(s, st), view[s], st)
             /\ new(st)[s].window = view[s].window
             /\ new(st)[s].state = IF roomState' # roomState THEN roomState' ELSE view[s].state
  <2>1. view[s] \in View
    BY <1>3, <1>5 DEF ClientsTypeOK
  <2>2. Opens(opened(s, st), view[s], st)
    BY <2>1, OpenedFields
  <2>3. new(st)[s] = IF roomState' # roomState THEN RoomStateChanged(opened(s, st), roomState') ELSE opened(s, st)
    BY <1>5
  <2> HIDE DEF opened, new
  <2>4. CASE roomState' # roomState
    <3>1. /\ RoomStateChanged(opened(s, st), roomState') \in View
          /\ SameStories(RoomStateChanged(opened(s, st), roomState'), opened(s, st))
          /\ SameRoster(RoomStateChanged(opened(s, st), roomState'), opened(s, st))
          /\ RoomStateChanged(opened(s, st), roomState').state = roomState'
          /\ RoomStateChanged(opened(s, st), roomState').window = opened(s, st).window
      BY <1>4, <2>2, RoomFields DEF Opens
    <3> QED  BY <2>2, <2>3, <2>4, <3>1 DEF SameRoster, SameRoom, Opens
  <2>5. CASE roomState' = roomState
    BY <2>2, <2>3, <2>5 DEF SameRoom, SameStories, Opens
  <2> QED  BY <2>2, <2>4, <2>5
<1> HIDE DEF opened
<1>6. /\ view' \in [Socket -> View]
      /\ \A s \in Socket : boundTo[s] # NoVoter => view'[s] = new(st)[s]
  <2> DEFINE n == new(st)
  <2>1. n = [s \in Socket |-> n[s]] /\ Broadcast(n) /\ \A s \in Socket : n[s] \in View
    BY <1>1, <1>5
  <2> HIDE DEF n
  <2>2. /\ view' \in [Socket -> View]
        /\ \A s \in Socket : boundTo[s] # NoVoter => view'[s] = n[s]
    BY <1>3, <2>1, AllNew
  <2> QED  BY <2>2 DEF n
<1> HIDE DEF new
<1>7. ASSUME NEW s \in Socket, boundTo[s] # NoVoter
      PROVE  /\ SameRoster(view'[s], view[s]) /\ ShowsRoomNext(view'[s])
             /\ \A y \in Story : Shown(s, y)'
  <2>1. ShowsRoom(view[s]) /\ \A y \in Story : Shown(s, y)
    BY <1>7, WatcherStories
  <2>2. /\ SameRoster(view'[s], view[s]) /\ ShowsRoomNext(view'[s])
    BY <1>2, <1>5, <1>6, <1>7, <2>1 DEF ShowsRoom, ShowsRoomNext
  <2>3. ASSUME NEW y \in Story
        PROVE  Shown(s, y)'
    <3>1. /\ view'[s].flag = view[s].flag
          /\ view'[s].revealed = view[s].revealed \ {st} /\ view'[s].mine = view[s].mine \ {st}
          /\ view'[s].story[y] = IF view[s].story[y] = "absent" THEN "absent"
                ELSE IF y = st THEN "active"
                ELSE IF view[s].story[y] = "active" THEN "pending" ELSE view[s].story[y]
      BY <1>5, <1>6, <1>7 DEF SameStories, Opens
    <3>2. boundTo' = boundTo /\ Shown(s, y)
      BY <2>1 DEF voterVars
    <3>3. CASE y = st
      BY <1>1, <1>2, <1>3, <3>1, <3>2, <3>3 DEF Shown
    <3>4. CASE y # st
      <4>1. story'[y] = story[y] /\ view[s].story[y] # "active"
        BY <1>2, <1>3, <3>2, <3>4 DEF Shown
      <4> QED  BY <1>2, <3>1, <3>2, <3>4, <4>1 DEF Shown
    <3> QED  BY <3>3, <3>4
  <2> QED  BY <2>2, <2>3
<1>8. \A y \in Story : FreshRow(y)'
  BY <1>1, <1>2, <1>3 DEF FreshRow
<1>9. SyncUnflagged'
  BY <1>2, <1>3 DEF SyncUnflagged
<1>10. /\ cast' \subseteq Voter \X Story /\ \A c \in cast' : role[c[1]] \in {"host", "voter"}
       /\ UNCHANGED hostId
  BY <1>1, <1>2, <1>3
<1> QED  BY <1>6, <1>7, <1>8, <1>9, <1>10, StoryShown

(* A vote is marked in the browsers of its voter and nowhere else.         *)
LEMMA CastEventShown ==
    ASSUME ClientsInv, CoverInv', CastEvent, UNCHANGED voterVars
    PROVE  ClientsInv'
<1> DEFINE new(b, st) == [x \in Socket |->
               IF boundTo[x] = boundTo[b]
               THEN [view[x] EXCEPT !.mine = @ \cup {st}] ELSE view[x]]
<1>1. PICK b \in Socket, st \in Story, k \in Ballot :
        /\ CastVote(b, st, k)
        /\ cast' = cast \cup {<<boundTo[b], st>>}
        /\ Broadcast(new(b, st))
  BY DEF CastEvent
<1>2. /\ boundTo[b] # NoVoter /\ role[boundTo[b]] # "spectator" /\ story[st] = "active"
      /\ UNCHANGED <<story, flagged, roomState, hostId, window, boundTo>>
  BY <1>1 DEF CastVote, CastVoteRow, roomVars, voterVars
<1>3. /\ TypeInv /\ SeatInv /\ ClientsTypeOK /\ SyncUnflagged
      /\ boundTo \in [Socket -> Voter \cup {NoVoter}]
      /\ cast \subseteq Voter \X Story
      /\ \A c \in cast : role[c[1]] \in {"host", "voter"}
      /\ \A y \in Story : FreshRow(y)
  BY TablesBefore
<1>4. boundTo[b] \in Voter /\ role[boundTo[b]] \in {"host", "voter"}
  BY <1>2, <1>3 DEF SeatInv, RowsExist, TypeInv, TypeOK, Role
<1>5. ASSUME NEW s \in Socket
      PROVE  LET x == new(b, st)[s] IN
             /\ x \in View /\ SameRoster(x, view[s]) /\ SameRoom(x, view[s])
             /\ x.story = view[s].story /\ x.flag = view[s].flag
             /\ x.revealed = view[s].revealed
             /\ x.mine = IF boundTo[s] = boundTo[b] THEN view[s].mine \cup {st}
                                                     ELSE view[s].mine
  <2>1. view[s] \in View
    BY <1>3, <1>5 DEF ClientsTypeOK
  <2>2. new(b, st)[s] = IF boundTo[s] = boundTo[b]
                        THEN [view[s] EXCEPT !.mine = @ \cup {st}] ELSE view[s]
    BY <1>5
  <2> HIDE DEF new
  <2> QED  BY <2>1, <2>2 DEF View, SameRoster, SameRoom
<1>6. /\ view' \in [Socket -> View]
      /\ \A s \in Socket : boundTo[s] # NoVoter => view'[s] = new(b, st)[s]
  <2> DEFINE n == new(b, st)
  <2>1. n = [s \in Socket |-> n[s]] /\ Broadcast(n) /\ \A s \in Socket : n[s] \in View
    BY <1>1, <1>5
  <2> HIDE DEF n
  <2>2. /\ view' \in [Socket -> View]
        /\ \A s \in Socket : boundTo[s] # NoVoter => view'[s] = n[s]
    BY <1>3, <2>1, AllNew
  <2> QED  BY <2>2 DEF n
<1> HIDE DEF new
<1>7. ASSUME NEW s \in Socket, boundTo[s] # NoVoter
      PROVE  /\ SameRoster(view'[s], view[s]) /\ ShowsRoomNext(view'[s])
             /\ \A y \in Story : Shown(s, y)'
  <2>1. ShowsRoom(view[s]) /\ \A y \in Story : Shown(s, y)
    BY <1>7, WatcherStories
  <2>2. /\ SameRoster(view'[s], view[s]) /\ ShowsRoomNext(view'[s])
    BY <1>2, <1>5, <1>6, <1>7, <2>1 DEF ShowsRoom, ShowsRoomNext, SameRoom
  <2>3. ASSUME NEW y \in Story
        PROVE  Shown(s, y)'
    <3>1. /\ view'[s].story = view[s].story /\ view'[s].flag = view[s].flag
          /\ view'[s].revealed = view[s].revealed
          /\ view'[s].mine = IF boundTo[s] = boundTo[b] THEN view[s].mine \cup {st}
                                                         ELSE view[s].mine
      BY <1>5, <1>6, <1>7
    <3>2. <<boundTo[s], y>> \in cast' <=>
            <<boundTo[s], y>> \in cast \/ (boundTo[s] = boundTo[b] /\ y = st)
      BY <1>1
    <3>3. y \in view'[s].mine <=> y \in view[s].mine \/ (boundTo[s] = boundTo[b] /\ y = st)
      BY <3>1
    <3> QED  BY <1>2, <2>1, <3>1, <3>2, <3>3 DEF Shown
  <2> QED  BY <2>2, <2>3
<1>8. \A y \in Story : FreshRow(y)'
  BY <1>1, <1>2, <1>3 DEF FreshRow
<1>9. SyncUnflagged'
  BY <1>2, <1>3 DEF SyncUnflagged
<1>10. /\ cast' \subseteq Voter \X Story /\ \A c \in cast' : role[c[1]] \in {"host", "voter"}
  <2>1. \A c \in cast' : c \in cast \/ c = <<boundTo[b], st>>
    BY <1>1
  <2> QED  BY <1>3, <1>4, <2>1
<1> QED  BY <1>2, <1>6, <1>7, <1>8, <1>9, <1>10, StoryShown

(* What follows of an event of the stories that leaves the room as it is.  *)
LEMMA StoriesOnly ==
    ASSUME ClientsInv, CoverInv', UNCHANGED <<voterVars, roomState, hostId, window, flagged>>,
           cast' = cast, view' \in [Socket -> View],
           \A st \in Story :
              story'[st] \in {"absent", "pending"} => story[st] \in {"absent", "pending"},
           \A s \in Socket : boundTo[s] # NoVoter =>
                /\ SameRoster(view'[s], view[s]) /\ SameRoom(view'[s], view[s])
                /\ \A st \in Story : Shown(s, st)'
    PROVE  ClientsInv'
<1>1. /\ TypeInv /\ SeatInv /\ ClientsTypeOK /\ SyncUnflagged
      /\ cast \subseteq Voter \X Story
      /\ \A c \in cast : role[c[1]] \in {"host", "voter"}
      /\ \A y \in Story : FreshRow(y)
  BY TablesBefore
<1>2. SyncUnflagged'
  BY <1>1 DEF SyncUnflagged
<1>3. \A y \in Story : FreshRow(y)'
  BY <1>1 DEF FreshRow
<1>4. ASSUME NEW s \in Socket, boundTo[s] # NoVoter
      PROVE  ShowsRoomNext(view'[s])
  <2>1. ShowsRoom(view[s])
    BY <1>4, WatcherStories
  <2> QED  BY <1>4, <2>1 DEF ShowsRoom, ShowsRoomNext, SameRoom
<1> QED  BY <1>1, <1>2, <1>3, <1>4, StoryShown

(* New stories appear at the end of every list, a split story ends.        *)
LEMMA AddEventShown ==
    ASSUME ClientsInv, CoverInv', AddEvent, UNCHANGED voterVars
    PROVE  ClientsInv'
<1>1. /\ TypeInv /\ SeatInv /\ ClientsTypeOK
      /\ story \in [Story -> StoryState] /\ flagged \in [Story -> BOOLEAN]
      /\ \A y \in Story : FreshRow(y)
  BY TablesBefore
<1>2. ASSUME NEW st \in Story, AddStory(st),
             Broadcast([s \in Socket |-> StoryAdded(view[s], st)])
      PROVE  ClientsInv'
  <2> DEFINE new == [s \in Socket |-> StoryAdded(view[s], st)]
  <2>1. /\ story[st] = "absent" /\ story' = [story EXCEPT ![st] = "pending"]
        /\ UNCHANGED <<roomState, hostId, window, flagged, boundTo>>
    BY <1>2 DEF AddStory, AddStoryRow, roomVars, voterVars
  <2>2. ASSUME NEW s \in Socket
        PROVE  /\ new[s] \in View
               /\ SameRoster(new[s], view[s]) /\ SameRoom(new[s], view[s])
               /\ new[s].revealed = view[s].revealed /\ new[s].mine = view[s].mine
               /\ new[s].story = [view[s].story EXCEPT ![st] = "pending"]
               /\ new[s].flag = [view[s].flag EXCEPT ![st] = FALSE]
    <3>1. view[s] \in View /\ new[s] = StoryAdded(view[s], st)
      BY <1>1, <2>2 DEF ClientsTypeOK
    <3> HIDE DEF new
    <3> QED  BY <3>1, AddedFields
  <2>3. new = [s \in Socket |-> new[s]] /\ Broadcast(new)
    BY <1>2
  <2> HIDE DEF new
  <2>4. /\ view' \in [Socket -> View]
        /\ \A s \in Socket : boundTo[s] # NoVoter => view'[s] = new[s]
    BY <1>1, <2>2, <2>3, AllNew
  <2>5. ASSUME NEW s \in Socket, boundTo[s] # NoVoter
        PROVE  /\ SameRoster(view'[s], view[s]) /\ SameRoom(view'[s], view[s])
               /\ \A y \in Story : Shown(s, y)'
    <3>1. SameRoster(view'[s], view[s]) /\ SameRoom(view'[s], view[s])
      BY <2>2, <2>4, <2>5
    <3>2. view[s] \in View /\ \A y \in Story : Shown(s, y)
      BY <2>5, WatcherStories
    <3>3. ASSUME NEW y \in Story
          PROVE  Shown(s, y)'
      <4>1. /\ view'[s].revealed = view[s].revealed /\ view'[s].mine = view[s].mine
            /\ view'[s].story[y] = IF y = st THEN "pending" ELSE view[s].story[y]
            /\ view'[s].flag[y] = IF y = st THEN FALSE ELSE view[s].flag[y]
        <5>1. view[s].story \in [Story -> StoryState] /\ view[s].flag \in [Story -> BOOLEAN]
          BY <3>2 DEF View
        <5>2. /\ view'[s].revealed = view[s].revealed /\ view'[s].mine = view[s].mine
              /\ view'[s].story = [view[s].story EXCEPT ![st] = "pending"]
              /\ view'[s].flag = [view[s].flag EXCEPT ![st] = FALSE]
          BY <2>2, <2>4, <2>5
        <5> QED  BY <5>1, <5>2
      <4>2. Shown(s, y) /\ FreshRow(y) /\ story'[y] = IF y = st THEN "pending" ELSE story[y]
        BY <1>1, <2>1, <3>2
      <4>3. cast' = cast
        BY DEF AddEvent
      <4> QED  BY <1>1, <2>1, <4>1, <4>2, <4>3 DEF Shown, FreshRow
    <3> QED  BY <3>1, <3>3
  <2>6. cast' = cast
    BY DEF AddEvent
  <2> QED  BY <1>1, <2>1, <2>4, <2>5, <2>6, StoriesOnly
<1>3. ASSUME NEW st \in Story, NEW children \in SUBSET Story, SplitStory(st, children),
             Broadcast([s \in Socket |-> StorySplit(view[s], st, children)])
      PROVE  ClientsInv'
  <2> DEFINE new == [s \in Socket |-> StorySplit(view[s], st, children)]
  <2>1. /\ story[st] # "absent" /\ \A c \in children : story[c] = "absent"
        /\ \A y \in Story : story'[y] = IF y = st THEN "split"
                                        ELSE IF y \in children THEN "pending" ELSE story[y]
        /\ UNCHANGED <<roomState, hostId, window, flagged, boundTo>>
    BY <1>3 DEF SplitStory, SplitRows, Droppable, roomVars, voterVars
  <2>2. ASSUME NEW s \in Socket
        PROVE  Splits(new[s], view[s], st, children)
    <3>1. view[s] \in View /\ new[s] = StorySplit(view[s], st, children)
      BY <1>1, <2>2 DEF ClientsTypeOK
    <3> HIDE DEF new
    <3> QED  BY <3>1, SplitFields
  <2>3. new = [s \in Socket |-> new[s]] /\ Broadcast(new)
    BY <1>3
  <2> HIDE DEF new
  <2>4. /\ view' \in [Socket -> View]
        /\ \A s \in Socket : boundTo[s] # NoVoter => view'[s] = new[s]
    BY <1>1, <2>2, <2>3, AllNew DEF Splits
  <2>5. ASSUME NEW s \in Socket, boundTo[s] # NoVoter
        PROVE  /\ SameRoster(view'[s], view[s]) /\ SameRoom(view'[s], view[s])
               /\ \A y \in Story : Shown(s, y)'
    <3>1. SameRoster(view'[s], view[s]) /\ SameRoom(view'[s], view[s])
      BY <2>2, <2>4, <2>5 DEF Splits
    <3>2. \A y \in Story : Shown(s, y)
      BY <2>5, WatcherStories
    <3>3. ASSUME NEW y \in Story
          PROVE  Shown(s, y)'
      <4>1. /\ view'[s].revealed = view[s].revealed /\ view'[s].mine = view[s].mine
            /\ view'[s].story[y] = IF y \in children THEN "pending"
                                   ELSE IF y = st /\ view[s].story[y] # "absent"
                                   THEN "split" ELSE view[s].story[y]
            /\ view'[s].flag[y] = IF y \in children THEN FALSE ELSE view[s].flag[y]
        <5>1. Splits(view'[s], view[s], st, children)
          BY <2>2, <2>4, <2>5
        <5> QED  BY <5>1 DEF Splits
      <4>2. Shown(s, y) /\ FreshRow(y)
        BY <1>1, <3>2
      <4>3. cast' = cast
        BY DEF AddEvent
      <4> QED  BY <1>1, <2>1, <4>1, <4>2, <4>3 DEF Shown, FreshRow
    <3> QED  BY <3>1, <3>3
  <2>6. cast' = cast
    BY DEF AddEvent
  <2>7. \A y \in Story : story'[y] \in {"absent", "pending"} => story[y] \in {"absent", "pending"}
    BY <2>1
  <2> QED  BY <2>1, <2>4, <2>5, <2>6, <2>7, StoriesOnly
<1> QED  BY <1>2, <1>3 DEF AddEvent

(* A skip and the acceptance of the agreed stories mark stories.           *)
LEMMA MarkEventShown ==
    ASSUME ClientsInv, CoverInv', UNCHANGED voterVars, UNCHANGED cast,
           UNCHANGED <<roomState, hostId, window, flagged>>,
           NEW sts \in SUBSET Story, NEW state \in {"committed", "skipped"},
           \A st \in Story : story'[st] = IF st \in sts THEN state ELSE story[st],
           \A st \in sts : story[st] \notin {"absent", "pending"} \/ state = "skipped",
           \A st \in sts : state = "committed" => story[st] = "revealed",
           Broadcast([s \in Socket |-> Mark(view[s], sts, state)])
    PROVE  ClientsInv'
<1>1. ClientsTypeOK
  BY TablesBefore
<1> DEFINE new == [s \in Socket |-> Mark(view[s], sts, state)]
<1>2. ASSUME NEW s \in Socket
      PROVE  Marks(new[s], view[s], sts, state)
  <2>1. view[s] \in View /\ new[s] = Mark(view[s], sts, state)
    BY <1>1, <1>2 DEF ClientsTypeOK
  <2> HIDE DEF new
  <2> QED  BY <2>1, MarkFields DEF StoryState
<1>3. new = [s \in Socket |-> new[s]] /\ Broadcast(new)
  OBVIOUS
<1> HIDE DEF new
<1>4. /\ view' \in [Socket -> View]
      /\ \A s \in Socket : boundTo[s] # NoVoter => view'[s] = new[s]
  BY <1>1, <1>2, <1>3, AllNew DEF Marks
<1>5. ASSUME NEW s \in Socket, boundTo[s] # NoVoter
      PROVE  /\ SameRoster(view'[s], view[s]) /\ SameRoom(view'[s], view[s])
             /\ \A y \in Story : Shown(s, y)'
  <2>1. Marks(view'[s], view[s], sts, state)
    BY <1>2, <1>4, <1>5
  <2>2. ASSUME NEW y \in Story
        PROVE  Shown(s, y)'
    <3>1. Shown(s, y)
      BY <1>5, WatcherStories
    <3>2. /\ view'[s].flag = view[s].flag /\ view'[s].revealed = view[s].revealed
          /\ view'[s].mine = view[s].mine
          /\ view'[s].story[y] =
               IF y \in sts /\ view[s].story[y] # "absent" THEN state ELSE view[s].story[y]
      BY <2>1 DEF Marks
    <3>3. boundTo' = boundTo
      BY DEF voterVars
    <3>4. story'[y] = IF y \in sts THEN state ELSE story[y]
      OBVIOUS
    <3>5. CASE y \in sts
      BY <3>1, <3>2, <3>3, <3>4, <3>5 DEF Shown
    <3>6. CASE y \notin sts
      BY <3>1, <3>2, <3>3, <3>4, <3>6 DEF Shown
    <3> QED  BY <3>5, <3>6
  <2> QED  BY <2>1, <2>2 DEF Marks
<1>6. \A st \in Story :
         story'[st] \in {"absent", "pending"} => story[st] \in {"absent", "pending"}
  OBVIOUS
<1> QED  BY <1>4, <1>5, <1>6, StoriesOnly

(* The cards of one story are laid open in every browser.                  *)
LEMMA RevealShown ==
    ASSUME ClientsInv, CoverInv', UNCHANGED voterVars, cast' = cast,
           NEW st \in Story, RevealVotes(st),
           Broadcast([s \in Socket |-> VotesRevealed(view[s], {st}, FALSE)])
    PROVE  ClientsInv'
<1>1. ClientsTypeOK /\ story \in [Story -> StoryState] /\ boundTo' = boundTo
  BY TablesBefore DEF voterVars
<1>2. /\ story[st] = "active" /\ story' = [story EXCEPT ![st] = "revealed"]
      /\ UNCHANGED <<roomState, hostId, window, flagged>>
  BY DEF RevealVotes, RevealRow, roomVars
<1>3. TypeInv'
  BY DEF CoverInv, SeatInv
<1> DEFINE new == [s \in Socket |-> VotesRevealed(view[s], {st}, FALSE)]
<1>4. ASSUME NEW s \in Socket
      PROVE  Reveals(new[s], view[s], {st}, FALSE)
  <2>1. view[s] \in View /\ new[s] = VotesRevealed(view[s], {st}, FALSE)
    BY <1>1, <1>4 DEF ClientsTypeOK
  <2> HIDE DEF new
  <2> QED  BY <1>3, <2>1, RevealedFields
<1>5. new = [s \in Socket |-> new[s]] /\ Broadcast(new)
  OBVIOUS
<1> HIDE DEF new
<1>6. /\ view' \in [Socket -> View]
      /\ \A s \in Socket : boundTo[s] # NoVoter => view'[s] = new[s]
  BY <1>1, <1>4, <1>5, AllNew DEF Reveals
<1>7. ASSUME NEW s \in Socket, boundTo[s] # NoVoter
      PROVE  /\ SameRoster(view'[s], view[s]) /\ SameRoom(view'[s], view[s])
             /\ \A y \in Story : Shown(s, y)'
  <2>1. Reveals(view'[s], view[s], {st}, FALSE)
    BY <1>4, <1>6, <1>7
  <2>2. ASSUME NEW y \in Story
        PROVE  Shown(s, y)'
    <3>1. Shown(s, y)
      BY <1>7, WatcherStories
    <3>2. /\ view'[s].flag[y] = view[s].flag[y] /\ view'[s].mine = view[s].mine
          /\ view'[s].revealed = view[s].revealed \cup {st}
          /\ view'[s].story[y] =
               IF y = st /\ view[s].story[y] # "absent" THEN "revealed" ELSE view[s].story[y]
      BY <2>1 DEF Reveals
    <3>3. story'[y] = IF y = st THEN "revealed" ELSE story[y]
      BY <1>1, <1>2
    <3>4. CASE y = st
      BY <1>1, <1>2, <3>1, <3>2, <3>3, <3>4 DEF Shown
    <3>5. CASE y # st
      BY <1>1, <1>2, <3>1, <3>2, <3>3, <3>5 DEF Shown
    <3> QED  BY <3>4, <3>5
  <2> QED  BY <2>1, <2>2 DEF Reveals
<1>8. \A y \in Story :
         story'[y] \in {"absent", "pending"} => story[y] \in {"absent", "pending"}
  BY <1>1, <1>2
<1> QED  BY <1>2, <1>6, <1>7, <1>8, StoriesOnly

(* A commit may take the room back to its review, and says so.             *)
LEMMA CommitShown ==
    ASSUME ClientsInv, CoverInv', UNCHANGED voterVars, cast' = cast,
           NEW st \in Story, CommitStory(st),
           Broadcast([s \in Socket |->
               LET w == Mark(view[s], {st}, "committed") IN
               IF roomState' # roomState THEN RoomStateChanged(w, roomState') ELSE w])
    PROVE  ClientsInv'
<1>1. /\ ClientsTypeOK /\ SyncUnflagged /\ story \in [Story -> StoryState]
      /\ boundTo' = boundTo
      /\ cast \subseteq Voter \X Story
      /\ \A c \in cast : role[c[1]] \in {"host", "voter"}
      /\ \A y \in Story : FreshRow(y)
  BY TablesBefore DEF voterVars
<1>2. /\ story[st] = "revealed" /\ story' = [story EXCEPT ![st] = "committed"]
      /\ UNCHANGED <<hostId, window, flagged>>
      /\ roomState' # "host_vacant" \/ roomState' = roomState
  BY DEF CommitStory, CommitRow, MaybeReturnToReview
<1>3. roomState' \in RoomState
  BY DEF CoverInv, SeatInv, TypeInv, TypeOK
<1> DEFINE marked(s) == Mark(view[s], {st}, "committed")
           new == [s \in Socket |-> IF roomState' # roomState
                                    THEN RoomStateChanged(marked(s), roomState')
                                    ELSE marked(s)]
<1>4. new = [s \in Socket |-> new[s]] /\ Broadcast(new)
  OBVIOUS
<1>5. ASSUME NEW s \in Socket
      PROVE  /\ new[s] \in View /\ SameRoster(new[s], view[s])
             /\ SameStories(new[s], marked(s)) /\ Marks(marked(s), view[s], {st}, "committed")
             /\ new[s].window = view[s].window
             /\ new[s].state = IF roomState' # roomState THEN roomState' ELSE view[s].state
  <2>1. Marks(marked(s), view[s], {st}, "committed")
    <3>1. view[s] \in View
      BY <1>1, <1>5 DEF ClientsTypeOK
    <3> QED  BY <3>1, MarkFields DEF StoryState
  <2>2. new[s] = IF roomState' # roomState THEN RoomStateChanged(marked(s), roomState')
                                           ELSE marked(s)
    BY <1>5
  <2> HIDE DEF marked, new
  <2>3. CASE roomState' # roomState
    <3>1. /\ RoomStateChanged(marked(s), roomState') \in View
          /\ SameStories(RoomStateChanged(marked(s), roomState'), marked(s))
          /\ SameRoster(RoomStateChanged(marked(s), roomState'), marked(s))
          /\ RoomStateChanged(marked(s), roomState').state = roomState'
          /\ RoomStateChanged(marked(s), roomState').window = marked(s).window
      BY <1>3, <2>1, RoomFields DEF Marks
    <3> QED  BY <2>1, <2>2, <2>3, <3>1 DEF SameRoster, SameRoom, Marks
  <2>4. CASE roomState' = roomState
    BY <2>1, <2>2, <2>4 DEF SameRoom, SameStories, Marks
  <2> QED  BY <2>1, <2>3, <2>4
<1> HIDE DEF marked, new
<1>6. /\ view' \in [Socket -> View]
      /\ \A s \in Socket : boundTo[s] # NoVoter => view'[s] = new[s]
  BY <1>1, <1>4, <1>5, AllNew
<1>7. ASSUME NEW s \in Socket, boundTo[s] # NoVoter
      PROVE  /\ SameRoster(view'[s], view[s]) /\ ShowsRoomNext(view'[s])
             /\ \A y \in Story : Shown(s, y)'
  <2>1. ShowsRoom(view[s]) /\ \A y \in Story : Shown(s, y)
    BY <1>7, WatcherStories
  <2>2. /\ SameRoster(view'[s], view[s]) /\ ShowsRoomNext(view'[s])
    BY <1>2, <1>5, <1>6, <1>7, <2>1 DEF ShowsRoom, ShowsRoomNext
  <2>3. ASSUME NEW y \in Story
        PROVE  Shown(s, y)'
    <3>1. /\ view'[s].flag = view[s].flag /\ view'[s].revealed = view[s].revealed
          /\ view'[s].mine = view[s].mine
          /\ view'[s].story[y] =
               IF y = st /\ view[s].story[y] # "absent" THEN "committed" ELSE view[s].story[y]
      BY <1>5, <1>6, <1>7 DEF SameStories, Marks
    <3>2. Shown(s, y) /\ story'[y] = IF y = st THEN "committed" ELSE story[y]
      BY <1>1, <1>2, <2>1
    <3>3. CASE y = st
      BY <1>1, <1>2, <3>1, <3>2, <3>3 DEF Shown
    <3>4. CASE y # st
      BY <1>1, <1>2, <3>1, <3>2, <3>4 DEF Shown
    <3> QED  BY <3>3, <3>4
  <2> QED  BY <2>2, <2>3
<1>8. (\A y \in Story : FreshRow(y)') /\ SyncUnflagged'
  BY <1>1, <1>2 DEF FreshRow, SyncUnflagged
<1> QED  BY <1>1, <1>2, <1>6, <1>7, <1>8, StoryShown

(* The end of a story is shown.                                            *)
LEMMA FinishEventShown ==
    ASSUME ClientsInv, CoverInv', FinishEvent, UNCHANGED voterVars
    PROVE  ClientsInv'
<1>1. cast' = cast
  BY DEF FinishEvent
<1>2. story \in [Story -> StoryState]
  BY TablesBefore
<1>3. ASSUME NEW st \in Story, SkipStory(st),
             Broadcast([s \in Socket |-> Mark(view[s], {st}, "skipped")])
      PROVE  ClientsInv'
  <2>1. /\ \A y \in Story : story'[y] = IF y \in {st} THEN "skipped" ELSE story[y]
        /\ UNCHANGED <<roomState, hostId, window, flagged>>
    BY <1>2, <1>3 DEF SkipStory, SkipRow, roomVars
  <2> QED  BY <1>1, <1>3, <2>1, MarkEventShown
<1>4. ASSUME AcceptAgreed, Broadcast([s \in Socket |-> Mark(view[s], Agreed, "committed")])
      PROVE  ClientsInv'
  <2>1. /\ \A y \in Story : story'[y] = IF y \in Agreed THEN "committed" ELSE story[y]
        /\ Agreed \in SUBSET Story /\ \A y \in Agreed : story[y] = "revealed"
        /\ UNCHANGED <<roomState, hostId, window, flagged>>
    BY <1>4 DEF AcceptAgreed, Agreed, roomVars
  <2> QED  BY <1>1, <1>4, <2>1, MarkEventShown
<1> QED  BY <1>1, <1>3, <1>4, RevealShown, CommitShown DEF FinishEvent

(* A window opens with every pending story and its closing time.           *)
LEMMA AsyncEventShown ==
    ASSUME ClientsInv, CoverInv', AsyncEvent, UNCHANGED voterVars
    PROVE  ClientsInv'
<1>1. /\ TypeInv /\ ClientsTypeOK /\ SyncUnflagged /\ story \in [Story -> StoryState]
      /\ boundTo' = boundTo
      /\ cast \subseteq Voter \X Story
      /\ \A c \in cast : role[c[1]] \in {"host", "voter"}
      /\ \A y \in Story : FreshRow(y)
  BY TablesBefore DEF voterVars
<1> DEFINE pending == {st \in Story : story[st] = "pending"}
           new(d) == [s \in Socket |-> AsyncWindowOpened(view[s], pending, now + d)]
<1>2. PICK d \in Windows : OpenAsync(d) /\ Broadcast(new(d))
  BY DEF AsyncEvent
<1>3. /\ Mode = "async" /\ window' = now + d /\ roomState' = "active"
      /\ \A st \in Story : story'[st] = IF st \in pending THEN "active" ELSE story[st]
      /\ UNCHANGED <<hostId, flagged, cast>>
  BY <1>2 DEF OpenAsync, OpenAsyncRows, AsyncEvent
<1>4. now + d \in Time
  BY <1>1, TimeAssumption DEF TypeInv, TypeOK, Time
<1>5. ASSUME NEW s \in Socket
      PROVE  LET x == new(d)[s] IN
             /\ x \in View /\ SameRoster(x, view[s])
             /\ x.flag = view[s].flag /\ x.revealed = view[s].revealed
             /\ x.mine = view[s].mine
             /\ x.state = "active" /\ x.window = now + d
             /\ \A st \in Story : x.story[st] =
                  IF st \in pending /\ view[s].story[st] # "absent"
                  THEN "active" ELSE view[s].story[st]
  <2>1. /\ view[s] \in View /\ new(d)[s] = AsyncWindowOpened(view[s], pending, now + d)
        /\ pending \in SUBSET Story
    BY <1>1, <1>5 DEF ClientsTypeOK
  <2> HIDE DEF new, pending
  <2> QED  BY <1>4, <2>1, WindowOpenedFields
<1>6. /\ view' \in [Socket -> View]
      /\ \A s \in Socket : boundTo[s] # NoVoter => view'[s] = new(d)[s]
  <2> DEFINE n == new(d)
  <2>1. n = [s \in Socket |-> n[s]] /\ Broadcast(n) /\ \A s \in Socket : n[s] \in View
    BY <1>2, <1>5
  <2> HIDE DEF n
  <2>2. /\ view' \in [Socket -> View]
        /\ \A s \in Socket : boundTo[s] # NoVoter => view'[s] = n[s]
    BY <1>1, <2>1, AllNew
  <2> QED  BY <2>2 DEF n
<1> HIDE DEF new
<1>7. ASSUME NEW s \in Socket, boundTo[s] # NoVoter
      PROVE  /\ SameRoster(view'[s], view[s]) /\ ShowsRoomNext(view'[s])
             /\ \A y \in Story : Shown(s, y)'
  <2>1. SameRoster(view'[s], view[s]) /\ ShowsRoomNext(view'[s])
    BY <1>3, <1>5, <1>6, <1>7 DEF ShowsRoomNext
  <2>2. ASSUME NEW y \in Story
        PROVE  Shown(s, y)'
    <3>1. Shown(s, y) /\ FreshRow(y)
      BY <1>1, <1>7, WatcherStories
    <3>2. /\ view'[s].flag = view[s].flag /\ view'[s].revealed = view[s].revealed
          /\ view'[s].mine = view[s].mine
          /\ view'[s].story[y] =
               IF y \in pending /\ view[s].story[y] # "absent" THEN "active"
                                                               ELSE view[s].story[y]
      BY <1>5, <1>6, <1>7
    <3>3. CASE y \in pending
      <4>1. <<boundTo[s], y>> \notin cast
        BY <3>1, <3>3 DEF FreshRow
      <4> QED  BY <1>1, <1>3, <3>1, <3>2, <3>3, <4>1 DEF Shown
    <3>4. CASE y \notin pending
      BY <1>1, <1>3, <3>1, <3>2, <3>4 DEF Shown
    <3> QED  BY <3>3, <3>4
  <2> QED  BY <2>1, <2>2
<1>8. (\A y \in Story : FreshRow(y)') /\ SyncUnflagged'
  BY <1>1, <1>3 DEF FreshRow, SyncUnflagged
<1> QED  BY <1>1, <1>3, <1>6, <1>7, <1>8, StoryShown

-----------------------------------------------------------------------------
(* The alarm, and all steps together.                                      *)

(* What a task does to the tables.                                         *)
LEMMA TaskWrites ==
    ASSUME ClientsInv, CoverInv', DispatchTask
    PROVE  /\ UNCHANGED <<voterVars, hostId>>
           /\ \/ UNCHANGED <<roomVars, storyVars>>
              \/ /\ roomState' = "host_vacant" /\ roomState # "host_vacant"
                 /\ UNCHANGED <<window, storyVars>>
              \/ /\ roomState' = "review" /\ roomState # "review" /\ Mode = "async"
                 /\ window' = NoTime
                 /\ \A st \in Story :
                      /\ story'[st] = IF st \in ActiveStories THEN "revealed" ELSE story[st]
                      /\ st \notin ActiveStories => flagged'[st] = flagged[st]
<1>1. PICK t \in tasks :
        /\ \/ /\ t.type = "host_vacant"
              /\ HostVacantFire(t)
              /\ UNCHANGED storyVars
           \/ /\ t.type = "async_close"
              /\ AsyncCloseFire
        /\ UNCHANGED voterVars
  BY DEF DispatchTask
<1>2. CASE HostVacantFire(t) /\ UNCHANGED storyVars
  BY <1>1, <1>2 DEF HostVacantFire, roomVars
<1>3. CASE t.type = "async_close" /\ AsyncCloseFire
  <2>1. Mode = "async"
    BY <1>1, <1>3, ModeAssumption DEF ClientsInv, CoverInv, OnlyVacancyTasks
  <2> QED  BY <1>1, <1>3, <2>1 DEF AsyncCloseFire, CloseAsyncRows, roomVars
<1> QED  BY <1>1, <1>2, <1>3

(* A vacancy is announced.                                                 *)
LEMMA VacancyShown ==
    ASSUME ClientsInv, CoverInv', UNCHANGED <<voterVars, hostId, window, storyVars, cast>>,
           roomState' = "host_vacant",
           Broadcast([s \in Socket |-> ApplyHostVacant(view[s])])
    PROVE  ClientsInv'
<1>1. ClientsTypeOK
  BY TablesBefore
<1> DEFINE new == [s \in Socket |-> ApplyHostVacant(view[s])]
<1>2. ASSUME NEW s \in Socket
      PROVE  /\ new[s] \in View /\ SameStories(new[s], view[s]) /\ SameRoster(new[s], view[s])
             /\ new[s].state = "host_vacant" /\ new[s].window = view[s].window
  <2>1. view[s] \in View /\ new[s] = ApplyHostVacant(view[s])
    BY <1>1, <1>2 DEF ClientsTypeOK
  <2> HIDE DEF new
  <2> QED  BY <2>1, RoomFields DEF RoomState
<1>3. new = [s \in Socket |-> new[s]] /\ Broadcast(new)
  OBVIOUS
<1> HIDE DEF new
<1>4. /\ view' \in [Socket -> View]
      /\ \A s \in Socket : boundTo[s] # NoVoter => view'[s] = new[s]
  BY <1>1, <1>2, <1>3, AllNew
<1>5. ASSUME NEW s \in Socket, boundTo[s] # NoVoter
      PROVE  /\ SameStories(view'[s], view[s])
             /\ view'[s].host = hostId' /\ view'[s].role = role' /\ view'[s].conn = conn'
             /\ ShowsRoomNext(view'[s])
  <2>1. ShowsRoster(view[s]) /\ ShowsRoom(view[s])
    BY <1>5, WatcherShows
  <2>2. /\ SameStories(view'[s], view[s]) /\ SameRoster(view'[s], view[s])
        /\ view'[s].state = "host_vacant" /\ view'[s].window = view[s].window
    BY <1>2, <1>4, <1>5
  <2> QED  BY <2>1, <2>2 DEF ShowsRoster, ShowsRoom, ShowsRoomNext, SameRoster, voterVars
<1>6. UNCHANGED <<boundTo, cast, storyVars>> /\ role' = role
  BY DEF voterVars
<1> QED  BY <1>4, <1>5, <1>6, BroadcastShown

(* A close of a window that revealed something lays the cards open.        *)
LEMMA WindowCloseShown ==
    ASSUME ClientsInv, CoverInv', UNCHANGED <<voterVars, hostId, cast>>,
           roomState' = "review", Mode = "async", window' = NoTime,
           \A st \in Story :
              /\ story'[st] = IF st \in ActiveStories THEN "revealed" ELSE story[st]
              /\ st \notin ActiveStories => flagged'[st] = flagged[st],
           Broadcast([s \in Socket |->
               AsyncWindowClosed(VotesRevealed(view[s], ActiveStories, TRUE))])
    PROVE  ClientsInv'
<1>1. /\ ClientsTypeOK /\ story \in [Story -> StoryState]
      /\ boundTo' = boundTo
      /\ cast \subseteq Voter \X Story
      /\ \A c \in cast : role[c[1]] \in {"host", "voter"}
      /\ \A y \in Story : FreshRow(y)
  BY TablesBefore DEF voterVars
<1>2. TypeInv'
  BY DEF CoverInv, SeatInv
<1> DEFINE laid(s) == VotesRevealed(view[s], ActiveStories, TRUE)
           new == [s \in Socket |-> AsyncWindowClosed(laid(s))]
<1>3. new = [s \in Socket |-> new[s]] /\ Broadcast(new)
  OBVIOUS
<1>4. ASSUME NEW s \in Socket
      PROVE  /\ new[s] \in View /\ SameRoster(new[s], view[s])
             /\ SameStories(new[s], laid(s)) /\ Reveals(laid(s), view[s], ActiveStories, TRUE)
             /\ new[s].state = "review"
  <2>1. Reveals(laid(s), view[s], ActiveStories, TRUE)
    <3>1. view[s] \in View /\ ActiveStories \in SUBSET Story
      BY <1>1, <1>4 DEF ClientsTypeOK, ActiveStories
    <3> QED  BY <1>2, <3>1, RevealedFields
  <2>2. new[s] = AsyncWindowClosed(laid(s))
    BY <1>4
  <2> HIDE DEF laid, new
  <2>3. /\ AsyncWindowClosed(laid(s)) \in View
        /\ SameStories(AsyncWindowClosed(laid(s)), laid(s))
        /\ SameRoster(AsyncWindowClosed(laid(s)), laid(s))
        /\ AsyncWindowClosed(laid(s)).state = "review"
    BY <2>1, RoomFields DEF Reveals, RoomState
  <2> QED  BY <2>1, <2>2, <2>3 DEF SameRoster, Reveals
<1> HIDE DEF laid, new
<1>5. /\ view' \in [Socket -> View]
      /\ \A s \in Socket : boundTo[s] # NoVoter => view'[s] = new[s]
  BY <1>1, <1>3, <1>4, AllNew
<1>6. ASSUME NEW s \in Socket, boundTo[s] # NoVoter
      PROVE  /\ SameRoster(view'[s], view[s]) /\ ShowsRoomNext(view'[s])
             /\ \A y \in Story : Shown(s, y)'
  <2>1. SameRoster(view'[s], view[s]) /\ ShowsRoomNext(view'[s])
    BY <1>4, <1>5, <1>6 DEF ShowsRoomNext
  <2>2. ASSUME NEW y \in Story
        PROVE  Shown(s, y)'
    <3>1. Shown(s, y)
      BY <1>6, WatcherStories
    <3>2. /\ view'[s].mine = view[s].mine
          /\ view'[s].revealed = view[s].revealed \cup ActiveStories
          /\ view'[s].story[y] =
               IF y \in ActiveStories /\ view[s].story[y] # "absent" THEN "revealed"
                                                                     ELSE view[s].story[y]
          /\ view'[s].flag[y] =
               IF y \in ActiveStories /\ view[s].story[y] # "absent" THEN flagged'[y]
                                                                     ELSE view[s].flag[y]
      BY <1>4, <1>5, <1>6 DEF SameStories, Reveals
    <3>3. CASE y \in ActiveStories
      BY <1>1, <3>1, <3>2, <3>3 DEF Shown
    <3>4. CASE y \notin ActiveStories
      <4>1. view[s].story[y] # "active"
        BY <3>1, <3>4 DEF Shown, ActiveStories
      <4> QED  BY <1>1, <3>1, <3>2, <3>4, <4>1 DEF Shown
    <3> QED  BY <3>3, <3>4
  <2> QED  BY <2>1, <2>2
<1>7. \A y \in Story : FreshRow(y)'
  BY <1>1 DEF FreshRow, ActiveStories
<1>8. SyncUnflagged'
  BY DEF SyncUnflagged
<1> QED  BY <1>1, <1>5, <1>6, <1>7, <1>8, StoryShown

(* A task that no browser hears of changes nothing a browser shows.        *)
LEMMA SilentShown ==
    ASSUME ClientsInv, CoverInv', UNCHANGED <<voterVars, hostId, cast, view>>,
           UNCHANGED <<story, flagged>>,
           \/ UNCHANGED <<roomState, window>>
           \/ roomState' = "review" /\ window' = NoTime /\ Mode = "async"
    PROVE  ClientsInv'
<1>1. SyncUnflagged' /\ StoriesInv'
  BY DEF ClientsInv, SyncUnflagged, StoriesInv, FreshStories, StoriesAgree, RoundAgrees,
         Watching, voterVars
<1>2. ClientsTypeOK' /\ RosterAgrees'
  BY DEF ClientsInv, ClientsTypeOK, RosterAgrees, Watching, voterVars
<1>3. RoomAgrees'
  BY DEF ClientsInv, RoomAgrees, Watching, voterVars
<1> QED  BY <1>1, <1>2, <1>3 DEF ClientsInv

(* Every alarm leaves the browsers with the room.                          *)
LEMMA TaskEventShown ==
    ASSUME ClientsInv, CoverInv', TaskEvent
    PROVE  ClientsInv'
<1>1. DispatchTask /\ cast' = cast
  BY DEF TaskEvent
<1>2. /\ UNCHANGED <<voterVars, hostId>>
      /\ \/ UNCHANGED <<roomVars, storyVars>>
         \/ /\ roomState' = "host_vacant" /\ roomState # "host_vacant"
            /\ UNCHANGED <<window, storyVars>>
         \/ /\ roomState' = "review" /\ roomState # "review" /\ Mode = "async"
            /\ window' = NoTime
            /\ \A st \in Story :
                 /\ story'[st] = IF st \in ActiveStories THEN "revealed" ELSE story[st]
                 /\ st \notin ActiveStories => flagged'[st] = flagged[st]
  BY <1>1, TaskWrites
<1>3. CASE UNCHANGED <<roomVars, storyVars>>
  <2>1. view' = view
    BY <1>3 DEF TaskEvent, roomVars
  <2> QED  BY <1>1, <1>2, <1>3, <2>1, SilentShown DEF roomVars, storyVars
<1>4. CASE /\ roomState' = "host_vacant" /\ roomState # "host_vacant"
           /\ UNCHANGED <<window, storyVars>>
  <2>1. Broadcast([s \in Socket |-> ApplyHostVacant(view[s])])
    BY <1>4 DEF TaskEvent
  <2> QED  BY <1>1, <1>2, <1>4, <2>1, VacancyShown
<1>5. CASE /\ roomState' = "review" /\ roomState # "review" /\ Mode = "async"
           /\ window' = NoTime
           /\ \A st \in Story :
                /\ story'[st] = IF st \in ActiveStories THEN "revealed" ELSE story[st]
                /\ st \notin ActiveStories => flagged'[st] = flagged[st]
  <2>1. CASE ActiveStories # {}
    <3>1. Broadcast([s \in Socket |->
               AsyncWindowClosed(VotesRevealed(view[s], ActiveStories, TRUE))])
      BY <1>5, <2>1 DEF TaskEvent
    <3> QED  BY <1>1, <1>2, <1>5, <3>1, WindowCloseShown
  <2>2. CASE ActiveStories = {}
    <3>1. view' = view
      BY <1>5, <2>2 DEF TaskEvent
    <3>2. story' = story /\ flagged' = flagged
      <4>1. /\ story \in [Story -> StoryState] /\ flagged \in [Story -> BOOLEAN]
            /\ story' \in [Story -> StoryState] /\ flagged' \in [Story -> BOOLEAN]
        BY DEF ClientsInv, CoverInv, SeatInv, TypeInv, TypeOK
      <4>2. \A st \in Story : story'[st] = story[st] /\ flagged'[st] = flagged[st]
        BY <1>5, <2>2
      <4> QED  BY <4>1, <4>2
    <3> QED  BY <1>1, <1>2, <1>5, <3>1, <3>2, SilentShown
  <2> QED  BY <2>1, <2>2
<1> QED  BY <1>2, <1>3, <1>4, <1>5

(* The room of createRoom has no browser bound to it.                      *)
LEMMA ClientsInitInv == ClientsInit => ClientsInv
<1> SUFFICES ASSUME ClientsInit PROVE ClientsInv
  OBVIOUS
<1>1. Init /\ cast = {} /\ view = [s \in Socket |-> Blank]
  BY DEF ClientsInit
<1>2. CoverInv
  <2>1. OnlyVacancyTasks /\ HostAbsenceCovered
    BY <1>1, VoterAssumption DEF Init, OnlyVacancyTasks, HostAbsenceCovered
  <2> QED  BY <1>1, <2>1, InitSeatInv DEF CoverInv
<1>3. Blank \in View
  <2>1. [st \in Story |-> FALSE] \in [Story -> BOOLEAN]
    OBVIOUS
  <2> QED  BY <2>1, VoterAssumption DEF Blank, View, RoomState, Time, StoryState, Role, Conn
<1>4. Watching = {}
  BY <1>1 DEF Init, Watching
<1>5. \A st \in Story : ~flagged[st]
  BY <1>1 DEF Init
<1>6. ClientsTypeOK /\ SyncUnflagged
  BY <1>1, <1>3, <1>5 DEF ClientsTypeOK, SyncUnflagged
<1>7. RosterAgrees /\ RoomAgrees /\ StoriesInv
  BY <1>1, <1>4, <1>5 DEF RosterAgrees, RoomAgrees, StoriesInv, FreshStories, StoriesAgree,
                          RoundAgrees
<1> QED  BY <1>2, <1>6, <1>7 DEF ClientsInv

(* ClientsInv is inductive.                                                *)
LEMMA ClientsStep == ClientsInv /\ [ClientsNext]_clientVars => ClientsInv'
<1> SUFFICES ASSUME ClientsInv, [ClientsNext]_clientVars PROVE ClientsInv'
  OBVIOUS
<1>1. CoverInv'
  BY ClientsStepIsRoomStep, CoverStep DEF ClientsInv
<1>2. CASE JoinEvent \/ ReJoinEvent \/ CloseEvent \/ SeatEvent \/ LateClaim \/ TaskEvent
  BY <1>1, <1>2, JoinEventShown, ReJoinEventShown, CloseEventShown, SeatEventShown,
     LateClaimShown, TaskEventShown
<1>3. CASE /\ OpenEvent \/ CastEvent \/ AddEvent \/ FinishEvent \/ AsyncEvent
           /\ UNCHANGED voterVars
  BY <1>1, <1>3, OpenEventShown, CastEventShown, AddEventShown, FinishEventShown,
     AsyncEventShown
<1>4. CASE \/ (AlarmFires \/ AlarmDone \/ Tick) /\ UNCHANGED <<cast, view>>
           \/ UNCHANGED clientVars
  <2>1. UNCHANGED <<roomVars, voterVars, storyVars, cast, view>>
    BY <1>4 DEF AlarmFires, AlarmDone, Tick, clientVars, vars, roomVars, voterVars, storyVars
  <2> QED  BY <1>1, <2>1, SilentShown DEF roomVars, storyVars
<1> QED  BY <1>2, <1>3, <1>4 DEF ClientsNext

(* ClientsInv holds in every reachable state.                              *)
LEMMA ClientsAlways == ClientsSpec => []ClientsInv
  BY ClientsInitInv, ClientsStep, PTL DEF ClientsSpec

-----------------------------------------------------------------------------
(* What every browser shows.                                               *)

(* Every store is a RoomStore and every vote row a voter's own             *)
(* (roomReducer.ts, operations.ts castVote).                               *)
THEOREM ClientsTypeCorrect == ClientsSpec => []ClientsTypeOK
<1>1. ClientsInv => ClientsTypeOK
  BY DEF ClientsInv
<1> QED  BY <1>1, ClientsAlways, PTL

(* Every browser shows the host, the roles and the presence the room holds *)
(* (roomReducer.ts; broadcast.ts and the handlers that call it).           *)
THEOREM RosterAlwaysAgrees == ClientsSpec => []RosterAgrees
<1>1. ClientsInv => RosterAgrees
  BY DEF ClientsInv
<1> QED  BY <1>1, ClientsAlways, PTL

(* A story that a browser lists is in the state and the bucket the room    *)
(* has it in.                                                              *)
THEOREM StoriesAlwaysAgree == ClientsSpec => []StoriesAgree
<1>1. ClientsInv => StoriesAgree
  BY DEF ClientsInv, StoriesInv
<1> QED  BY <1>1, ClientsAlways, PTL

(* Cards lie open and votes are marked as one's own as the room has it.    *)
THEOREM RoundAlwaysAgrees == ClientsSpec => []RoundAgrees
<1>1. ClientsInv => RoundAgrees
  BY DEF ClientsInv, StoriesInv
<1> QED  BY <1>1, ClientsAlways, PTL

(* An open window and a vacancy are shown by every browser, and in a       *)
(* synchronous room the room's state always.                               *)
THEOREM RoomAlwaysAgrees == ClientsSpec => []RoomAgrees
<1>1. ClientsInv => RoomAgrees
  BY DEF ClientsInv
<1> QED  BY <1>1, ClientsAlways, PTL
=============================================================================
