-------------------------------- MODULE RoomAi --------------------------------
(***************************************************************************)
(* AI suggestions in a room: REQUEST_AI, SHARE_AI and EDIT_STORY of        *)
(* dispatcher.ts, the call to the provider, which runAiCall of room.ts     *)
(* continues after its message has been handled, and every message that    *)
(* may carry a suggestion to a browser.                                    *)
(*                                                                         *)
(* The handlers of Room are taken as they are; each is joined with what it *)
(* sends.  The provider's key is assumed set: without it a request that    *)
(* misses the cache is answered with an error and writes nothing.          *)
(***************************************************************************)
EXTENDS Room

CONSTANTS
    Text,     \* story texts, as far as the cache tells them apart
    Limit     \* AI_RATE_LIMIT_PER_ROOM_PER_HOUR

ASSUME AiAssumption == Text # {} /\ Limit \in Nat

VARIABLES
    text,     \* story.text
    aiState,  \* ai_suggestion.state, "none" while there is no row
    shared,   \* ai_suggestion.shared
    cached,   \* the texts ai_cache has an answer for
    spent,    \* ai_rate_limit.count of the current hour
    calls,    \* runAiCall's under way
    aware     \* the stories of which a voter's browsers got any trace of AI

aiRows == <<text, aiState, shared, cached, spent, calls>>
aiVars == <<vars, aiRows, aware>>

Call == [story : Story, text : Text, phase : {"waiting", "reading"}]

-----------------------------------------------------------------------------
(* Who is sent what.                                                       *)

(* Mutant: a ready suggestion of a revealed story goes out unshared.       *)
Projected_SharedOrNot(v, st, state) ==
    \/ v = hostId' /\ aiState[st] # "none"
    \/ state \in {"revealed", "committed"} /\ aiState[st] = "ready"

(* projectAiForRecipient: the host gets every suggestion in any state,     *)
(* everybody else a ready one that is shared, of a revealed story.         *)
Projected(v, st, state) ==
    /\ aiState[st] # "none"
    /\ v # hostId' => /\ state \in {"revealed", "committed"}
                      /\ aiState[st] = "ready" /\ shared[st]

(* buildSnapshot, for the voter who has just joined.                       *)
Snapshot(v) ==
    aware' = [aware EXCEPT ![v] = @ \cup
                {st \in Story : /\ story[st] \in {"active", "revealed", "committed"}
                                /\ Projected(v, st, story[st])}]

(* votes_revealed, projected for every bound socket.                       *)
RevealCarries(revealed) ==
    aware' = [v \in Voter |-> aware[v] \cup
                {st \in revealed : Live(v) /\ Projected(v, st, "revealed")}]

(* sendToHostSockets: the host is looked up when the message is sent.      *)
SendToHost(st) ==
    aware' = [aware EXCEPT ![hostId] = IF Live(hostId) THEN @ \cup {st} ELSE @]

-----------------------------------------------------------------------------
(* Handlers.                                                               *)

(* editStory works in every state of the story and leaves its suggestion.  *)
EditStory(st, x) ==
    /\ RequireHost
    /\ story[st] # "absent"
    /\ text' = [text EXCEPT ![st] = x]
    /\ UNCHANGED <<aiState, shared, cached, spent, calls, aware>>

(* upsertAiSuggestion with shared: false.                                  *)
Answered(st) ==
    /\ aiState' = [aiState EXCEPT ![st] = "ready"]
    /\ shared' = [shared EXCEPT ![st] = FALSE]

(* getAiCache: the same text on the same deck has been answered before.    *)
Known(st) == text[st] \in cached

Eligible(st) == RequireHost /\ story[st] \in {"pending", "active"}

(* Mutant: a call in flight does not absorb the request.                   *)
RequestCall_NotAbsorbed(st) ==
    /\ Eligible(st)
    /\ aiState[st] # "ready" /\ ~Known(st)
    /\ spent < Limit
    /\ spent' = spent + 1
    /\ aiState' = [aiState EXCEPT ![st] = "pending"]
    /\ calls' = calls \cup {[story |-> st, text |-> text[st], phase |-> "waiting"]}
    /\ UNCHANGED <<text, shared, cached, aware>>

(* REQUEST_AI that starts a call: no answer yet, or a failed one, nothing  *)
(* cached for this text, and a call left in the hour's budget.             *)
RequestCall(st) ==
    /\ Eligible(st)
    /\ aiState[st] \in {"none", "failed"} /\ ~Known(st)
    /\ spent < Limit
    /\ spent' = spent + 1
    /\ aiState' = [aiState EXCEPT ![st] = "pending"]
    /\ calls' = calls \cup {[story |-> st, text |-> text[st], phase |-> "waiting"]}
    /\ UNCHANGED <<text, shared, cached, aware>>

(* Over budget: the counter still goes up.  Limit + 1 stands for all more. *)
RequestRefused(st) ==
    /\ Eligible(st)
    /\ aiState[st] \in {"none", "failed"} /\ ~Known(st)
    /\ spent >= Limit
    /\ spent' = Limit + 1
    /\ UNCHANGED <<text, aiState, shared, cached, calls, aware>>

(* Mutant: a cached text answers again for a story that has its answer.    *)
RequestCached_Again(st) ==
    /\ Eligible(st)
    /\ aiState[st] # "pending" /\ Known(st)
    /\ Answered(st)
    /\ SendToHost(st)
    /\ UNCHANGED <<text, cached, spent, calls>>

(* REQUEST_AI answered from the cache.                                     *)
RequestCached(st) ==
    /\ Eligible(st)
    /\ aiState[st] \in {"none", "failed"} /\ Known(st)
    /\ Answered(st)
    /\ SendToHost(st)
    /\ UNCHANGED <<text, cached, spent, calls>>

(* REQUEST_AI for a story that has its answer: it is sent once more.       *)
RequestAgain(st) ==
    /\ Eligible(st)
    /\ aiState[st] = "ready"
    /\ SendToHost(st)
    /\ UNCHANGED aiRows

(* markAiSuggestionShared                                                  *)
MarkShared(st) ==
    /\ aiState[st] = "ready"
    /\ shared' = [shared EXCEPT ![st] = TRUE]

(* SHARE_AI, the one way a suggestion crosses to the room.                 *)
ShareAi(st) ==
    /\ RequireHost
    /\ story[st] \in {"revealed", "committed"}
    /\ MarkShared(st)
    /\ aware' = [v \in Voter |-> IF Live(v) THEN aware[v] \cup {st} ELSE aware[v]]
    /\ UNCHANGED <<text, aiState, cached, spent, calls>>

-----------------------------------------------------------------------------
(* The call.  Its 20 s timer runs until the response's headers are there;  *)
(* the body is read without one.                                           *)

HeadersArrive(c) ==
    /\ c.phase = "waiting"
    /\ calls' = (calls \ {c}) \cup {[c EXCEPT !.phase = "reading"]}
    /\ UNCHANGED <<text, aiState, shared, cached, spent, aware>>

PutCache(c) == cached' = cached \cup {c.text}

(* The answer is written to the row whatever became of the story.          *)
CallAnswers(c) ==
    /\ c.phase = "reading"
    /\ calls' = calls \ {c}
    /\ Answered(c.story)
    /\ PutCache(c)
    /\ SendToHost(c.story)
    /\ UNCHANGED <<text, spent>>

(* A network error, a bad status, a refusal, an answer of another shape.   *)
CallFails(c) ==
    /\ calls' = calls \ {c}
    /\ aiState' = [aiState EXCEPT ![c.story] = "failed"]
    /\ shared' = [shared EXCEPT ![c.story] = FALSE]
    /\ SendToHost(c.story)
    /\ UNCHANGED <<text, cached, spent>>

(* The timer aborts the fetch.                                             *)
CallTimesOut(c) == c.phase = "waiting" /\ CallFails(c)

-----------------------------------------------------------------------------
(* Room's events, each with what it sends.                                 *)

SeatMessage ==
    /\ \/ \E s \in Socket, v \in Voter :
            /\ JoinResume(s, v) \/ \E r \in {"voter", "spectator"} : JoinNew(s, v, r)
            /\ Snapshot(v)
       \/ \E s \in Socket : ReJoin(s) /\ Snapshot(boundTo[s])
       \/ /\ \/ \E s \in Socket : CloseSocket(s) \/ ClaimHost(s)
             \/ \E v \in Voter : TransferHost(v)
          /\ UNCHANGED aware
    /\ ~draining
    /\ UNCHANGED <<clockVars, aiRows>>

QueueMessage ==
    /\ \/ \E st \in Story, x \in Text :
            /\ AddStory(st)
            /\ text' = [text EXCEPT ![st] = x]
            /\ UNCHANGED <<aiState, shared, cached, spent, calls, aware>>
       \/ \E st \in Story : /\ RevealVotes(st)
                            /\ RevealCarries({st})
                            /\ UNCHANGED aiRows
       \/ /\ \/ \E st \in Story :
                  \/ OpenVoting(st) \/ OpenDiscussion(st)
                  \/ CommitStory(st) \/ SkipStory(st)
                  \/ \E s \in Socket, b \in Ballot : CastVote(s, st, b)
             \/ AcceptAgreed
             \/ \E d \in Windows : OpenAsync(d)
          /\ UNCHANGED <<aiRows, aware>>
       \/ \E st \in Story, children \in SUBSET Story, x \in Text :
            /\ SplitStory(st, children)
            /\ text' = [y \in Story |-> IF y \in children THEN x ELSE text[y]]
            /\ UNCHANGED <<aiState, shared, cached, spent, calls, aware>>
    /\ ~draining
    /\ UNCHANGED <<voterVars, clockVars>>

AiMessage ==
    /\ \E st \in Story :
         \/ RequestCall(st) \/ RequestRefused(st) \/ RequestCached(st)
         \/ RequestAgain(st) \/ ShareAi(st)
         \/ \E x \in Text : EditStory(st, x)
    /\ ~draining
    /\ UNCHANGED vars

AlarmEvent ==
    \/ /\ AlarmFires \/ AlarmDone \/ Tick
       /\ UNCHANGED <<aiRows, aware>>
    \/ /\ DispatchTask
       /\ RevealCarries({st \in ActiveStories : story'[st] = "revealed"})
       /\ UNCHANGED aiRows

(* The clock reaches the next hour: the next check finds no bucket.        *)
HourTurns ==
    /\ spent' = 0
    /\ UNCHANGED <<vars, text, aiState, shared, cached, calls, aware>>

HeadersEvent == ~draining /\ UNCHANGED vars /\ \E c \in calls : HeadersArrive(c)
AnswerEvent == ~draining /\ UNCHANGED vars /\ \E c \in calls : CallAnswers(c)
FailureEvent == ~draining /\ UNCHANGED vars /\ \E c \in calls : CallFails(c)
TimeoutEvent == ~draining /\ UNCHANGED vars /\ \E c \in calls : CallTimesOut(c)

(* The object is evicted or replaced: the promise of runAiCall is gone and *)
(* nothing resumes it; the rows stay.                                      *)
CallLost ==
    /\ \E c \in calls : calls' = calls \ {c}
    /\ UNCHANGED <<vars, text, aiState, shared, cached, spent, aware>>

AiInit ==
    /\ Init
    /\ text \in [Story -> Text]
    /\ aiState = [st \in Story |-> "none"]
    /\ shared = [st \in Story |-> FALSE]
    /\ cached = {}
    /\ spent = 0
    /\ calls = {}
    /\ aware = [v \in Voter |-> {}]

AiNext ==
    \/ SeatMessage \/ QueueMessage \/ AiMessage \/ AlarmEvent \/ HourTurns
    \/ HeadersEvent \/ AnswerEvent \/ FailureEvent \/ TimeoutEvent

AiSpec == AiInit /\ [][AiNext \/ CallLost]_aiVars

(* An object that is never replaced: the platform's timers fire, but       *)
(* nothing makes the provider finish an answer it has begun.               *)
AiLiveSpec == AiInit /\ [][AiNext]_aiVars /\ WF_aiVars(TimeoutEvent)

-----------------------------------------------------------------------------
(* Safety.                                                                 *)

(* Every row holds a value its readers understand, and only an answer can  *)
(* be marked shared.                                                       *)
AiTypeOK ==
    /\ text \in [Story -> Text]
    /\ aiState \in [Story -> {"none", "pending", "ready", "failed"}]
    /\ shared \in [Story -> BOOLEAN]
    /\ cached \subseteq Text
    /\ spent \in 0..Limit + 1
    /\ calls \subseteq Call
    /\ aware \in [Voter -> SUBSET Story]
    /\ \A st \in Story : shared[st] => aiState[st] = "ready"

(* At most one call is under way for a story, and while it is the row says *)
(* pending: retries, edits, reveals, skips and lost calls never start a    *)
(* second one beside it, nor make a live call's row look free.             *)
OneCallPerStory ==
    \A c \in calls : /\ aiState[c.story] = "pending"
                     /\ \A d \in calls : c.story = d.story => c = d

(* An answer, once there, is never overwritten by a late failure or a new  *)
(* request, and once shared it stays shared.                               *)
AnswerKept ==
    [][\A st \in Story : /\ aiState[st] = "ready" => aiState'[st] = "ready"
                         /\ shared[st] => shared'[st]]_aiVars

(* No trace of AI reaches a voter who is not the host at that moment, but  *)
(* for the answer of a revealed story that the host has shared: not by the *)
(* completion, a reveal, a snapshot, or a hand-over of the seat.           *)
NoTraceBeforeShare ==
    [][\A v \in Voter : \A st \in aware'[v] \ aware[v] :
          \/ v = hostId'
          \/ shared'[st] /\ story'[st] \in {"revealed", "committed"}]_aiVars

-----------------------------------------------------------------------------
(* What comments of the code say of it and some behaviour refutes.         *)

(* "Re-read SQL on settle ...: the story may have been revealed/skipped/   *)
(* split meanwhile": an answer is written only for a story still eligible. *)
AnswerRechecked ==
    [][\A st \in Story : aiState[st] = "pending" /\ aiState'[st] = "ready" =>
          story[st] \in {"pending", "active"}]_aiVars

(* At a reveal "`shared` is always false": no suggestion that is already   *)
(* shared rides on votes_revealed.                                         *)
RevealCarriesUnshared ==
    [][\A st \in Story : story[st] = "active" /\ story'[st] = "revealed" =>
          ~shared[st]]_aiVars

(* "Wall-clock cap for the Anthropic call": a pending request is over at   *)
(* some time, with an answer or a failure.                                 *)
CallSettles ==
    \A st \in Story : aiState[st] = "pending" ~> aiState[st] # "pending"
=============================================================================
