---------------------------- MODULE StoryHandlers -----------------------------
(***************************************************************************)
(* The story queue and the room's trip through lobby, active and review:   *)
(* the host's story commands and VOTE_CAST of dispatcher.ts, and the       *)
(* async_close task of room.ts.  Except for VOTE_CAST every command is     *)
(* host-only, and none of them looks at host_vacant: a vacant room has no  *)
(* host socket to send one.                                                *)
(***************************************************************************)
EXTENDS StoryRows

AddStory(st) ==
    /\ RequireHost
    /\ AddStoryRow(st)
    /\ UNCHANGED <<roomVars, taskVars>>

(* OPEN_VOTING leaves the room's own state as it is.                       *)
OpenVoting(st) ==
    /\ RequireHost
    /\ OpenVotingRow(st)
    /\ UNCHANGED <<roomVars, taskVars>>

(* OPEN_DISCUSSION: a flagged story of the review is voted on again live.  *)
OpenDiscussion(st) ==
    /\ RequireHost
    /\ story[st] = "revealed" /\ flagged[st]
    /\ OpenVotingRow(st)
    /\ roomState' = IF roomState = "review" THEN "active" ELSE roomState
    /\ UNCHANGED <<hostId, vacantSince, window, taskVars>>

(* VOTE_CAST, attributed to the voter the socket is bound to.              *)
CastVote(s, st, b) ==
    /\ boundTo[s] # NoVoter
    /\ CastVoteRow(boundTo[s], st, b)
    /\ UNCHANGED <<roomVars, taskVars>>

RevealVotes(st) ==
    /\ RequireHost
    /\ RevealRow(st)
    /\ UNCHANGED <<roomVars, taskVars>>

CommitStory(st) ==
    /\ RequireHost
    /\ CommitRow(st)
    /\ MaybeReturnToReview
    /\ UNCHANGED taskVars

(* The stories ACCEPT_AGREED commits: unflagged and with a median.         *)
Agreed == {st \in Story : /\ story[st] = "revealed"
                          /\ ~flagged[st] /\ ballot[st] # "blank"}

AcceptAgreed ==
    /\ RequireHost
    /\ story' = [st \in Story |->
                    IF st \in Agreed THEN "committed" ELSE story[st]]
    /\ UNCHANGED <<flagged, ballot, roomVars, taskVars>>

SkipStory(st) ==
    /\ RequireHost
    /\ SkipRow(st)
    /\ UNCHANGED <<roomVars, taskVars>>

SplitStory(st, children) ==
    /\ RequireHost
    /\ SplitRows(st, children)
    /\ UNCHANGED <<roomVars, taskVars>>

OpenAsync(d) ==
    /\ RequireHost
    /\ OpenAsyncRows(now + d)
    /\ ScheduleTask([type |-> "async_close", at |-> now + d, host |-> NoVoter])

(* The async_close task fires: a no-op in review, otherwise every active   *)
(* story is revealed and put in the agreed or the discuss bucket.          *)
AsyncCloseFire ==
    \/ /\ roomState = "review"
       /\ UNCHANGED <<roomVars, storyVars>>
    \/ /\ roomState # "review"
       /\ CloseAsyncRows
       /\ flagged' = [st \in Story |->
                        IF st \in ActiveStories
                        THEN StoryNeedsDiscussion(ballot[st]) ELSE flagged[st]]
       /\ UNCHANGED ballot
=============================================================================
