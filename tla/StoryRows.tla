------------------------------- MODULE StoryRows -------------------------------
(***************************************************************************)
(* The operations of operations.ts on the story and vote tables, each with *)
(* the condition under which it throws nothing.                            *)
(***************************************************************************)
EXTENDS RoomTables

Openable == {"pending", "revealed"}
Droppable == {"pending", "active", "revealed"}

AddStoryRow(st) ==
    /\ story[st] = "absent"
    /\ story' = [story EXCEPT ![st] = "pending"]
    /\ UNCHANGED <<flagged, ballot>>

(* openVoting: reopening a revealed story deletes its votes.  The flag of  *)
(* an earlier async close stays on the row.                                *)
OpenVotingRow(st) ==
    /\ story[st] \in Openable
    /\ ActiveStories = {}
    /\ story' = [story EXCEPT ![st] = "active"]
    /\ ballot' = [ballot EXCEPT
                    ![st] = IF story[st] = "revealed" THEN "blank" ELSE @]
    /\ UNCHANGED flagged

(* castVote.  Which class the story's votes fall into after the cast       *)
(* depends on the cards and confidences of all of them: any is possible.   *)
CastVoteRow(v, st, b) ==
    /\ role[v] # "spectator"
    /\ story[st] = "active"
    /\ ballot' = [ballot EXCEPT ![st] = b]
    /\ UNCHANGED <<story, flagged>>

RevealRow(st) ==
    /\ story[st] = "active"
    /\ story' = [story EXCEPT ![st] = "revealed"]
    /\ UNCHANGED <<flagged, ballot>>

CommitRow(st) ==
    /\ story[st] = "revealed"
    /\ story' = [story EXCEPT ![st] = "committed"]
    /\ UNCHANGED <<flagged, ballot>>

(* maybeReturnToReviewAfterCommit, which reads the stories after the       *)
(* commit.                                                                 *)
MaybeReturnToReview ==
    /\ roomState' = IF /\ roomState = "active"
                       /\ ActiveStories = {}
                       /\ StillToDiscuss(story')
                    THEN "review" ELSE roomState
    /\ UNCHANGED <<hostId, vacantSince, window>>

SkipRow(st) ==
    /\ story[st] \in Droppable
    /\ story' = [story EXCEPT ![st] = "skipped"]
    /\ UNCHANGED <<flagged, ballot>>

(* splitStory: the parent ends, 2 to 8 pending children take its place.    *)
SplitRows(st, children) ==
    /\ story[st] \in Droppable
    /\ Cardinality(children) \in 2..8
    /\ \A c \in children : story[c] = "absent"
    /\ story' = [x \in Story |-> CASE x = st -> "split"
                                   [] x \in children -> "pending"
                                   [] OTHER -> story[x]]
    /\ UNCHANGED <<flagged, ballot>>

(* Mutant: no ASYNC_ALREADY_OPENED.                                        *)
OpenAsyncRows_TwiceOpen(closesAt) ==
    /\ Mode = "async"
    /\ \E st \in Story : story[st] = "pending"
    /\ story' = [st \in Story |->
                    IF story[st] = "pending" THEN "active" ELSE story[st]]
    /\ window' = closesAt
    /\ roomState' = "active"
    /\ UNCHANGED <<hostId, vacantSince, flagged, ballot>>

(* openAsyncWindow: every pending story becomes active at once, whatever   *)
(* the room's state was.                                                   *)
OpenAsyncRows(closesAt) ==
    /\ Mode = "async"
    /\ window = NoTime
    /\ \E st \in Story : story[st] = "pending"
    /\ story' = [st \in Story |->
                    IF story[st] = "pending" THEN "active" ELSE story[st]]
    /\ window' = closesAt
    /\ roomState' = "active"
    /\ UNCHANGED <<hostId, vacantSince, flagged, ballot>>

(* Mutant: the window is dropped and the stories stay open.                *)
CloseAsyncRows_KeepsActive ==
    /\ roomState' = "review"
    /\ window' = NoTime
    /\ UNCHANGED <<hostId, vacantSince, story>>

(* closeAsyncWindow of a room that is not in review.                       *)
CloseAsyncRows ==
    /\ story' = [st \in Story |->
                    IF st \in ActiveStories THEN "revealed" ELSE story[st]]
    /\ roomState' = "review"
    /\ window' = NoTime
    /\ UNCHANGED <<hostId, vacantSince>>
=============================================================================
