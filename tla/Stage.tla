--------------------------------- MODULE Stage ---------------------------------
(***************************************************************************)
(* The stage of one browser's room page: the story in focus, the hand the  *)
(* browser's voter picks a card from, the count of the cards that are      *)
(* down, the cards that were revealed and the host's final pick.  A panel  *)
(* keeps what it was told for as long as it stays on the page, while the   *)
(* story in it may be exchanged under it.                                  *)
(*                                                                         *)
(* The stories are a queue the web page runs by hand; the host's commands  *)
(* may come from any client, and what they change reaches the browser in   *)
(* the same step: its store is the server's state at the time of the last  *)
(* message, and nothing here compares the two at another time.             *)
(***************************************************************************)
EXTENDS RevealStatistics, Sequences, Functions

CONSTANTS
    Voter,
    Me,          \* the browser's voter, who is the host; no voter here watches
    Order,       \* the stories in the order of the queue
    Casting,     \* [story -> [voter -> the cards the voter may cast on it]]
    Confidence,  \* [voter -> 1..5]
    Rounds       \* bound: [story -> how often it is opened]

NoStory == "no story"

ASSUME StageAssumption ==
    /\ Me \in Voter
    /\ Order \in Seq(Range(Order)) /\ NoStory \notin Range(Order)
    /\ Confidence \in [Voter -> 1..5]
    /\ Rounds \in [Range(Order) -> Nat]
    /\ \A st \in Range(Order), v \in Voter : Casting[st][v] \subseteq Int

Story == Range(Order)
Cards == UNION {Casting[st][Me] : st \in Story}

VARIABLES
    state,      \* story.state; "closed" stands for skipped
    votes,      \* the vote rows: [story -> [voters who cast -> card]]
    window,     \* an async window is open
    here        \* the voters with an open socket

VARIABLES
    presence,   \* RoomStore.votedPresence
    mine,       \* RoomStore.myVotes: the card, or NoCard
    hand,       \* CastPanel.points, and the story and round it was picked in
    pick        \* CommitPanel.picked, and the story it was picked for

VARIABLES
    round,      \* history: how often the story was opened
    saw         \* history: stories whose round the browser saw from its start

serverVars == <<state, votes, window, here>>
storeVars  == <<presence, mine>>
panelVars  == <<hand, pick>>
vars       == <<serverVars, storeVars, panelVars, round, saw>>

NoHand == [card |-> NoCard, of |-> <<NoStory, 0>>]
NoPick == [card |-> NoCard, of |-> NoStory]

Init ==
    /\ state = [st \in Story |-> "pending"]
    /\ votes = [st \in Story |-> <<>>]
    /\ window = FALSE
    /\ here = {}
    /\ presence = [st \in Story |-> {}]
    /\ mine = [st \in Story |-> NoCard]
    /\ hand = NoHand /\ pick = NoPick
    /\ round = [st \in Story |-> 0]
    /\ saw = {}

-----------------------------------------------------------------------------
(* What is on the page.  RoomShell is mounted while the socket is          *)
(* connected.                                                              *)
Mounted == Me \in here

Shown(st) == state[st] \in {"active", "revealed"}

(* The first story of the queue that is active or revealed.                *)
Focus ==
    IF \E i \in DOMAIN Order : Shown(Order[i])
    THEN Order[CHOOSE i \in DOMAIN Order :
                  /\ Shown(Order[i])
                  /\ \A j \in DOMAIN Order : j < i => ~Shown(Order[j])]
    ELSE NoStory

CastShown   == Mounted /\ Focus # NoStory /\ state[Focus] = "active"
CommitShown == Mounted /\ Focus # NoStory /\ state[Focus] = "revealed"

(* The hand as it is filled in for a story.                                *)
Dealt(st) == [card |-> mine[st], of |-> <<st, round[st]>>]

(* Mutant: the hand is filled in when it appears, and only then.           *)
SettleHand_Kept ==
    hand' = IF ~CastShown' THEN NoHand
            ELSE IF CastShown THEN hand ELSE Dealt(Focus)'

(* CastPanel: useState when it appears, the effect when its story changes. *)
SettleHand ==
    hand' = IF ~CastShown' THEN NoHand
            ELSE IF CastShown /\ Focus' = Focus THEN hand ELSE Dealt(Focus)'

(* CommitPanel: useState when it appears, and nothing after that.          *)
SettlePick ==
    pick' = IF ~CommitShown' THEN NoPick
            ELSE IF CommitShown THEN pick
            ELSE [card |-> Median(votes'[Focus']), of |-> NoStory]

Settle == SettleHand /\ SettlePick

-----------------------------------------------------------------------------
(* The host's commands and the end of the window.                          *)

Becomes(stories, to) ==
    state' = [st \in Story |-> IF st \in stories THEN to ELSE state[st]]

Opened(stories) ==
    /\ \A st \in stories : round[st] < Rounds[st]
    /\ Becomes(stories, "active")
    /\ round' = [st \in Story |-> IF st \in stories THEN round[st] + 1 ELSE round[st]]
    /\ saw' = IF Mounted THEN saw \cup stories ELSE saw \ stories

(* Mutant: the cards that were down in the last round are still shown.     *)
VotingOpened_KeepsPresence(st) ==
    /\ mine' = IF Mounted THEN [mine EXCEPT ![st] = NoCard] ELSE mine
    /\ UNCHANGED presence

(* applyChange of voting_opened.                                           *)
VotingOpened(st) ==
    /\ mine' = IF Mounted THEN [mine EXCEPT ![st] = NoCard] ELSE mine
    /\ presence' = IF Mounted THEN [presence EXCEPT ![st] = {}] ELSE presence

(* The votes of an earlier round are deleted.                              *)
OpenVoting(st) ==
    /\ \A x \in Story : state[x] # "active"
    /\ state[st] \in {"pending", "revealed"}
    /\ Opened({st})
    /\ votes' = [votes EXCEPT ![st] = <<>>]
    /\ VotingOpened(st)
    /\ UNCHANGED <<window, here>>
    /\ Settle

OpenAsync ==
    LET pending == {st \in Story : state[st] = "pending"} IN
    /\ ~window /\ pending # {}
    /\ window' = TRUE
    /\ Opened(pending)
    /\ UNCHANGED <<votes, here, storeVars>>
    /\ Settle

CloseAsync ==
    LET active == {st \in Story : state[st] = "active"} IN
    /\ window
    /\ window' = FALSE
    /\ Becomes(active, "revealed")
    /\ UNCHANGED <<votes, here, storeVars, round, saw>>
    /\ Settle

Progress(st, from, to) ==
    /\ state[st] \in from
    /\ Becomes({st}, to)
    /\ UNCHANGED <<votes, window, here, storeVars, round, saw>>
    /\ Settle

RevealVotes(st) == Progress(st, {"active"}, "revealed")
CommitStory(st) == Progress(st, {"revealed"}, "committed")
SkipStory(st)   == Progress(st, {"pending", "active", "revealed"}, "closed")

-----------------------------------------------------------------------------
(* VOTE_CAST: the row, the presence for everybody, the value for the       *)
(* caster.                                                                 *)
CastVote(v, st, card) ==
    /\ v \in here /\ state[st] = "active"
    /\ votes' = [votes EXCEPT ![st] =
                   [w \in DOMAIN @ \cup {v} |-> IF w = v THEN card ELSE @[w]]]
    /\ presence' = IF Mounted THEN [presence EXCEPT ![st] = @ \cup {v}] ELSE presence
    /\ mine' = IF v = Me THEN [mine EXCEPT ![st] = card] ELSE mine
    /\ UNCHANGED <<state, window, here, round, saw>>
    /\ Settle

(* The voter of the browser casts what is in the hand, on the story shown. *)
Submit ==
    /\ CastShown /\ hand.card # NoCard
    /\ CastVote(Me, Focus, hand.card)

Select(card) ==
    /\ CastShown /\ card \in Casting[Focus][Me]
    /\ hand' = [card |-> card, of |-> <<Focus, round[Focus]>>]
    /\ UNCHANGED <<serverVars, storeVars, pick, round, saw>>

SelectFinal(card) ==
    /\ CommitShown /\ card \in Casting[Focus][Me]
    /\ pick' = [card |-> card, of |-> Focus]
    /\ UNCHANGED <<serverVars, storeVars, hand, round, saw>>

-----------------------------------------------------------------------------
(* applySnapshot: the browser's own card comes with it, the others' cards  *)
(* are known to be down only from what the socket says.                    *)
Hydrated ==
    /\ presence' = [st \in Story |-> {}]
    /\ mine' = [st \in Story |->
                  IF state[st] = "active" /\ Me \in DOMAIN votes[st]
                  THEN votes[st][Me] ELSE NoCard]
    /\ saw' = {}

Arrive(v) ==
    /\ v \notin here
    /\ here' = here \cup {v}
    /\ IF v = Me THEN Hydrated ELSE UNCHANGED <<storeVars, saw>>
    /\ UNCHANGED <<state, votes, window, round>>
    /\ Settle

Leave(v) ==
    /\ v \in here
    /\ here' = here \ {v}
    /\ UNCHANGED <<state, votes, window, storeVars, round, saw>>
    /\ Settle

Next ==
    \/ \E st \in Story : \/ OpenVoting(st) \/ RevealVotes(st)
                         \/ CommitStory(st) \/ SkipStory(st)
    \/ OpenAsync \/ CloseAsync
    \/ \E v \in Voter \ {Me}, st \in Story :
          \E card \in Casting[st][v] : CastVote(v, st, card)
    \/ Submit
    \/ \E card \in Cards : Select(card) \/ SelectFinal(card)
    \/ \E v \in Voter : Arrive(v) \/ Leave(v)

Spec == Init /\ [][Next]_vars

-----------------------------------------------------------------------------
Ready(v) == IF v = Me THEN mine[Focus] # NoCard ELSE v \in presence[Focus]
EveryoneIn == CastShown /\ \A v \in here : Ready(v)

(* A card that lies selected in the hand was selected for the story and    *)
(* the round the hand belongs to, or is the browser's own card in them:    *)
(* "Cast estimate" never sends a card picked for something else            *)
(* (CastPanel.tsx).                                                        *)
HandOfThisRound ==
    (CastShown /\ hand.card # NoCard) => hand.of = <<Focus, round[Focus]>>

(* "Everyone's in" is said only when every voter at the table has a vote   *)
(* row on the story; and it is said then, unless the browser has missed a  *)
(* part of the round (VotingStage.tsx, votedPresence of reducer.ts).       *)
EveryoneInAgrees ==
    CastShown =>
        LET all == here \subseteq DOMAIN votes[Focus] IN
        /\ EveryoneIn => all
        /\ (all /\ Focus \in saw) => EveryoneIn

Revealed(st) == state[st] \in {"revealed", "committed"}

(* The verdicts on revealed cards do not contradict each other: the median *)
(* leaves at most half of the cards on either side, the tally tags the     *)
(* outliers of the statistics, a card is off the median only where the     *)
(* spread is high, what is stamped unanimous has neither, and what a       *)
(* window would put in the agreed bucket has a median to commit and no tag *)
(* (stats.ts; the panels of VotingStage.tsx).                              *)
VerdictsAgree ==
    \A st \in Story : Revealed(st) =>
        LET cards == votes[st]
            all   == Numeric(cards)
            Half(side) == 2 * Cardinality(side) <= Cardinality(all)
        IN  /\ all # {} =>
                  /\ Half({v \in all : cards[v] < Median(cards)})
                  /\ Half({v \in all : cards[v] > Median(cards)})
            /\ Tagged(cards) = {cards[v] : v \in Outliers(cards)}
            /\ Outliers(cards) # {} => SpreadHigh(cards)
            /\ Stamped(cards, here) => ~SpreadHigh(cards) /\ Tagged(cards) = {}
            /\ \/ StoryNeedsDiscussion(cards, Confidence)
               \/ Median(cards) # NoCard /\ Tagged(cards) = {}

(* "Commit pre-selects stats.median" (CommitPanel.tsx): a card the host    *)
(* did not pick for the story shown is its median.                         *)
PreselectsMedian ==
    (CommitShown /\ pick.of # Focus) => pick.card = Median(votes[Focus])

(* DESIGN_SPEC.md 3.9: the stamp appears "when all non-observer            *)
(* participants share the exact same value".                               *)
StampIsUnanimous ==
    \A st \in Story :
        (Revealed(st) /\ Stamped(votes[st], here)) => here = DOMAIN votes[st]
=============================================================================
