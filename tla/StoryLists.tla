------------------------------- MODULE StoryLists -------------------------------
(***************************************************************************)
(* The stories of a synchronous room as its browsers list them.  A list is *)
(* sorted by the copies of order_index the browser was sent, at the        *)
(* changes at which reducer.ts sorts.  The server does not say which       *)
(* stories a split has moved, so a copy can be stale until an edit brings  *)
(* the story's index again; and that edit does not sort.                   *)
(*                                                                         *)
(* A change reaches the browsers in the step that makes it: one socket     *)
(* keeps the order of its messages, and a list depends on nothing else.    *)
(***************************************************************************)
EXTENDS StoryOrder, Sequences, FiniteSets

CONSTANTS
    Browser,
    HistoryLimit    \* REVEALED_HISTORY_LIMIT

VARIABLES
    joined,   \* the browsers with a snapshot of the room
    list,     \* RoomStore.stories: a sequence of stories with their indices
    moves,    \* history: how many splits have moved a story
    told,     \* history: how many had when a browser heard a story's index
    unsorted  \* history: the stories of a list to which an edit gave another
              \* index, until the list is sorted

historyVars == <<moves, told, unsorted>>
clientVars == <<joined, list, historyVars>>
vars == <<serverVars, clientVars>>

Init ==
    /\ InitOrder
    /\ joined = {}
    /\ list = [b \in Browser |-> <<>>]
    /\ moves = 0
    /\ told = [b \in Browser |-> [st \in Story |-> 0]]
    /\ unsorted = [b \in Browser |-> {}]

StoriesOf(entries) == {entries[i].story : i \in DOMAIN entries}

-----------------------------------------------------------------------------
(* A finite set in a row: each element behind as many as are before it.    *)
InRow(S, before) ==
    [i \in 1..Cardinality(S) |->
        CHOOSE x \in S : Cardinality({y \in S : <<y, x>> \in before}) = i - 1]

(* Array.prototype.sort leaves equal entries in the order they have.       *)
SortedByIndex(entries) ==
    LET places == DOMAIN entries
        at == InRow(places, {p \in places \X places :
                  \/ entries[p[1]].index < entries[p[2]].index
                  \/ entries[p[1]].index = entries[p[2]].index /\ p[1] < p[2]})
    IN  [i \in places |-> entries[at[i]]]

(* The rows of a set of stories as a message carries them.                 *)
Rows(stories) ==
    LET at == InRow(stories, {p \in stories \X stories : index'[p[1]] < index'[p[2]]})
    IN  [i \in 1..Cardinality(stories) |-> [story |-> at[i], index |-> index'[at[i]]]]

(* Mutant: the children are put at the end of the list.                    *)
Extended_Unsorted(entries, stories) == entries \o Rows(stories)

(* applyChange of story_added and story_split.                             *)
Extended(entries, stories) == SortedByIndex(entries \o Rows(stories))

(* applyChange of story_edited: the entry is exchanged where it stands.    *)
Exchanged(entries, st) ==
    [i \in DOMAIN entries |->
        IF entries[i].story = st THEN [story |-> st, index |-> index[st]]
        ELSE entries[i]]

(* The browsers that hear of a change have new lists.                      *)
ToJoined(new) ==
    list' = [b \in Browser |-> IF b \in joined THEN new[b] ELSE list[b]]

(* They hear the indices of these stories, if their lists have them.       *)
Hear(stories) ==
    told' = [b \in Browser |-> [st \in Story |->
                IF b \in joined /\ st \in stories \cap StoriesOf(list'[b])
                THEN moves' ELSE told[b][st]]]

(* buildSnapshot: the active story and the latest of the finished ones;    *)
(* which those are does not matter here.                                   *)
Snapshots ==
    LET finished == {st \in Story : state[st] \in {"revealed", "committed"}}
        size == Cardinality(finished)
    IN  {{st \in Story : state[st] = "active"} \cup kept :
            kept \in {k \in SUBSET finished :
                        Cardinality(k) = IF size < HistoryLimit THEN size ELSE HistoryLimit}}

-----------------------------------------------------------------------------
Join(b) ==
    /\ b \notin joined
    /\ UNCHANGED serverVars
    /\ joined' = joined \cup {b}
    /\ \E stories \in Snapshots :
          /\ list' = [list EXCEPT ![b] = Rows(stories)]
          /\ told' = [told EXCEPT ![b] =
                         [st \in Story |-> IF st \in stories THEN moves ELSE 0]]
    /\ UNCHANGED <<moves, unsorted>>

(* The list stays on the screen until the next snapshot replaces it, but   *)
(* it hears nothing.                                                       *)
Drop(b) ==
    /\ b \in joined
    /\ joined' = joined \ {b}
    /\ list' = [list EXCEPT ![b] = <<>>]
    /\ told' = [told EXCEPT ![b] = [st \in Story |-> 0]]
    /\ unsorted' = [unsorted EXCEPT ![b] = {}]
    /\ UNCHANGED <<serverVars, moves>>

Add(st) ==
    /\ AddStory(st)
    /\ ToJoined([b \in Browser |-> Extended(list[b], {st})])
    /\ UNCHANGED <<joined, moves>>
    /\ Hear({st})
    /\ unsorted' = [b \in Browser |-> {}]

Edit(st) ==
    /\ state[st] # "absent"
    /\ ToJoined([b \in Browser |-> Exchanged(list[b], st)])
    /\ UNCHANGED <<serverVars, joined, moves>>
    /\ Hear({st})
    /\ unsorted' = [b \in Browser |->
            IF list'[b] = list[b] THEN unsorted[b] ELSE unsorted[b] \cup {st}]

Split(parent, rank, n) ==
    /\ SplitStory(parent, rank, n)
    /\ ToJoined([b \in Browser |-> Extended(list[b], DOMAIN rank)])
    /\ moves' = IF \E st \in Present : index'[st] # index[st] THEN moves + 1 ELSE moves
    /\ Hear(DOMAIN rank)
    /\ unsorted' = [b \in Browser |-> {}]
    /\ UNCHANGED joined

Open(st) == OpenVoting(st) /\ UNCHANGED clientVars
Reveal(st) == RevealVotes(st) /\ UNCHANGED clientVars
Commit(st) == CommitStory(st) /\ UNCHANGED clientVars
Skip(st) == SkipStory(st) /\ UNCHANGED clientVars

Next ==
    \/ \E b \in Browser : Join(b) \/ Drop(b)
    \/ \E st \in Story : \/ Add(st) \/ Edit(st) \/ Open(st)
                         \/ Reveal(st) \/ Commit(st) \/ Skip(st)
    \/ \E parent \in Story, n \in MinChildren..MaxChildren :
          \E kids \in SUBSET (Story \ Present) :
              \E rank \in Ranked(kids, n) : Split(parent, rank, n)

Spec == Init /\ [][Next]_vars

-----------------------------------------------------------------------------
(* The browser's copy of the story's index is the one the server has.      *)
IsCurrent(entry) == entry.index = index[entry.story]

(* Two stories stand in a browser's list as they do on the server, although *)
(* splits have moved stories without a word to it: if it heard of both     *)
(* since the same move, however many came after; or if both its copies are *)
(* current, as that of a story that moved is again after an edit.  Only    *)
(* where the edit itself put another index into the list must the next     *)
(* change that sorts it be awaited (reducer.ts, story_added, story_edited  *)
(* and story_split).                                                       *)
ListsInOrder ==
    \A b \in joined : \A i, j \in DOMAIN list[b] :
        LET x == list[b][i]
            y == list[b][j]
        IN  /\ i < j /\ {x.story, y.story} \cap unsorted[b] = {}
            /\ \/ told[b][x.story] = told[b][y.story]
               \/ IsCurrent(x) /\ IsCurrent(y)
            => index[x.story] < index[y.story]

(* All of a list stands as on the server: reducer.ts sorts "so children    *)
(* appear in the parent's slot".                                           *)
SameOrder ==
    \A b \in joined : \A i, j \in DOMAIN list[b] :
        i < j => index[list[b][i].story] < index[list[b][j].story]

(* The server's order is a queue: a new story comes last, children come    *)
(* right behind their parent, nothing else changes places (addStory and    *)
(* splitStory of operations.ts).                                           *)
ImplementsQueue == Queue!Spec
=============================================================================
