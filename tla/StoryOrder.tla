------------------------------- MODULE StoryOrder -------------------------------
(***************************************************************************)
(* The order of a room's stories on the server.  Every story has a sparse  *)
(* order_index; a split looks for room between the parent and the story    *)
(* behind it, and moves the tail when there is not enough (operations.ts). *)
(***************************************************************************)
EXTENDS Integers

CONSTANTS
    Story,
    Gap,            \* the distance left between two stories (100)
    MinChildren,    \* SPLIT_MIN_CHILDREN
    MaxChildren     \* SPLIT_MAX_CHILDREN

ASSUME GapAssumption == Gap \in Nat \ {0}
ASSUME ChildrenAssumption == MinChildren \in Nat \ {0} /\ MaxChildren \in Nat

VARIABLES
    state,    \* story.state; "closed" stands for skipped and for split
    index     \* story.order_index

serverVars == <<state, index>>

Queue == INSTANCE StoryQueue WITH
    queued <- {st \in Story : state[st] # "absent"},
    before <- {pair \in Story \X Story :
                  /\ state[pair[1]] # "absent" /\ state[pair[2]] # "absent"
                  /\ index[pair[1]] < index[pair[2]]}

States == {"absent", "pending", "active", "revealed", "committed", "closed"}
Present == {st \in Story : state[st] # "absent"}
Splittable == {"pending", "active", "revealed"}
Later(st) == {x \in Present : index[x] > index[st]}

InitOrder ==
    /\ state = [st \in Story |-> "absent"]
    /\ index = [st \in Story |-> 0]

-----------------------------------------------------------------------------
(* MAX(order_index) + 100, or 100 in an empty queue; finished stories keep *)
(* their place.                                                            *)
AddStory(st) ==
    /\ state[st] = "absent"
    /\ \E top \in {0} \cup {index[x] : x \in Present} :
          /\ \A x \in Present : index[x] <= top
          /\ index' = [index EXCEPT ![st] = top + Gap]
    /\ state' = [state EXCEPT ![st] = "pending"]

(* The states a story goes through move nothing.                           *)
Progress(st, from, to) ==
    /\ state[st] \in from
    /\ state' = [state EXCEPT ![st] = to]
    /\ UNCHANGED index

OpenVoting(st) ==
    /\ \A x \in Story : state[x] # "active"
    /\ Progress(st, {"pending", "revealed"}, "active")
RevealVotes(st) == Progress(st, {"active"}, "revealed")
CommitStory(st) == Progress(st, {"revealed"}, "committed")
SkipStory(st) == Progress(st, {"pending", "active", "revealed"}, "closed")

(* The parent is the last story: the children follow at full distance.     *)
PlacedLast(parent, rank) ==
    /\ Later(parent) = {}
    /\ index' = [st \in Story |->
                    IF st \in DOMAIN rank THEN index[parent] + rank[st] * Gap
                    ELSE index[st]]

(* Mutant: n children are put where only n - 1 fit.                        *)
PlacedBetween_TooTight(parent, rank, n) ==
    \E next \in Later(parent) :
        /\ \A x \in Later(parent) : index[next] <= index[x]
        /\ LET found == index[next] - index[parent]
               room == IF found < n THEN Gap * (n + 1) ELSE found
           IN  index' = [st \in Story |->
                  IF st \in DOMAIN rank
                  THEN index[parent] + (room \div (n + 1)) * rank[st]
                  ELSE IF state[st] # "absent" /\ index[st] >= index[next]
                  THEN index[st] + (room - found)
                  ELSE index[st]]

(* The children share the room in front of the next story; the tail moves  *)
(* when n of them do not fit into it.                                      *)
PlacedBetween(parent, rank, n) ==
    \E next \in Later(parent) :
        /\ \A x \in Later(parent) : index[next] <= index[x]
        /\ LET found == index[next] - index[parent]
               room == IF found < n + 1 THEN Gap * (n + 1) ELSE found
               step == room \div (n + 1)
           IN  index' = [st \in Story |->
                  IF st \in DOMAIN rank THEN index[parent] + step * rank[st]
                  ELSE IF state[st] # "absent" /\ index[st] >= index[next]
                  THEN index[st] + (room - found)
                  ELSE index[st]]

(* rank gives each of the n children its place among them.                 *)
SplitStory(parent, rank, n) ==
    /\ state[parent] \in Splittable
    /\ PlacedLast(parent, rank) \/ PlacedBetween(parent, rank, n)
    /\ state' = [st \in Story |-> IF st = parent THEN "closed"
                                  ELSE IF st \in DOMAIN rank THEN "pending"
                                  ELSE state[st]]

Ranked(kids, n) ==
    {rank \in [kids -> 1..n] :
        /\ \A a, b \in kids : rank[a] = rank[b] => a = b
        /\ \A i \in 1..n : \E a \in kids : rank[a] = i}

-----------------------------------------------------------------------------
(* What the order rests on: every story of the room has a place of its     *)
(* own.                                                                    *)
OrderOK ==
    /\ state \in [Story -> States]
    /\ index \in [Story -> Nat]
    /\ \A a, b \in Present : index[a] = index[b] => a = b
=============================================================================
