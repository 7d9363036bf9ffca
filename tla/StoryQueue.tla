------------------------------- MODULE StoryQueue -------------------------------
(***************************************************************************)
(* What the queue of a room promises: a total order of its stories in      *)
(* which a new story comes last, the children of a split come right behind *)
(* their parent in the order they were written, and nothing that is        *)
(* already in the queue ever changes places.                               *)
(***************************************************************************)
EXTENDS Naturals

CONSTANTS Story, MinChildren, MaxChildren

VARIABLES
    queued,    \* the stories the room has, finished ones included
    before     \* the pairs <<a, b>> of queued stories with a ahead of b

vars == <<queued, before>>

Init == queued = {} /\ before = {}

AddLast(st) ==
    /\ st \notin queued
    /\ queued' = queued \cup {st}
    /\ before' = before \cup (queued \X {st})

(* The children of one split, each with its place among them.              *)
Families(free) ==
    UNION {UNION {{rank \in [kids -> 1..n] :
                      /\ \A a, b \in kids : rank[a] = rank[b] => a = b
                      /\ \A i \in 1..n : \E a \in kids : rank[a] = i} :
                  kids \in SUBSET free} :
           n \in MinChildren..MaxChildren}

Ahead(st) == {x \in queued : <<x, st>> \in before}
Behind(st) == {x \in queued : <<st, x>> \in before}

Splice(parent, rank) ==
    LET kids == DOMAIN rank
    IN  /\ parent \in queued
        /\ queued' = queued \cup kids
        /\ before' = before
             \cup ((Ahead(parent) \cup {parent}) \X kids)
             \cup (kids \X Behind(parent))
             \cup {pair \in kids \X kids : rank[pair[1]] < rank[pair[2]]}

Next ==
    \/ \E st \in Story : AddLast(st)
    \/ \E parent \in queued, rank \in Families(Story \ queued) : Splice(parent, rank)

Spec == Init /\ [][Next]_vars
=============================================================================
