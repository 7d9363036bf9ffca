--------------------------- MODULE StoryOrderProofs ---------------------------
(***************************************************************************)
(* Proofs that the sparse indices implement the queue of StoryQueue, and   *)
(* that the lists of the browsers stand in its order, for any stories,     *)
(* browsers, distance between stories and numbers of children.             *)
(***************************************************************************)
EXTENDS StoryLists, FiniteSetTheorems, TLAPS

-----------------------------------------------------------------------------
(* Arithmetic.                                                             *)

(* A distance shared out in m parts that fit into it.                      *)
LEMMA Shares ==
    ASSUME NEW room \in Nat, NEW m \in Nat, m > 0, room >= m
    PROVE  /\ room \div m \in Nat /\ room \div m >= 1
           /\ m * (room \div m) <= room
  BY SMT

(* Every multiple but the last of a share lies inside the distance.        *)
LEMMA ShareInside ==
    ASSUME NEW step \in Nat, NEW m \in Nat, NEW room \in Nat, NEW i \in 1..(m - 1),
           step >= 1, m * step <= room
    PROVE  step * i \in Nat /\ 0 < step * i /\ step * i < room
  BY SMT

LEMMA SharesOrdered ==
    ASSUME NEW step \in Nat, step >= 1, NEW i \in Nat, NEW j \in Nat
    PROVE  step * i < step * j <=> i < j
  BY SMT

(* Gap * m is room enough for m shares.                                    *)
LEMMA GapIsWide ==
    ASSUME NEW m \in Nat, m > 0
    PROVE  Gap * m \in Nat /\ Gap * m >= m
  BY GapAssumption, SMT

-----------------------------------------------------------------------------
(* What a split does to the indices, in either case: the stories keep      *)
(* their order, the children stand between the parent and what was behind  *)
(* it, in the order of their ranks.                                        *)
Placed(parent, rank) ==
    /\ index' \in [Story -> Nat]
    /\ \A a, b \in Present : index'[a] < index'[b] <=> index[a] < index[b]
    /\ \A a \in Present, c \in DOMAIN rank :
          IF index[a] <= index[parent] THEN index'[a] < index'[c]
          ELSE index'[c] < index'[a]
    /\ \A c, d \in DOMAIN rank : index'[c] < index'[d] <=> rank[c] < rank[d]

LEMMA PlacedAtTheEnd ==
    ASSUME OrderOK, NEW parent \in Present, NEW n \in Nat \ {0},
           NEW kids \in SUBSET (Story \ Present), NEW rank \in [kids -> 1..n],
           PlacedLast(parent, rank)
    PROVE  Placed(parent, rank)
<1>1. /\ index \in [Story -> Nat] /\ parent \in Story
      /\ DOMAIN rank = kids /\ kids \in SUBSET Story
  BY DEF OrderOK, Present
<1>2. \A a \in Present : a \in Story /\ a \notin kids /\ index[a] <= index[parent]
  BY <1>1 DEF PlacedLast, Later, Present
<1>3. \A c \in kids : /\ index'[c] = index[parent] + rank[c] * Gap
                      /\ rank[c] \in Nat /\ rank[c] > 0
  BY <1>1 DEF PlacedLast
<1>4. \A a \in Story \ kids : index'[a] = index[a]
  BY <1>1 DEF PlacedLast
<1>5. \A c \in kids : rank[c] * Gap \in Nat /\ rank[c] * Gap > 0
  BY <1>3, GapAssumption, SMT
<1>6. index' \in [Story -> Nat]
  <2>1. \A st \in Story : index'[st] \in Nat
    BY <1>1, <1>3, <1>4, <1>5
  <2>2. index' = [st \in Story |-> index'[st]]
    BY DEF PlacedLast
  <2> QED  BY <2>1, <2>2
<1>7. \A a, b \in Present : index'[a] < index'[b] <=> index[a] < index[b]
  BY <1>2, <1>4
<1>8. \A a \in Present, c \in kids : index'[a] < index'[c]
  BY <1>1, <1>2, <1>3, <1>4, <1>5
<1>9. \A c, d \in kids : index'[c] < index'[d] <=> rank[c] < rank[d]
  <2> SUFFICES ASSUME NEW c \in kids, NEW d \in kids
               PROVE  index'[c] < index'[d] <=> rank[c] < rank[d]
    OBVIOUS
  <2>1. Gap * rank[c] < Gap * rank[d] <=> rank[c] < rank[d]
    BY <1>3, GapAssumption, SharesOrdered
  <2>2. rank[c] * Gap = Gap * rank[c] /\ rank[d] * Gap = Gap * rank[d]
    BY <1>3, GapAssumption
  <2> QED  BY <1>1, <1>3, <1>5, <2>1, <2>2
<1> QED  BY <1>1, <1>2, <1>6, <1>7, <1>8, <1>9 DEF Placed

LEMMA PlacedInTheMiddle ==
    ASSUME OrderOK, NEW parent \in Present, NEW n \in Nat \ {0},
           NEW kids \in SUBSET (Story \ Present), NEW rank \in [kids -> 1..n],
           PlacedBetween(parent, rank, n)
    PROVE  Placed(parent, rank)
<1>1. /\ index \in [Story -> Nat] /\ parent \in Story
      /\ DOMAIN rank = kids /\ kids \in SUBSET Story
  BY DEF OrderOK, Present
<1> DEFINE found(next) == index[next] - index[parent]
           room(next) == IF found(next) < n + 1 THEN Gap * (n + 1) ELSE found(next)
           step(next) == room(next) \div (n + 1)
<1>2. PICK next \in Later(parent) :
         /\ \A x \in Later(parent) : index[next] <= index[x]
         /\ index' = [st \in Story |->
                  IF st \in DOMAIN rank THEN index[parent] + step(next) * rank[st]
                  ELSE IF state[st] # "absent" /\ index[st] >= index[next]
                  THEN index[st] + (room(next) - found(next))
                  ELSE index[st]]
  BY DEF PlacedBetween
<1> DEFINE f == found(next)
           r == room(next)
           s == step(next)
<1>3. next \in Story /\ next \in Present /\ f \in Nat /\ f > 0
  BY <1>1, <1>2 DEF Later, Present
<1>4. r \in Nat /\ r >= n + 1 /\ r >= f
  <2>1. Gap * (n + 1) \in Nat /\ Gap * (n + 1) >= n + 1
    BY GapIsWide
  <2> QED  BY <1>3, <2>1
<1>5. s \in Nat /\ s >= 1 /\ (n + 1) * s <= r
  <2>1. s = r \div (n + 1)
    OBVIOUS
  <2> HIDE DEF r, s
  <2> QED  BY <1>4, <2>1, Shares
<1>6. \A c \in kids : rank[c] \in 1..n
  BY <1>1
<1>7. \A c \in kids : s * rank[c] \in Nat /\ 0 < s * rank[c] /\ s * rank[c] < r
  <2> HIDE DEF r, s
  <2> TAKE c \in kids
  <2>1. rank[c] \in 1..((n + 1) - 1)
    BY <1>6
  <2> QED  BY <1>4, <1>5, <2>1, ShareInside
<1>8. \A c \in kids : index'[c] = index[parent] + s * rank[c]
  BY <1>1, <1>2
<1>9. \A a \in Present : /\ a \in Story
                         /\ index[a] <= index[parent] \/ index[next] <= index[a]
                         /\ index[a] <= index[parent] => index'[a] = index[a]
                         /\ index[next] <= index[a] => index'[a] = index[a] + (r - f)
  <2> SUFFICES ASSUME NEW a \in Present
               PROVE  /\ a \in Story
                      /\ index[a] <= index[parent] \/ index[next] <= index[a]
                      /\ index[a] <= index[parent] => index'[a] = index[a]
                      /\ index[next] <= index[a] => index'[a] = index[a] + (r - f)
    OBVIOUS
  <2>1. a \in Story /\ a \notin kids /\ state[a] # "absent"
    BY DEF Present
  <2>2. index[a] <= index[parent] \/ index[next] <= index[a]
    BY <1>1, <1>2, <2>1 DEF Later
  <2>3. index'[a] = IF index[a] >= index[next] THEN index[a] + (r - f) ELSE index[a]
    BY <1>1, <1>2, <2>1
  <2>4. index[parent] < index[next]
    BY <1>1, <1>2, <1>3 DEF Later
  <2> HIDE DEF r, f
  <2> QED  BY <1>1, <1>3, <2>1, <2>2, <2>3, <2>4
<1>10. \A a \in Story : a \notin kids /\ a \notin Present => index'[a] = index[a]
  BY <1>1, <1>2 DEF Present
<1>11. index[next] = index[parent] + f
  BY <1>1, <1>3
<1> HIDE DEF r, f, s
<1>12. index' \in [Story -> Nat]
  <2>1. \A st \in Story : index'[st] \in Nat
    BY <1>1, <1>3, <1>4, <1>7, <1>8, <1>9, <1>10
  <2>2. index' = [st \in Story |-> index'[st]]
    BY <1>2
  <2> QED  BY <2>1, <2>2
<1>13. \A a, b \in Present : index'[a] < index'[b] <=> index[a] < index[b]
  BY <1>1, <1>3, <1>4, <1>9, <1>11
<1>14. \A a \in Present, c \in kids :
          IF index[a] <= index[parent] THEN index'[a] < index'[c]
          ELSE index'[c] < index'[a]
  BY <1>1, <1>3, <1>4, <1>7, <1>8, <1>9, <1>11
<1>15. \A c, d \in kids : index'[c] < index'[d] <=> rank[c] < rank[d]
  <2> SUFFICES ASSUME NEW c \in kids, NEW d \in kids
               PROVE  index'[c] < index'[d] <=> rank[c] < rank[d]
    OBVIOUS
  <2>1. s * rank[c] < s * rank[d] <=> rank[c] < rank[d]
    BY <1>5, <1>6, SharesOrdered
  <2> QED  BY <1>1, <1>7, <1>8, <2>1
<1> QED  BY <1>1, <1>12, <1>13, <1>14, <1>15 DEF Placed

-----------------------------------------------------------------------------
(* The steps.                                                              *)

LEMMA InitIsEmpty == Init => OrderOK /\ Queue!Init
<1> SUFFICES ASSUME Init PROVE OrderOK /\ Queue!Init
  OBVIOUS
<1>1. OrderOK
  BY DEF Init, InitOrder, OrderOK, States, Present
<1>2. Queue!Init
  BY DEF Init, InitOrder, Queue!Init
<1> QED  BY <1>1, <1>2

(* A step that leaves the stories and their indices in place.              *)
LEMMA QuietStep ==
    ASSUME OrderOK, state' \in [Story -> States], index' = index, Present' = Present
    PROVE  OrderOK' /\ UNCHANGED Queue!vars
<1>1. OrderOK'
  BY DEF OrderOK
<1>2. \A st \in Story : state'[st] # "absent" <=> state[st] # "absent"
  BY DEF Present
<1>3. UNCHANGED Queue!vars
  BY <1>2 DEF Queue!vars
<1> QED  BY <1>1, <1>3

LEMMA AddIsLast ==
    ASSUME OrderOK, NEW st \in Story, AddStory(st)
    PROVE  OrderOK' /\ Queue!AddLast(st)
<1>1. /\ index \in [Story -> Nat] /\ state \in [Story -> States]
      /\ state[st] = "absent" /\ state' = [state EXCEPT ![st] = "pending"]
  BY DEF OrderOK, AddStory
<1>2. PICK top \in {0} \cup {index[x] : x \in Present} :
          /\ \A x \in Present : index[x] <= top
          /\ index' = [index EXCEPT ![st] = top + Gap]
  BY DEF AddStory
<1>3. top \in Nat
  BY <1>1, <1>2 DEF Present
<1>4. /\ Present' = Present \cup {st} /\ st \notin Present
      /\ \A x \in Present : x \in Story /\ index'[x] = index[x]
      /\ \A x \in Present : index[x] \in Nat /\ index[x] < index'[st]
      /\ index'[st] \in Nat
  BY <1>1, <1>2, <1>3, GapAssumption DEF Present
<1>5. OrderOK'
  <2>1. state' \in [Story -> States] /\ index' \in [Story -> Nat]
    BY <1>1, <1>2, <1>3, GapAssumption DEF States
  <2>2. \A a, b \in Present' : index'[a] = index'[b] => a = b
    BY <1>4 DEF OrderOK
  <2> QED  BY <2>1, <2>2 DEF OrderOK
<1>6. Queue!AddLast(st)
  <2>1. \A a, b \in Story :
           (state'[a] # "absent" /\ state'[b] # "absent" /\ index'[a] < index'[b])
             <=> \/ state[a] # "absent" /\ state[b] # "absent" /\ index[a] < index[b]
                 \/ a \in Present /\ b = st
    BY <1>1, <1>4 DEF Present
  <2> QED  BY <1>1, <1>4, <2>1 DEF Queue!AddLast, Present
<1> QED  BY <1>5, <1>6

LEMMA SplitIsSplice ==
    ASSUME OrderOK, NEW parent \in Story, NEW n \in MinChildren..MaxChildren,
           NEW kids \in SUBSET (Story \ Present), NEW rank \in Ranked(kids, n),
           SplitStory(parent, rank, n)
    PROVE  OrderOK' /\ Queue!Next
<1>1. /\ n \in Nat \ {0} /\ rank \in [kids -> 1..n] /\ DOMAIN rank = kids
      /\ \A a, b \in kids : rank[a] = rank[b] => a = b
  BY ChildrenAssumption DEF Ranked
<1>2. parent \in Present /\ state \in [Story -> States] /\ index \in [Story -> Nat]
  BY DEF SplitStory, Splittable, Present, OrderOK
<1>3. Placed(parent, rank)
  BY <1>1, <1>2, PlacedAtTheEnd, PlacedInTheMiddle DEF SplitStory
<1>4. /\ Present' = Present \cup kids /\ kids \in SUBSET Story
      /\ state' \in [Story -> States] /\ Present \in SUBSET Story
  BY <1>1, <1>2 DEF SplitStory, Present, States
<1>5. OrderOK'
  <2>1. \A a, b \in Present' : index'[a] = index'[b] => a = b
    <3> SUFFICES ASSUME NEW a \in Present', NEW b \in Present', index'[a] = index'[b]
                 PROVE  a = b
      OBVIOUS
    <3>1. index'[a] \in Nat /\ index'[b] \in Nat
      BY <1>3, <1>4 DEF Placed
    <3>2. CASE a \in Present /\ b \in Present
      <4>1. ~ (index[a] < index[b]) /\ ~ (index[b] < index[a])
        BY <1>3, <3>1, <3>2 DEF Placed
      <4>2. index[a] \in Nat /\ index[b] \in Nat
        BY <1>2, <1>4, <3>2
      <4> QED  BY <3>2, <4>1, <4>2 DEF OrderOK
    <3>3. CASE a \in Present /\ b \in kids
      BY <1>1, <1>3, <3>1, <3>3 DEF Placed
    <3>4. CASE a \in kids /\ b \in Present
      BY <1>1, <1>3, <3>1, <3>4 DEF Placed
    <3>5. CASE a \in kids /\ b \in kids
      <4>1. ~ (rank[a] < rank[b]) /\ ~ (rank[b] < rank[a])
        BY <1>1, <1>3, <3>1, <3>5 DEF Placed
      <4>2. rank[a] \in 1..n /\ rank[b] \in 1..n
        BY <1>1, <3>5
      <4> QED  BY <1>1, <3>5, <4>1, <4>2
    <3> QED  BY <1>4, <3>2, <3>3, <3>4, <3>5
  <2> QED  BY <1>3, <1>4, <2>1 DEF OrderOK, Placed
<1>6. Queue!Splice(parent, rank)
  <2> DEFINE Old == {pair \in Story \X Story :
                       /\ state[pair[1]] # "absent" /\ state[pair[2]] # "absent"
                       /\ index[pair[1]] < index[pair[2]]}
             New == {pair \in Story \X Story :
                       /\ state'[pair[1]] # "absent" /\ state'[pair[2]] # "absent"
                       /\ index'[pair[1]] < index'[pair[2]]}
             Ahd == {x \in Present : <<x, parent>> \in Old}
             Bhd == {x \in Present : <<parent, x>> \in Old}
             Sib == {pair \in kids \X kids : rank[pair[1]] < rank[pair[2]]}
  <2>1. \A a, b : <<a, b>> \in Old <=> a \in Present /\ b \in Present /\ index[a] < index[b]
    BY DEF Present
  <2>2. \A a, b : <<a, b>> \in New <=> a \in Present' /\ b \in Present' /\ index'[a] < index'[b]
    BY DEF Present
  <2>3. \A a, b : <<a, b>> \in Sib <=> a \in kids /\ b \in kids /\ rank[a] < rank[b]
    OBVIOUS
  <2>4. /\ \A x : x \in Ahd <=> x \in Present /\ index[x] < index[parent]
        /\ \A x : x \in Bhd <=> x \in Present /\ index[parent] < index[x]
    BY <1>2, <2>1
  <2>5. /\ \A pair \in Old \cup New \cup Sib : pair = <<pair[1], pair[2]>>
        /\ \A pair \in (Ahd \cup {parent}) \X kids : pair = <<pair[1], pair[2]>>
        /\ \A pair \in kids \X Bhd : pair = <<pair[1], pair[2]>>
    OBVIOUS
  <2>6. \A a \in Present : \/ a = parent \/ index[a] < index[parent]
                           \/ index[parent] < index[a]
    <3>1. \A a \in Present : index[a] \in Nat
      BY <1>2, <1>4
    <3> QED  BY <1>2, <3>1 DEF OrderOK
  <2>7. \A a \in Present, c \in kids :
           /\ index'[a] < index'[c] <=> a \in Ahd \cup {parent}
           /\ index'[c] < index'[a] <=> a \in Bhd
    <3> SUFFICES ASSUME NEW a \in Present, NEW c \in kids
                 PROVE  /\ index'[a] < index'[c] <=> a \in Ahd \cup {parent}
                        /\ index'[c] < index'[a] <=> a \in Bhd
      OBVIOUS
    <3>1. /\ index'[a] \in Nat /\ index'[c] \in Nat
          /\ index[a] \in Nat /\ index[parent] \in Nat
      BY <1>2, <1>3, <1>4 DEF Placed
    <3>2. IF index[a] <= index[parent] THEN index'[a] < index'[c]
          ELSE index'[c] < index'[a]
      BY <1>1, <1>3 DEF Placed
    <3>3. a = parent \/ index[a] < index[parent] \/ index[parent] < index[a]
      BY <2>6
    <3> HIDE DEF Ahd, Bhd
    <3> QED  BY <2>4, <3>1, <3>2, <3>3
  <2>8. \A a, b : <<a, b>> \in New <=>
           <<a, b>> \in Old \cup ((Ahd \cup {parent}) \X kids) \cup (kids \X Bhd) \cup Sib
    <3> SUFFICES ASSUME NEW a, NEW b
                 PROVE  <<a, b>> \in New <=>
           <<a, b>> \in Old \cup ((Ahd \cup {parent}) \X kids) \cup (kids \X Bhd) \cup Sib
      OBVIOUS
    <3>1. /\ <<a, b>> \in (Ahd \cup {parent}) \X kids <=> a \in Ahd \cup {parent} /\ b \in kids
          /\ <<a, b>> \in kids \X Bhd <=> a \in kids /\ b \in Bhd
      OBVIOUS
    <3>2. kids \cap Present = {} /\ Ahd \cup {parent} \subseteq Present /\ Bhd \subseteq Present
      BY <1>2
    <3> HIDE DEF Old, New, Ahd, Bhd, Sib
    <3>3. CASE a \in Present /\ b \in Present
      <4>1. index'[a] < index'[b] <=> index[a] < index[b]
        BY <1>3, <3>3 DEF Placed
      <4> QED  BY <1>4, <2>1, <2>2, <2>3, <3>1, <3>2, <3>3, <4>1
    <3>4. CASE a \in Present /\ b \in kids
      BY <1>4, <2>1, <2>2, <2>3, <2>7, <3>1, <3>2, <3>4
    <3>5. CASE a \in kids /\ b \in Present
      BY <1>4, <2>1, <2>2, <2>3, <2>7, <3>1, <3>2, <3>5
    <3>6. CASE a \in kids /\ b \in kids
      <4>1. index'[a] < index'[b] <=> rank[a] < rank[b]
        BY <1>1, <1>3, <3>6 DEF Placed
      <4> QED  BY <1>4, <2>1, <2>2, <2>3, <3>1, <3>2, <3>6, <4>1
    <3>7. CASE ~ (a \in Present' /\ b \in Present')
      BY <1>2, <1>4, <2>1, <2>2, <2>3, <3>1, <3>2, <3>7
    <3> QED  BY <1>4, <3>3, <3>4, <3>5, <3>6, <3>7
  <2>9. New = Old \cup ((Ahd \cup {parent}) \X kids) \cup (kids \X Bhd) \cup Sib
    <3> HIDE DEF Old, New, Ahd, Bhd, Sib
    <3>1. \A pair \in New : pair \in Old \cup ((Ahd \cup {parent}) \X kids) \cup (kids \X Bhd) \cup Sib
      BY <2>5, <2>8
    <3>2. \A pair \in Old \cup ((Ahd \cup {parent}) \X kids) \cup (kids \X Bhd) \cup Sib : pair \in New
      BY <2>5, <2>8
    <3> QED  BY <3>1, <3>2
  <2> QED  BY <1>1, <1>2, <1>4, <2>9
           DEF Queue!Splice, Queue!Ahead, Queue!Behind, Present
<1>7. rank \in Queue!Families(Story \ Present)
  BY <1>1 DEF Queue!Families, Ranked
<1>8. Queue!Next
  BY <1>2, <1>6, <1>7 DEF Queue!Next, Present
<1> QED  BY <1>5, <1>8

-----------------------------------------------------------------------------
(* The sparse indices of the server implement the queue, whatever the      *)
(* distance between stories and the number of children: every story keeps  *)
(* a place of its own, and no shift of the tail changes an order.          *)
THEOREM OrderImplementsQueue == Spec => ImplementsQueue
<1>1. Init => OrderOK /\ Queue!Init
  BY InitIsEmpty
<1>2. OrderOK /\ [Next]_vars => OrderOK' /\ [Queue!Next]_(Queue!vars)
  <2> SUFFICES ASSUME OrderOK, [Next]_vars
               PROVE  OrderOK' /\ [Queue!Next]_(Queue!vars)
    OBVIOUS
  <2>1. CASE UNCHANGED serverVars
    <3>1. state' \in [Story -> States] /\ index' = index /\ Present' = Present
      BY <2>1 DEF OrderOK, serverVars, Present
    <3> QED  BY <3>1, QuietStep
  <2>2. ASSUME NEW st \in Story, Open(st) \/ Reveal(st) \/ Commit(st) \/ Skip(st)
        PROVE  OrderOK' /\ [Queue!Next]_(Queue!vars)
    <3>1. state' \in [Story -> States] /\ index' = index /\ Present' = Present
      BY <2>2 DEF Open, Reveal, Commit, Skip, OpenVoting, RevealVotes, CommitStory,
                  SkipStory, Progress, OrderOK, States, Present
    <3> QED  BY <3>1, QuietStep
  <2>3. ASSUME NEW st \in Story, Add(st)
        PROVE  OrderOK' /\ [Queue!Next]_(Queue!vars)
    BY <2>3, AddIsLast DEF Add, Queue!Next
  <2>4. ASSUME NEW parent \in Story, NEW n \in MinChildren..MaxChildren,
               NEW kids \in SUBSET (Story \ Present), NEW rank \in Ranked(kids, n),
               Split(parent, rank, n)
        PROVE  OrderOK' /\ [Queue!Next]_(Queue!vars)
    BY <2>4, SplitIsSplice DEF Split
  <2> QED  BY <2>1, <2>2, <2>3, <2>4 DEF Next, Join, Drop, Edit, vars
<1> QED  BY <1>1, <1>2, PTL DEF Spec, ImplementsQueue, Queue!Spec

-----------------------------------------------------------------------------
(* Sorting.                                                                *)

(* A relation that is a strict total order of a set.                       *)
Orders(R, S) ==
    /\ \A x \in S : <<x, x>> \notin R
    /\ \A x, y \in S : x # y => <<x, y>> \in R \/ <<y, x>> \in R
    /\ \A x, y, z \in S : <<x, y>> \in R /\ <<y, z>> \in R => <<x, z>> \in R

(* A finite set put in a row is all there, each element once, in order:    *)
(* as no two have the same number of elements before them, every place is  *)
(* taken.                                                                  *)
LEMMA InRowSorts ==
    ASSUME NEW S, IsFiniteSet(S), NEW R, Orders(R, S)
    PROVE  /\ Cardinality(S) \in Nat
           /\ InRow(S, R) \in [1..Cardinality(S) -> S]
           /\ \A i, j \in 1..Cardinality(S) :
                 i < j => <<InRow(S, R)[i], InRow(S, R)[j]>> \in R
<1> DEFINE n == Cardinality(S)
           Before(x) == {y \in S : <<y, x>> \in R}
           place == [x \in S |-> Cardinality(Before(x)) + 1]
           at == InRow(S, R)
<1>1. n \in Nat
  BY FS_CardinalityType
<1>2. ASSUME NEW x \in S
      PROVE  /\ IsFiniteSet(Before(x)) /\ Cardinality(Before(x)) \in Nat
             /\ Cardinality(Before(x)) < n
  <2>1. IsFiniteSet(Before(x)) /\ Cardinality(Before(x)) \in Nat
    <3>1. Before(x) \in SUBSET S
      OBVIOUS
    <3> HIDE DEF Before
    <3> QED  BY <3>1, FS_Subset, FS_CardinalityType
  <2>2. IsFiniteSet(S \ {x}) /\ Cardinality(S \ {x}) = n - 1
    BY FS_RemoveElement
  <2>3. Before(x) \in SUBSET (S \ {x})
    BY DEF Orders
  <2>4. Cardinality(Before(x)) <= Cardinality(S \ {x})
    <3> HIDE DEF Before
    <3> QED  BY <2>2, <2>3, FS_Subset
  <2> HIDE DEF Before, n
  <2> QED  BY <1>1, <2>1, <2>2, <2>4
<1>3. ASSUME NEW x \in S, NEW y \in S, <<x, y>> \in R
      PROVE  Cardinality(Before(x)) < Cardinality(Before(y))
  <2>1. Before(x) \cup {x} \in SUBSET Before(y)
    BY <1>3 DEF Orders
  <2>2. x \notin Before(x)
    BY DEF Orders
  <2>3. /\ IsFiniteSet(Before(x)) /\ Cardinality(Before(x)) \in Nat
        /\ IsFiniteSet(Before(y)) /\ Cardinality(Before(y)) \in Nat
    BY <1>2
  <2> HIDE DEF Before
  <2>4. Cardinality(Before(x) \cup {x}) = Cardinality(Before(x)) + 1
    BY <2>2, <2>3, FS_AddElement
  <2>5. Cardinality(Before(x) \cup {x}) <= Cardinality(Before(y))
    BY <2>1, <2>3, FS_Subset
  <2> QED  BY <2>3, <2>4, <2>5
<1>4. ASSUME NEW i \in 1..n
      PROVE  \E x \in S : Cardinality(Before(x)) = i - 1
  <2>1. place \in [S -> 1..n]
    <3>1. \A x \in S : Cardinality(Before(x)) + 1 \in 1..n
      <4> HIDE DEF Before, n
      <4> QED  BY <1>1, <1>2
    <3> QED  BY <3>1
  <2>2. \A x, y \in S : place[x] = place[y] => x = y
    <3> SUFFICES ASSUME NEW x \in S, NEW y \in S, place[x] = place[y], x # y
                 PROVE  FALSE
      OBVIOUS
    <3>1. <<x, y>> \in R \/ <<y, x>> \in R
      BY DEF Orders
    <3>2. Cardinality(Before(x)) + 1 = Cardinality(Before(y)) + 1
      OBVIOUS
    <3>3. Cardinality(Before(x)) \in Nat /\ Cardinality(Before(y)) \in Nat
      BY <1>2
    <3> HIDE DEF Before, place
    <3> QED  BY <1>3, <3>1, <3>2, <3>3
  <2>3. IsFiniteSet(1..n) /\ Cardinality(1..n) = n
    <3> HIDE DEF n
    <3> QED  BY <1>1, FS_Interval
  <2>4. place \in Injection(S, 1..n)
    BY <2>1, <2>2 DEF Injection, IsInjective
  <2>5. place \in Surjection(S, 1..n)
    <3> HIDE DEF place
    <3> QED  BY <2>3, <2>4, FS_Injection
  <2>6. PICK x \in S : place[x] = i
    <3> HIDE DEF place, n
    <3> QED  BY <1>4, <2>5 DEF Surjection
  <2>7. Cardinality(Before(x)) + 1 = i /\ Cardinality(Before(x)) \in Nat
    BY <1>2, <2>6
  <2> HIDE DEF Before
  <2> QED  BY <2>7
<1>5. ASSUME NEW i \in 1..n
      PROVE  at[i] \in S /\ Cardinality(Before(at[i])) = i - 1
  BY <1>4 DEF InRow
<1>6. at \in [1..n -> S]
  <2>1. at = [i \in 1..n |-> CHOOSE x \in S : Cardinality(Before(x)) = i - 1]
    BY DEF InRow
  <2> HIDE DEF at, n, Before
  <2> QED  BY <1>5, <2>1
<1>7. ASSUME NEW i \in 1..n, NEW j \in 1..n, i < j
      PROVE  <<at[i], at[j]>> \in R
  <2>1. /\ at[i] \in S /\ Cardinality(Before(at[i])) = i - 1
        /\ at[j] \in S /\ Cardinality(Before(at[j])) = j - 1
    BY <1>5
  <2>2. at[i] # at[j]
    <3> HIDE DEF at, Before, n
    <3> QED  BY <1>7, <2>1
  <2>3. CASE <<at[j], at[i]>> \in R
    <3>1. Cardinality(Before(at[j])) < Cardinality(Before(at[i]))
      BY <1>3, <2>1, <2>3
    <3> HIDE DEF at, Before, n
    <3> QED  BY <1>7, <2>1, <3>1
  <2> QED  BY <2>1, <2>2, <2>3 DEF Orders
<1> QED  BY <1>1, <1>6, <1>7

-----------------------------------------------------------------------------
(* Lists.                                                                  *)

Entry == [story : Story, index : Int]

(* A list of stories of a set, each once.                                  *)
Lists(entries, stories) ==
    /\ entries \in Seq(Entry)
    /\ \A i \in DOMAIN entries : entries[i].story \in stories
    /\ \A i, j \in DOMAIN entries : entries[i].story = entries[j].story => i = j

(* What was heard since the last move is so.                               *)
Fresh(entries, place, heard, last) ==
    \A i \in DOMAIN entries :
        /\ heard[entries[i].story] <= last
        /\ heard[entries[i].story] = last => entries[i].index = place[entries[i].story]

(* What was heard since one move, if long ago, is in the order it is in.   *)
Alike(entries, place, heard) ==
    \A i, j \in DOMAIN entries :
        heard[entries[i].story] = heard[entries[j].story] =>
            (entries[i].index < entries[j].index
                <=> place[entries[i].story] < place[entries[j].story])

(* The copies ascend.                                                      *)
Ascends(entries, out) ==
    \A i, j \in DOMAIN entries :
        (i < j /\ entries[i].story \notin out /\ entries[j].story \notin out)
            => entries[i].index <= entries[j].index

(* Each story of a set has a place of its own.                             *)
Places(place, stories) ==
    /\ place \in [Story -> Nat] /\ stories \in SUBSET Story
    /\ \A a, b \in stories : place[a] = place[b] => a = b

Listed(entries, place, stories, heard, last, out) ==
    /\ Lists(entries, stories)
    /\ Fresh(entries, place, heard, last)
    /\ Alike(entries, place, heard)
    /\ Ascends(entries, out)

ListsInv ==
    /\ OrderOK /\ IsFiniteSet(Present)
    /\ joined \in SUBSET Browser
    /\ list \in [Browser -> Seq(Entry)]
    /\ moves \in Nat
    /\ told \in [Browser -> [Story -> Nat]]
    /\ unsorted \in [Browser -> SUBSET Story]
    /\ \A b \in Browser \ joined : unsorted[b] = {}
    /\ \A b \in joined : Listed(list[b], index, Present, told[b], moves, unsorted[b])

(* The rows of a message are the stories it is of, in their order, with    *)
(* their indices.                                                          *)
LEMMA RowsAreListed ==
    ASSUME NEW stories, IsFiniteSet(stories), Places(index', stories)
    PROVE  /\ Lists(Rows(stories), stories) /\ Ascends(Rows(stories), {})
           /\ \A i \in DOMAIN Rows(stories) :
                 Rows(stories)[i].index = index'[Rows(stories)[i].story]
<1> DEFINE R == {p \in stories \X stories : index'[p[1]] < index'[p[2]]}
           at == InRow(stories, R)
           n == Cardinality(stories)
<1>1. \A a \in stories : a \in Story /\ index'[a] \in Nat
  BY DEF Places
<1>2. \A a, b \in stories : <<a, b>> \in R <=> index'[a] < index'[b]
  OBVIOUS
<1>3. Orders(R, stories)
  <2> HIDE DEF R
  <2> QED  BY <1>1, <1>2 DEF Orders, Places
<1>4. /\ n \in Nat /\ at \in [1..n -> stories]
      /\ \A i, j \in 1..n : i < j => <<at[i], at[j]>> \in R
  <2> HIDE DEF R
  <2> QED  BY <1>3, InRowSorts
<1> DEFINE rows == Rows(stories)
<1>5. rows = [i \in 1..n |-> [story |-> at[i], index |-> index'[at[i]]]]
  BY DEF Rows
<1> HIDE DEF R, at, n, rows
<1>6. rows \in Seq(Entry) /\ DOMAIN rows = 1..n
  <2>1. \A i \in 1..n : [story |-> at[i], index |-> index'[at[i]]] \in Entry
    BY <1>1, <1>4 DEF Entry
  <2> QED  BY <1>4, <1>5, <2>1
<1>7. \A i \in 1..n : /\ rows[i].story = at[i] /\ at[i] \in stories
                      /\ rows[i].index = index'[at[i]]
  BY <1>4, <1>5
<1>8. \A i, j \in 1..n : i < j => index'[at[i]] < index'[at[j]]
  BY <1>2, <1>4
<1>9. \A i, j \in 1..n : at[i] = at[j] => i = j
  <2> SUFFICES ASSUME NEW i \in 1..n, NEW j \in 1..n, at[i] = at[j], i # j
               PROVE  FALSE
    OBVIOUS
  <2>1. i < j \/ j < i
    BY <1>4
  <2>2. index'[at[i]] \in Nat /\ index'[at[j]] = index'[at[i]]
    BY <1>1, <1>7
  <2> QED  BY <1>8, <2>1, <2>2
<1>10. Lists(rows, stories)
  BY <1>6, <1>7, <1>9 DEF Lists
<1>11. Ascends(rows, {})
  <2> SUFFICES ASSUME NEW i \in 1..n, NEW j \in 1..n, i < j
               PROVE  rows[i].index <= rows[j].index
    BY <1>6 DEF Ascends
  <2>1. index'[at[i]] \in Nat /\ index'[at[j]] \in Nat /\ index'[at[i]] < index'[at[j]]
    BY <1>1, <1>7, <1>8
  <2> QED  BY <1>7, <2>1
<1> QED  BY <1>6, <1>7, <1>10, <1>11 DEF rows

(* Sorting leaves the entries as they are, and their copies ascending.     *)
LEMMA SortedIsListed ==
    ASSUME NEW entries, NEW stories, Lists(entries, stories)
    PROVE  /\ Lists(SortedByIndex(entries), stories)
           /\ Ascends(SortedByIndex(entries), {})
           /\ \A i \in DOMAIN SortedByIndex(entries) :
                 \E k \in DOMAIN entries : SortedByIndex(entries)[i] = entries[k]
<1> DEFINE places == DOMAIN entries
           R == {p \in places \X places :
                  \/ entries[p[1]].index < entries[p[2]].index
                  \/ entries[p[1]].index = entries[p[2]].index /\ p[1] < p[2]}
           at == InRow(places, R)
           n == Len(entries)
<1>1. /\ n \in Nat /\ places = 1..n
      /\ \A i \in 1..n : entries[i] \in Entry
  BY DEF Lists
<1>2. \A i \in 1..n : /\ entries[i].index \in Int /\ entries[i].story \in stories
  BY <1>1 DEF Lists, Entry
<1>3. \A i, j \in 1..n : <<i, j>> \in R <=>
         \/ entries[i].index < entries[j].index
         \/ entries[i].index = entries[j].index /\ i < j
  BY <1>1
<1>4. Orders(R, 1..n)
  <2> HIDE DEF R, n
  <2>1. \A i \in 1..n : <<i, i>> \notin R
    BY <1>1, <1>2, <1>3
  <2>2. \A i, j \in 1..n : i # j => <<i, j>> \in R \/ <<j, i>> \in R
    BY <1>1, <1>2, <1>3
  <2>3. ASSUME NEW i \in 1..n, NEW j \in 1..n, NEW k \in 1..n,
               <<i, j>> \in R, <<j, k>> \in R
        PROVE  <<i, k>> \in R
    <3>1. /\ entries[i].index \in Int /\ entries[j].index \in Int
          /\ entries[k].index \in Int /\ n \in Nat
      BY <1>1, <1>2
    <3> QED  BY <1>3, <2>3, <3>1
  <2> QED  BY <2>1, <2>2, <2>3 DEF Orders
<1>5. IsFiniteSet(places) /\ Cardinality(places) = n
  <2> HIDE DEF places, n
  <2> QED  BY <1>1, FS_Interval
<1>6. /\ at \in [1..n -> 1..n]
      /\ \A i, j \in 1..n : i < j => <<at[i], at[j]>> \in R
  <2> HIDE DEF R, n, places
  <2> QED  BY <1>1, <1>4, <1>5, InRowSorts
<1> DEFINE sorted == SortedByIndex(entries)
<1>7. sorted = [i \in 1..n |-> entries[at[i]]]
  <2>1. sorted = [i \in places |-> entries[at[i]]]
    BY DEF SortedByIndex
  <2> HIDE DEF sorted, at, n, places
  <2> QED  BY <1>1, <2>1
<1> HIDE DEF sorted, at, n, places, R
<1>8. sorted \in Seq(Entry) /\ DOMAIN sorted = 1..n
  <2>1. \A i \in 1..n : entries[at[i]] \in Entry
    BY <1>1, <1>6
  <2> QED  BY <1>1, <1>7, <2>1
<1>9. \A i \in 1..n : sorted[i] = entries[at[i]] /\ at[i] \in 1..n
  BY <1>6, <1>7
<1>10. \A i, j \in 1..n : at[i] = at[j] => i = j
  <2> SUFFICES ASSUME NEW i \in 1..n, NEW j \in 1..n, at[i] = at[j], i # j
               PROVE  FALSE
    OBVIOUS
  <2>1. i < j \/ j < i
    BY <1>1
  <2>2. <<at[i], at[i]>> \in R
    BY <1>6, <2>1
  <2> QED  BY <1>4, <1>9, <2>2 DEF Orders
<1>11. Lists(sorted, stories)
  <2>1. \A i \in 1..n : sorted[i].story \in stories
    BY <1>2, <1>9
  <2>2. \A i, j \in 1..n : sorted[i].story = sorted[j].story => i = j
    <3>1. \A i, j \in 1..n : entries[i].story = entries[j].story => i = j
      BY <1>1 DEF Lists, places
    <3> QED  BY <1>9, <1>10, <3>1
  <2> QED  BY <1>8, <2>1, <2>2 DEF Lists
<1>12. Ascends(sorted, {})
  <2> SUFFICES ASSUME NEW i \in 1..n, NEW j \in 1..n, i < j
               PROVE  sorted[i].index <= sorted[j].index
    BY <1>8 DEF Ascends
  <2>1. /\ at[i] \in 1..n /\ at[j] \in 1..n /\ <<at[i], at[j]>> \in R
        /\ sorted[i] = entries[at[i]] /\ sorted[j] = entries[at[j]]
    BY <1>6, <1>9
  <2>2. entries[at[i]].index \in Int /\ entries[at[j]].index \in Int
    BY <1>2, <2>1
  <2>3. entries[at[i]].index <= entries[at[j]].index
    BY <1>3, <2>1, <2>2
  <2> QED  BY <2>1, <2>3
<1>13. \A i \in DOMAIN sorted : \E k \in DOMAIN entries : sorted[i] = entries[k]
  BY <1>1, <1>8, <1>9 DEF places
<1> QED  BY <1>11, <1>12, <1>13 DEF sorted

(* New stories join a list: the old entries and the new, in order.         *)
LEMMA ExtendedIsSorted ==
    ASSUME NEW entries, NEW kids, NEW was, Lists(entries, was),
           IsFiniteSet(kids), kids \cap was = {}, Places(index', was \cup kids)
    PROVE  /\ Lists(Extended(entries, kids), was \cup kids)
           /\ Ascends(Extended(entries, kids), {})
           /\ \A i \in DOMAIN Extended(entries, kids) :
                 LET e == Extended(entries, kids)[i]
                 IN  \/ \E k \in DOMAIN entries : e = entries[k]
                     \/ e.story \in kids /\ e.index = index'[e.story]
<1> DEFINE rows == Rows(kids)
           all == entries \o rows
           m == Len(entries)
           n == Len(rows)
<1>1. Lists(rows, kids) /\ \A i \in DOMAIN rows : rows[i].index = index'[rows[i].story]
  <2>1. Places(index', kids)
    BY DEF Places
  <2> QED  BY <2>1, RowsAreListed
<1> HIDE DEF rows
<1>2. /\ m \in Nat /\ n \in Nat /\ entries \in Seq(Entry) /\ rows \in Seq(Entry)
      /\ DOMAIN entries = 1..m /\ DOMAIN rows = 1..n
  BY <1>1 DEF Lists
<1>3. all \in Seq(Entry) /\ DOMAIN all = 1..(m + n)
  BY <1>2
<1>4. \A i \in 1..(m + n) : all[i] = IF i <= m THEN entries[i] ELSE rows[i - m]
  BY <1>2
<1> HIDE DEF all, m, n
<1>5. ASSUME NEW i \in 1..(m + n)
      PROVE  \/ i <= m /\ i \in 1..m /\ all[i] = entries[i]
             \/ i > m /\ i - m \in 1..n /\ all[i] = rows[i - m]
  BY <1>2, <1>4
<1>6. ASSUME NEW i \in 1..(m + n)
      PROVE  /\ all[i].story \in was \cup kids
             /\ i <= m <=> all[i].story \in was
             /\ \/ \E k \in DOMAIN entries : all[i] = entries[k]
                \/ all[i].story \in kids /\ all[i].index = index'[all[i].story]
  <2>1. CASE i <= m /\ i \in 1..m /\ all[i] = entries[i]
    <3>1. entries[i].story \in was
      BY <1>2, <2>1 DEF Lists
    <3> QED  BY <1>2, <2>1, <3>1
  <2>2. CASE i > m /\ i - m \in 1..n /\ all[i] = rows[i - m]
    <3>1. rows[i - m].story \in kids /\ rows[i - m].index = index'[rows[i - m].story]
      BY <1>1, <1>2, <2>2 DEF Lists
    <3> QED  BY <1>2, <2>2, <3>1
  <2> QED  BY <1>5, <2>1, <2>2
<1>7. ASSUME NEW i \in 1..(m + n), NEW j \in 1..(m + n), all[i].story = all[j].story
      PROVE  i = j
  <2>1. i <= m <=> j <= m
    BY <1>6, <1>7
  <2>2. CASE i <= m
    <3>1. i \in 1..m /\ j \in 1..m /\ entries[i].story = entries[j].story
      BY <1>2, <1>5, <1>7, <2>1, <2>2
    <3> QED  BY <1>2, <3>1 DEF Lists
  <2>3. CASE ~(i <= m)
    <3>1. i - m \in 1..n /\ j - m \in 1..n /\ rows[i - m].story = rows[j - m].story
      BY <1>2, <1>5, <1>7, <2>1, <2>3
    <3>2. i - m = j - m
      BY <1>1, <1>2, <3>1 DEF Lists
    <3> QED  BY <1>2, <3>2
  <2> QED  BY <2>2, <2>3
<1>8. Lists(all, was \cup kids)
  BY <1>3, <1>6, <1>7 DEF Lists
<1>9. Extended(entries, kids) = SortedByIndex(all)
  BY DEF Extended, all, rows
<1>10. \A i \in DOMAIN Extended(entries, kids) :
         \E k \in 1..(m + n) : Extended(entries, kids)[i] = all[k]
  <2>1. \A i \in DOMAIN SortedByIndex(all) : \E k \in DOMAIN all : SortedByIndex(all)[i] = all[k]
    BY <1>8, SortedIsListed
  <2> QED  BY <1>3, <1>9, <2>1
<1> QED  BY <1>6, <1>8, <1>9, <1>10, SortedIsListed

(* They were heard just now, the others when they were.  What moved keeps  *)
(* its order, and if nothing moved the places are as before.               *)
LEMMA ExtendedIsListed ==
    ASSUME NEW entries, NEW kids, NEW was, NEW old, NEW heard, NEW now,
           NEW last \in Nat, NEW next \in Nat, last <= next,
           Lists(entries, was), Fresh(entries, old, heard, last),
           Alike(entries, old, heard),
           heard \in [Story -> Nat],
           next = last => \A a \in was : index'[a] = old[a],
           \A a, b \in was : index'[a] < index'[b] <=> old[a] < old[b],
           IsFiniteSet(kids), kids \cap was = {}, Places(index', was \cup kids),
           \A i \in DOMAIN Extended(entries, kids) :
               LET st == Extended(entries, kids)[i].story
               IN  now[st] = IF st \in kids THEN next ELSE heard[st]
    PROVE  Listed(Extended(entries, kids), index', was \cup kids, now, next, {})
<1> DEFINE new == Extended(entries, kids)
<1>1. /\ Lists(new, was \cup kids) /\ Ascends(new, {})
      /\ \A i \in DOMAIN new : \/ \E k \in DOMAIN entries : new[i] = entries[k]
                               \/ new[i].story \in kids /\ new[i].index = index'[new[i].story]
  BY ExtendedIsSorted
<1>2. \A i \in DOMAIN new :
         now[new[i].story] = IF new[i].story \in kids THEN next ELSE heard[new[i].story]
  OBVIOUS
<1> HIDE DEF new
<1>3. ASSUME NEW i \in DOMAIN new, new[i].story \notin kids
      PROVE  \E k \in DOMAIN entries :
                /\ new[i] = entries[k] /\ new[i].story \in was /\ new[i].story \in Story
                /\ now[new[i].story] = heard[new[i].story]
  BY <1>1, <1>2, <1>3 DEF Lists, Places
<1>4. ASSUME NEW i \in DOMAIN new
      PROVE  /\ now[new[i].story] <= next
             /\ now[new[i].story] = next => new[i].index = index'[new[i].story]
  <2>1. CASE new[i].story \in kids
    <3>1. ~ \E k \in DOMAIN entries : new[i] = entries[k]
      BY <2>1 DEF Lists
    <3> QED  BY <1>1, <1>2, <2>1, <3>1
  <2>2. CASE new[i].story \notin kids
    <3>1. PICK k \in DOMAIN entries :
             /\ new[i] = entries[k] /\ new[i].story \in was /\ new[i].story \in Story
             /\ now[new[i].story] = heard[new[i].story]
      BY <1>3, <2>2
    <3>2. /\ heard[new[i].story] \in Nat /\ heard[new[i].story] <= last
          /\ heard[new[i].story] = last => new[i].index = old[new[i].story]
      BY <3>1 DEF Fresh
    <3>3. next = last => index'[new[i].story] = old[new[i].story]
      BY <3>1
    <3> QED  BY <3>1, <3>2, <3>3
  <2> QED  BY <2>1, <2>2
<1>5. Fresh(new, index', now, next)
  BY <1>4 DEF Fresh
<1>6. ASSUME NEW i \in DOMAIN new, NEW j \in DOMAIN new,
             now[new[i].story] = now[new[j].story]
      PROVE  new[i].index < new[j].index <=> index'[new[i].story] < index'[new[j].story]
  <2>1. CASE now[new[i].story] = next
    BY <1>4, <1>6, <2>1
  <2>2. CASE now[new[i].story] # next
    <3>1. new[i].story \notin kids /\ new[j].story \notin kids
      BY <1>2, <1>6, <2>2
    <3>2. PICK k \in DOMAIN entries :
             /\ new[i] = entries[k] /\ new[i].story \in was
             /\ now[new[i].story] = heard[new[i].story]
      BY <1>3, <3>1
    <3>3. PICK l \in DOMAIN entries :
             /\ new[j] = entries[l] /\ new[j].story \in was
             /\ now[new[j].story] = heard[new[j].story]
      BY <1>3, <3>1
    <3>4. new[i].index < new[j].index <=> old[new[i].story] < old[new[j].story]
      BY <1>6, <3>2, <3>3 DEF Alike
    <3> QED  BY <3>2, <3>3, <3>4
  <2> QED  BY <2>1, <2>2
<1>7. Alike(new, index', now)
  BY <1>6 DEF Alike
<1> QED  BY <1>1, <1>5, <1>7 DEF Listed, new

(* An entry that is exchanged is the same story, with its true place.      *)
LEMMA ExchangedIsListed ==
    ASSUME NEW entries, NEW st \in Story, NEW heard, NEW now, NEW last, NEW out, NEW out2,
           OrderOK, last \in Nat,
           Listed(entries, index, Present, heard, last, out),
           \A i \in DOMAIN entries :
               now[entries[i].story] = IF entries[i].story = st THEN last
                                       ELSE heard[entries[i].story],
           out2 = IF Exchanged(entries, st) = entries THEN out ELSE out \cup {st}
    PROVE  Listed(Exchanged(entries, st), index, Present, now, last, out2)
<1> DEFINE new == Exchanged(entries, st)
           n == Len(entries)
<1>1. entries \in Seq(Entry) /\ n \in Nat /\ DOMAIN entries = 1..n
  BY DEF Listed, Lists
<1>2. new = [i \in 1..n |-> IF entries[i].story = st
                             THEN [story |-> st, index |-> index[st]] ELSE entries[i]]
  BY <1>1 DEF Exchanged
<1> HIDE DEF new, n
<1>3. new \in Seq(Entry) /\ DOMAIN new = 1..n
  <2>1. index[st] \in Int
    BY DEF OrderOK
  <2>2. \A i \in 1..n : entries[i] \in Entry
    BY <1>1
  <2>3. \A i \in 1..n : new[i] \in Entry
    BY <1>2, <2>1, <2>2 DEF Entry
  <2> QED  BY <1>1, <1>2, <2>3
<1>4. \A i \in 1..n : /\ new[i].story = entries[i].story
                      /\ new[i].index = IF entries[i].story = st THEN index[st]
                                        ELSE entries[i].index
  BY <1>2
<1>5. Lists(new, Present)
  BY <1>1, <1>3, <1>4 DEF Listed, Lists
<1>6. ASSUME NEW i \in 1..n
      PROVE  /\ now[new[i].story] <= last
             /\ now[new[i].story] = last => new[i].index = index[new[i].story]
             /\ now[new[i].story] # last =>
                   /\ new[i].story # st /\ new[i].index = entries[i].index
                   /\ now[new[i].story] = heard[entries[i].story]
  <2>1. /\ heard[entries[i].story] <= last
        /\ heard[entries[i].story] = last => entries[i].index = index[entries[i].story]
    BY <1>1 DEF Listed, Fresh
  <2> QED  BY <1>1, <1>4, <2>1
<1>7. Fresh(new, index, now, last)
  BY <1>3, <1>6 DEF Fresh
<1>8. ASSUME NEW i \in 1..n, NEW j \in 1..n, now[new[i].story] = now[new[j].story]
      PROVE  new[i].index < new[j].index <=> index[new[i].story] < index[new[j].story]
  <2>1. CASE now[new[i].story] = last
    BY <1>6, <1>8, <2>1
  <2>2. CASE now[new[i].story] # last
    <3>1. /\ new[i].index = entries[i].index /\ new[j].index = entries[j].index
          /\ heard[entries[i].story] = heard[entries[j].story]
      BY <1>6, <1>8, <2>2
    <3> QED  BY <1>1, <1>4, <3>1 DEF Listed, Alike
  <2> QED  BY <2>1, <2>2
<1>9. Alike(new, index, now)
  BY <1>3, <1>8 DEF Alike
<1>10. Ascends(new, out2)
  <2>1. CASE new = entries
    BY <2>1 DEF Listed, new
  <2>2. CASE new # entries
    <3>1. out2 = out \cup {st}
      BY <2>2 DEF new
    <3> QED  BY <1>1, <1>3, <1>4, <3>1 DEF Listed, Ascends
  <2> QED  BY <2>1, <2>2
<1> QED  BY <1>5, <1>7, <1>9, <1>10 DEF Listed, new

(* There are finitely many children of a split.                            *)
LEMMA KidsAreFinite ==
    ASSUME NEW n \in Nat, NEW kids, NEW rank \in Ranked(kids, n)
    PROVE  IsFiniteSet(kids)
<1>1. rank \in Injection(kids, 1..n)
  BY DEF Ranked, Injection, IsInjective
<1>2. IsFiniteSet(1..n)
  BY FS_Interval
<1> QED  BY <1>1, <1>2, FS_Injection

(* The places of the server are places.                                    *)
LEMMA ServerPlaces == OrderOK => Places(index, Present)
BY DEF OrderOK, Places, Present

(* Nobody has joined to begin with.                                        *)
LEMMA ListsInvInit == Init => ListsInv
<1> SUFFICES ASSUME Init PROVE ListsInv
  OBVIOUS
<1>1. OrderOK
  BY InitIsEmpty
<1>2. Present = {} /\ IsFiniteSet(Present)
  <2>1. Present = {}
    BY DEF Init, InitOrder, Present
  <2> QED  BY <2>1, FS_EmptySet
<1>3. list \in [Browser -> Seq(Entry)]
  <2>1. <<>> \in Seq(Entry)
    OBVIOUS
  <2> QED  BY <2>1 DEF Init
<1> QED  BY <1>1, <1>2, <1>3 DEF Init, ListsInv

(* A browser joins: its list is a message's rows.                          *)
LEMMA JoinListed ==
    ASSUME ListsInv, NEW b \in Browser, Join(b)
    PROVE  ListsInv'
<1>1. /\ b \notin joined /\ UNCHANGED <<state, index>> /\ joined' = joined \cup {b}
      /\ moves' = moves /\ unsorted' = unsorted
  BY DEF Join, serverVars
<1>2. PICK stories \in Snapshots :
         /\ list' = [list EXCEPT ![b] = Rows(stories)]
         /\ told' = [told EXCEPT ![b] = [st \in Story |-> IF st \in stories THEN moves ELSE 0]]
  BY DEF Join
<1>3. OrderOK' /\ Present' = Present
  BY <1>1 DEF ListsInv, OrderOK, Present
<1>4. stories \in SUBSET Present
  BY <1>2 DEF Snapshots, Present
<1>5. IsFiniteSet(stories) /\ Places(index', stories)
  <2>1. Places(index, Present)
    BY ServerPlaces DEF ListsInv
  <2> QED  BY <1>1, <1>4, <2>1, FS_Subset DEF ListsInv, Places
<1> DEFINE rows == Rows(stories)
<1>6. /\ Lists(rows, stories) /\ Ascends(rows, {})
      /\ \A i \in DOMAIN rows : rows[i].index = index'[rows[i].story]
  BY <1>5, RowsAreListed
<1> HIDE DEF rows
<1>7. list'[b] = rows /\ rows \in Seq(Entry) /\ unsorted'[b] = {}
      /\ told'[b] = [st \in Story |-> IF st \in stories THEN moves ELSE 0]
  BY <1>1, <1>2, <1>6 DEF Lists, ListsInv, rows
<1>8. \A i \in DOMAIN rows : told'[b][rows[i].story] = moves
  BY <1>4, <1>6, <1>7 DEF Lists, Present
<1>9. Listed(rows, index', Present', told'[b], moves', unsorted'[b])
  <2>1. Lists(rows, Present')
    BY <1>3, <1>4, <1>6 DEF Lists
  <2>2. Fresh(rows, index', told'[b], moves')
    BY <1>1, <1>6, <1>8 DEF Fresh, ListsInv
  <2>3. Alike(rows, index', told'[b])
    BY <1>6 DEF Alike
  <2> QED  BY <1>6, <1>7, <2>1, <2>2, <2>3 DEF Listed
<1>10. \A c \in joined : Listed(list[c], index', Present', told[c], moves', unsorted'[c])
  BY <1>1, <1>3 DEF ListsInv
<1>11. list' \in [Browser -> Seq(Entry)] /\ told' \in [Browser -> [Story -> Nat]]
  <2>1. [st \in Story |-> IF st \in stories THEN moves ELSE 0] \in [Story -> Nat]
    BY DEF ListsInv
  <2> QED  BY <1>2, <1>7, <2>1 DEF ListsInv, rows
<1>12. ASSUME NEW c \in joined'
       PROVE  Listed(list'[c], index', Present', told'[c], moves', unsorted'[c])
  <2>1. CASE c = b
    BY <1>7, <1>9, <2>1
  <2>2. CASE c # b
    <3>1. list'[c] = list[c] /\ told'[c] = told[c] /\ c \in joined
      BY <1>1, <1>2, <2>2 DEF ListsInv
    <3> QED  BY <1>10, <3>1
  <2> QED  BY <2>1, <2>2
<1> QED  BY <1>1, <1>3, <1>11, <1>12 DEF ListsInv

(* A browser that hears nothing any more.                                  *)
LEMMA DropListed ==
    ASSUME ListsInv, NEW b \in Browser, Drop(b)
    PROVE  ListsInv'
<1>1. /\ UNCHANGED <<state, index>> /\ joined' = joined \ {b} /\ moves' = moves
      /\ list' = [list EXCEPT ![b] = <<>>] /\ unsorted' = [unsorted EXCEPT ![b] = {}]
      /\ told' = [told EXCEPT ![b] = [st \in Story |-> 0]]
  BY DEF Drop, serverVars
<1>2. OrderOK' /\ Present' = Present
  BY <1>1 DEF ListsInv, OrderOK, Present
<1>3. /\ list' \in [Browser -> Seq(Entry)] /\ unsorted' \in [Browser -> SUBSET Story]
      /\ told' \in [Browser -> [Story -> Nat]]
  <2>1. <<>> \in Seq(Entry) /\ [st \in Story |-> 0] \in [Story -> Nat]
    OBVIOUS
  <2> QED  BY <1>1, <2>1 DEF ListsInv
<1>4. \A c \in joined' : /\ list'[c] = list[c] /\ unsorted'[c] = unsorted[c]
                         /\ told'[c] = told[c] /\ c \in joined
  BY <1>1 DEF ListsInv
<1>5. \A c \in Browser \ joined' : unsorted'[c] = {}
  BY <1>1 DEF ListsInv
<1> QED  BY <1>1, <1>2, <1>3, <1>4, <1>5 DEF ListsInv

(* Whatever becomes of the stories, it is enough that every joined browser *)
(* is left with a list that is right for them, if what it hears is noted.  *)
LEMMA ToldListed ==
    ASSUME ListsInv, OrderOK', IsFiniteSet(Present)',
           joined' = joined, moves' \in Nat, unsorted' \in [Browser -> SUBSET Story],
           \A b \in Browser \ joined : unsorted'[b] = {},
           NEW new, ToJoined(new), NEW stories, Hear(stories),
           ASSUME NEW b \in joined,
                  list'[b] = new[b],
                  \A st \in Story : told'[b][st] =
                      IF st \in stories /\ \E i \in DOMAIN new[b] : new[b][i].story = st
                      THEN moves' ELSE told[b][st]
           PROVE  Listed(new[b], index', Present', told'[b], moves', unsorted'[b])
    PROVE  ListsInv'
<1>1. list' = [b \in Browser |-> IF b \in joined THEN new[b] ELSE list[b]]
  BY DEF ToJoined
<1>2. told' = [b \in Browser |-> [st \in Story |->
                  IF b \in joined /\ st \in stories \cap StoriesOf(list'[b])
                  THEN moves' ELSE told[b][st]]]
  BY DEF Hear
<1>3. ASSUME NEW b \in joined
      PROVE  Listed(new[b], index', Present', told'[b], moves', unsorted'[b])
  <2>1. list'[b] = new[b] /\ b \in Browser
    BY <1>1 DEF ListsInv
  <2>2. \A st \in Story : told'[b][st] =
          IF st \in stories \cap StoriesOf(new[b]) THEN moves' ELSE told[b][st]
    BY <1>2, <2>1
  <2> QED  BY <2>1, <2>2 DEF StoriesOf
<1>4. \A b \in joined : new[b] \in Seq(Entry)
  BY <1>3 DEF Listed, Lists
<1>5. /\ list' \in [Browser -> Seq(Entry)] /\ \A b \in joined : list'[b] = new[b]
  BY <1>1, <1>4 DEF ListsInv
<1>6. told' \in [Browser -> [Story -> Nat]]
  BY <1>2 DEF ListsInv
<1> QED  BY <1>3, <1>5, <1>6 DEF ListsInv

(* A new story comes last on the server, and where its index has it in     *)
(* every list.                                                             *)
LEMMA AddListed ==
    ASSUME ListsInv, NEW st \in Story, Add(st)
    PROVE  ListsInv'
<1> DEFINE new == [b \in Browser |-> Extended(list[b], {st})]
<1>1. /\ AddStory(st) /\ joined' = joined /\ moves' = moves /\ Hear({st})
      /\ unsorted' = [b \in Browser |-> {}] /\ ToJoined(new)
  BY DEF Add
<1>2. OrderOK'
  BY <1>1, AddIsLast DEF ListsInv
<1>3. /\ Present' = Present \cup {st} /\ {st} \cap Present = {}
      /\ \A x \in Present : index'[x] = index[x]
  BY <1>1 DEF ListsInv, OrderOK, AddStory, Present
<1>4. IsFiniteSet({st}) /\ IsFiniteSet(Present)'
  BY <1>3, FS_Singleton, FS_AddElement DEF ListsInv
<1>5. Places(index', Present \cup {st})
  BY <1>2, <1>3 DEF OrderOK, Places, Present
<1>6. ASSUME NEW b \in joined,
             \A x \in Story : told'[b][x] =
                 IF x \in {st} /\ \E i \in DOMAIN new[b] : new[b][i].story = x
                 THEN moves' ELSE told[b][x]
      PROVE  Listed(new[b], index', Present', told'[b], moves', unsorted'[b])
  <2>1. /\ b \in Browser /\ Lists(list[b], Present) /\ told[b] \in [Story -> Nat]
        /\ Fresh(list[b], index, told[b], moves) /\ Alike(list[b], index, told[b])
        /\ moves \in Nat
    BY DEF ListsInv, Listed
  <2>2. new[b] = Extended(list[b], {st})
    BY <2>1
  <2>3. \A i \in DOMAIN Extended(list[b], {st}) : Extended(list[b], {st})[i].story \in Story
    <3>1. Lists(Extended(list[b], {st}), Present \cup {st})
      BY <1>3, <1>4, <1>5, <2>1, ExtendedIsSorted
    <3> QED  BY <1>5, <3>1 DEF Lists, Places
  <2>4. \A i \in DOMAIN Extended(list[b], {st}) :
           LET x == Extended(list[b], {st})[i].story
           IN  told'[b][x] = IF x \in {st} THEN moves ELSE told[b][x]
    <3> HIDE DEF new
    <3> QED  BY <1>1, <1>6, <2>2, <2>3
  <2>5. \A x, y \in Present : index'[x] < index'[y] <=> index[x] < index[y]
    BY <1>3
  <2>6. Listed(Extended(list[b], {st}), index', Present \cup {st}, told'[b], moves, {})
    <3>1. moves <= moves
      BY <2>1
    <3> HIDE DEF new
    <3> QED  BY <1>3, <1>4, <1>5, <2>1, <2>4, <2>5, <3>1, ExtendedIsListed
  <2> QED  BY <1>1, <1>3, <2>1, <2>2, <2>6
<1>7. /\ moves' \in Nat /\ unsorted' \in [Browser -> SUBSET Story]
      /\ \A b \in Browser \ joined : unsorted'[b] = {}
  BY <1>1 DEF ListsInv
<1> HIDE DEF new
<1> QED  BY <1>1, <1>2, <1>4, <1>6, <1>7, ToldListed

(* What a split moves keeps its order.                                     *)
LEMMA SplitKeepsOrder ==
    ASSUME OrderOK, NEW parent \in Story, NEW n \in MinChildren..MaxChildren,
           NEW kids \in SUBSET (Story \ Present), NEW rank \in Ranked(kids, n),
           SplitStory(parent, rank, n)
    PROVE  \A a, b \in Present : index'[a] < index'[b] <=> index[a] < index[b]
<1>1. /\ n \in Nat \ {0} /\ rank \in [kids -> 1..n] /\ DOMAIN rank = kids
      /\ \A a, b \in kids : rank[a] = rank[b] => a = b
  BY ChildrenAssumption DEF Ranked
<1>2. parent \in Present /\ state \in [Story -> States] /\ index \in [Story -> Nat]
  BY DEF SplitStory, Splittable, Present, OrderOK
<1>3. Placed(parent, rank)
  BY <1>1, <1>2, PlacedAtTheEnd, PlacedInTheMiddle DEF SplitStory
<1> QED  BY <1>3 DEF Placed

(* The children stand where their indices have them in every list, among   *)
(* the stories that are in order there.                                    *)
LEMMA SplitListed ==
    ASSUME ListsInv, NEW parent \in Story, NEW n \in MinChildren..MaxChildren,
           NEW kids \in SUBSET (Story \ Present), NEW rank \in Ranked(kids, n),
           Split(parent, rank, n)
    PROVE  ListsInv'
<1> DEFINE new == [b \in Browser |-> Extended(list[b], kids)]
<1>0. DOMAIN rank = kids /\ n \in Nat
  BY ChildrenAssumption DEF Ranked
<1>1. /\ SplitStory(parent, rank, n) /\ joined' = joined /\ Hear(kids)
      /\ moves' = IF \E st \in Present : index'[st] # index[st] THEN moves + 1 ELSE moves
      /\ unsorted' = [b \in Browser |-> {}] /\ ToJoined(new)
  BY <1>0 DEF Split
<1>2. OrderOK'
  BY <1>1, SplitIsSplice DEF ListsInv
<1>3. \A a, b \in Present : index'[a] < index'[b] <=> index[a] < index[b]
  BY <1>1, SplitKeepsOrder DEF ListsInv
<1>4. Present' = Present \cup kids /\ kids \cap Present = {}
  BY <1>0, <1>1 DEF SplitStory, Splittable, Present, ListsInv, OrderOK
<1>5. IsFiniteSet(kids) /\ IsFiniteSet(Present)'
  <2>1. IsFiniteSet(kids)
    BY <1>0, KidsAreFinite
  <2> QED  BY <1>4, <2>1, FS_Union DEF ListsInv
<1>6. Places(index', Present \cup kids)
  BY <1>2, <1>4 DEF OrderOK, Places, Present
<1>7. /\ moves \in Nat /\ moves' \in Nat /\ moves <= moves'
      /\ moves' = moves => \A st \in Present : index'[st] = index[st]
  BY <1>1 DEF ListsInv
<1>8. ASSUME NEW b \in joined,
             \A x \in Story : told'[b][x] =
                 IF x \in kids /\ \E i \in DOMAIN new[b] : new[b][i].story = x
                 THEN moves' ELSE told[b][x]
      PROVE  Listed(new[b], index', Present', told'[b], moves', unsorted'[b])
  <2>1. /\ b \in Browser /\ Lists(list[b], Present) /\ told[b] \in [Story -> Nat]
        /\ Fresh(list[b], index, told[b], moves) /\ Alike(list[b], index, told[b])
    BY DEF ListsInv, Listed
  <2>2. new[b] = Extended(list[b], kids)
    BY <2>1
  <2>3. \A i \in DOMAIN Extended(list[b], kids) : Extended(list[b], kids)[i].story \in Story
    <3>1. Lists(Extended(list[b], kids), Present \cup kids)
      BY <1>4, <1>5, <1>6, <2>1, ExtendedIsSorted
    <3> QED  BY <1>6, <3>1 DEF Lists, Places
  <2>4. \A i \in DOMAIN Extended(list[b], kids) :
           LET x == Extended(list[b], kids)[i].story
           IN  told'[b][x] = IF x \in kids THEN moves' ELSE told[b][x]
    <3> HIDE DEF new
    <3> QED  BY <1>8, <2>2, <2>3
  <2>5. Listed(Extended(list[b], kids), index', Present \cup kids, told'[b], moves', {})
    <3> HIDE DEF new
    <3> QED  BY <1>3, <1>4, <1>5, <1>6, <1>7, <2>1, <2>4, ExtendedIsListed
  <2> QED  BY <1>1, <1>4, <2>1, <2>2, <2>5
<1>9. /\ unsorted' \in [Browser -> SUBSET Story]
      /\ \A b \in Browser \ joined : unsorted'[b] = {}
  BY <1>1 DEF ListsInv
<1> HIDE DEF new
<1> QED  BY <1>1, <1>2, <1>5, <1>7, <1>8, <1>9, ToldListed

(* A story that is edited is put right where it stands.                    *)
LEMMA EditListed ==
    ASSUME ListsInv, NEW st \in Story, Edit(st)
    PROVE  ListsInv'
<1> DEFINE new == [b \in Browser |-> Exchanged(list[b], st)]
<1>1. /\ UNCHANGED <<state, index>> /\ joined' = joined /\ moves' = moves
      /\ Hear({st}) /\ ToJoined(new)
      /\ unsorted' = [b \in Browser |->
             IF list'[b] = list[b] THEN unsorted[b] ELSE unsorted[b] \cup {st}]
  BY DEF Edit, serverVars
<1>2. OrderOK' /\ Present' = Present
  BY <1>1 DEF ListsInv, OrderOK, Present
<1>3. ASSUME NEW b \in joined, list'[b] = new[b],
             \A x \in Story : told'[b][x] =
                 IF x \in {st} /\ \E i \in DOMAIN new[b] : new[b][i].story = x
                 THEN moves' ELSE told[b][x]
      PROVE  Listed(new[b], index', Present', told'[b], moves', unsorted'[b])
  <2>1. /\ b \in Browser /\ OrderOK /\ moves \in Nat
        /\ Listed(list[b], index, Present, told[b], moves, unsorted[b])
    BY DEF ListsInv
  <2>2. new[b] = Exchanged(list[b], st)
    BY <2>1
  <2>3. unsorted'[b] = IF Exchanged(list[b], st) = list[b] THEN unsorted[b]
                       ELSE unsorted[b] \cup {st}
    BY <1>1, <1>3, <2>1, <2>2
  <2>4. \A i \in DOMAIN list[b] : /\ i \in DOMAIN Exchanged(list[b], st)
                                  /\ Exchanged(list[b], st)[i].story = list[b][i].story
                                  /\ list[b][i].story \in Story
    BY <2>1 DEF Exchanged, Listed, Lists, Present
  <2>5. \A i \in DOMAIN list[b] :
           told'[b][list[b][i].story] = IF list[b][i].story = st THEN moves
                                        ELSE told[b][list[b][i].story]
    <3> HIDE DEF new
    <3> QED  BY <1>1, <1>3, <2>2, <2>4
  <2>6. Listed(Exchanged(list[b], st), index, Present, told'[b], moves, unsorted'[b])
    <3> HIDE DEF new
    <3> QED  BY <2>1, <2>3, <2>5, ExchangedIsListed
  <2> QED  BY <1>1, <1>2, <2>2, <2>6
<1>4. /\ IsFiniteSet(Present)' /\ moves' \in Nat
      /\ unsorted' \in [Browser -> SUBSET Story]
  BY <1>1, <1>2 DEF ListsInv
<1>5. \A b \in Browser \ joined : unsorted'[b] = {}
  BY <1>1 DEF ListsInv, ToJoined
<1> HIDE DEF new
<1> QED  BY <1>1, <1>2, <1>3, <1>4, <1>5, ToldListed

(* Every step leaves each browser with a list that is right.               *)
LEMMA ListsInvNext == ListsInv /\ [Next]_vars => ListsInv'
<1> SUFFICES ASSUME ListsInv, [Next]_vars PROVE ListsInv'
  OBVIOUS
<1>1. ASSUME state' \in [Story -> States], index' = index, Present' = Present,
             UNCHANGED clientVars
      PROVE  ListsInv'
  <2>1. OrderOK'
    BY <1>1, QuietStep DEF ListsInv
  <2> QED  BY <1>1, <2>1 DEF ListsInv, clientVars, historyVars
<1>2. ASSUME NEW st \in Story, Open(st) \/ Reveal(st) \/ Commit(st) \/ Skip(st)
      PROVE  ListsInv'
  <2>1. /\ state' \in [Story -> States] /\ index' = index /\ Present' = Present
        /\ UNCHANGED clientVars
    BY <1>2 DEF Open, Reveal, Commit, Skip, OpenVoting, RevealVotes, CommitStory,
                SkipStory, Progress, ListsInv, OrderOK, States, Present
  <2> QED  BY <1>1, <2>1
<1>3. CASE UNCHANGED vars
  <2>1. /\ state' \in [Story -> States] /\ index' = index /\ Present' = Present
        /\ UNCHANGED clientVars
    BY <1>3 DEF vars, serverVars, ListsInv, OrderOK, Present
  <2> QED  BY <1>1, <2>1
<1> QED  BY <1>2, <1>3, JoinListed, DropListed, AddListed, SplitListed, EditListed DEF Next

(* In every browser's list, for any stories and browsers and any distance  *)
(* between stories, two stories stand as they do on the server when the    *)
(* browser heard of both since the same move, however many came after, or  *)
(* when both its copies are current; but for a story to which an edit gave *)
(* another index, until the list is sorted (reducer.ts applyChange).       *)
THEOREM ListsAlwaysInOrder == Spec => []ListsInOrder
<1>1. ListsInv => ListsInOrder
  <2> SUFFICES ASSUME ListsInv, NEW b \in joined,
                      NEW i \in DOMAIN list[b], NEW j \in DOMAIN list[b],
                      i < j,
                      list[b][i].story \notin unsorted[b], list[b][j].story \notin unsorted[b],
                      \/ told[b][list[b][i].story] = told[b][list[b][j].story]
                      \/ IsCurrent(list[b][i]) /\ IsCurrent(list[b][j])
               PROVE  index[list[b][i].story] < index[list[b][j].story]
    BY DEF ListsInOrder
  <2>1. Listed(list[b], index, Present, told[b], moves, unsorted[b]) /\ OrderOK
    BY DEF ListsInv
  <2>2. list[b][i].index <= list[b][j].index
    BY <2>1 DEF Listed, Ascends
  <2>3. /\ list[b][i] \in Entry /\ list[b][j] \in Entry
        /\ list[b][i].story \in Present /\ list[b][j].story \in Present
        /\ list[b][i].story # list[b][j].story
    BY <2>1 DEF Listed, Lists
  <2>4. /\ index[list[b][i].story] \in Nat /\ index[list[b][j].story] \in Nat
        /\ index[list[b][i].story] # index[list[b][j].story]
        /\ list[b][i].index \in Int /\ list[b][j].index \in Int
    BY <2>1, <2>3 DEF OrderOK, Present, Entry
  <2>5. CASE told[b][list[b][i].story] = told[b][list[b][j].story]
    <3>1. list[b][j].index < list[b][i].index
            <=> index[list[b][j].story] < index[list[b][i].story]
      BY <2>1, <2>5 DEF Listed, Alike
    <3> QED  BY <2>2, <2>4, <3>1
  <2>6. CASE IsCurrent(list[b][i]) /\ IsCurrent(list[b][j])
    BY <2>2, <2>4, <2>6 DEF IsCurrent
  <2> QED  BY <2>5, <2>6
<1> QED  BY <1>1, ListsInvInit, ListsInvNext, PTL DEF Spec
=============================================================================
