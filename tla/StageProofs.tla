------------------------------ MODULE StageProofs ------------------------------
(***************************************************************************)
(* For any voters, any queue and any number of rounds: what lies selected  *)
(* in the hand was selected for the story and the round on the page,       *)
(* "everyone's in" is said when it is so, and what is said of the revealed *)
(* cards is true of them.                                                  *)
(***************************************************************************)
EXTENDS Stage, WellFoundedInduction, FiniteSetTheorems, TLAPS

(* The functions of the model are functions on the stories.                *)
OnStories ==
    /\ DOMAIN state = Story /\ DOMAIN votes = Story
    /\ DOMAIN presence = Story /\ DOMAIN mine = Story
    /\ DOMAIN round = Story

(* HandOfThisRound without regard to what the hand holds.                  *)
HandBelongs == CastShown => hand.of = <<Focus, round[Focus]>>

HandInv == OnStories /\ HandBelongs

(* A story nobody has opened has no votes.                                 *)
PendingIsBlank == \A st \in Story : state[st] = "pending" => DOMAIN votes[st] = {}

(* The browser knows of no card that is not down.                          *)
KnownAreDown ==
    Mounted => \A st \in Story :
        /\ presence[st] \subseteq DOMAIN votes[st]
        /\ mine[st] # NoCard => Me \in DOMAIN votes[st]

(* It knows of every card in a round it saw from its start.                *)
DownAreKnown ==
    Mounted => \A st \in Story : st \in saw =>
        /\ DOMAIN votes[st] \subseteq presence[st]
        /\ Me \in DOMAIN votes[st] => mine[st] # NoCard

SeatInv == OnStories /\ PendingIsBlank /\ KnownAreDown /\ DownAreKnown

-----------------------------------------------------------------------------
(* The story in focus is a story of the queue that is active or revealed.  *)
LEMMA FocusIsShown ==
    Focus # NoStory => Focus \in Story /\ Shown(Focus)
<1> SUFFICES ASSUME Focus # NoStory
             PROVE  Focus \in Story /\ Shown(Focus)
    OBVIOUS
<1> DEFINE ShownAt == {i \in DOMAIN Order : Shown(Order[i])}
<1>1. DOMAIN Order \subseteq Nat
    BY StageAssumption
<1>2. ShownAt # {} /\ ShownAt \subseteq Nat
    BY <1>1 DEF Focus
<1>3. \E i \in ShownAt : \A j \in ShownAt : ~(<<j, i>> \in OpToRel(<, Nat))
    BY <1>2, NatLessThanWellFounded, WFMin
<1>4. \E i \in DOMAIN Order :
          Shown(Order[i]) /\ \A j \in DOMAIN Order : j < i => ~Shown(Order[j])
    <2>1. PICK i \in ShownAt : \A j \in ShownAt : ~(<<j, i>> \in OpToRel(<, Nat))
        BY <1>3
    <2>2. ASSUME NEW j \in DOMAIN Order, j < i, Shown(Order[j])
          PROVE  FALSE
        <3>1. j \in ShownAt /\ i \in Nat /\ j \in Nat
            BY <1>1, <1>2, <2>1, <2>2
        <3>2. <<j, i>> \in OpToRel(<, Nat)
            BY <2>2, <3>1 DEF OpToRel
        <3> QED
            BY <2>1, <3>1, <3>2
    <2> QED
        BY <2>1, <2>2
<1>5. \E i \in DOMAIN Order : Focus = Order[i] /\ Shown(Order[i])
    BY <1>4 DEF Focus
<1> QED
    BY <1>5 DEF Story, Range

(* The focus depends on the states of the stories alone.                   *)
LEMMA FocusKept == state' = state => Focus' = Focus
  BY DEF Focus, Shown

(* A step that lets the panels settle and opens no active story again      *)
(* leaves the hand with the story and the round on the page.               *)
LEMMA HandSettles ==
    ASSUME HandInv, Settle,
           \A st \in Story : state[st] = "active" => round'[st] = round[st]
    PROVE  HandBelongs'
<1> SUFFICES ASSUME CastShown'
             PROVE  hand'.of = <<Focus', round'[Focus']>>
    BY DEF HandBelongs
<1>1. CASE CastShown /\ Focus' = Focus
    <2>1. Focus \in Story /\ state[Focus] = "active"
        BY <1>1, FocusIsShown DEF CastShown
    <2> QED
        BY <1>1, <2>1 DEF Settle, SettleHand, HandInv, HandBelongs
<1>2. CASE ~(CastShown /\ Focus' = Focus)
    BY <1>2 DEF Settle, SettleHand, Dealt
<1> QED
    BY <1>1, <1>2

-----------------------------------------------------------------------------
LEMMA DomainsKept == OnStories /\ [Next]_vars => OnStories'
<1> SUFFICES ASSUME OnStories, [Next]_vars
             PROVE  OnStories'
    OBVIOUS
<1> USE DEF OnStories
<1>1. ASSUME NEW st \in Story, OpenVoting(st)
      PROVE  OnStories'
    BY <1>1 DEF OpenVoting, Opened, Becomes, VotingOpened
<1>2. ASSUME NEW st \in Story, RevealVotes(st) \/ CommitStory(st) \/ SkipStory(st)
      PROVE  OnStories'
    BY <1>2 DEF RevealVotes, CommitStory, SkipStory, Progress, Becomes, storeVars
<1>3. CASE OpenAsync
    BY <1>3 DEF OpenAsync, Opened, Becomes, storeVars
<1>4. CASE CloseAsync
    BY <1>4 DEF CloseAsync, Becomes, storeVars
<1>5. ASSUME NEW v, NEW st, NEW card, CastVote(v, st, card)
      PROVE  OnStories'
    BY <1>5 DEF CastVote
<1>6. CASE Submit
    BY <1>5, <1>6 DEF Submit
<1>7. ASSUME NEW card, Select(card) \/ SelectFinal(card)
      PROVE  OnStories'
    BY <1>7 DEF Select, SelectFinal, serverVars, storeVars
<1>8. ASSUME NEW v, Arrive(v) \/ Leave(v)
      PROVE  OnStories'
    BY <1>8 DEF Arrive, Leave, Hydrated, storeVars
<1>9. CASE UNCHANGED vars
    BY <1>9 DEF vars, serverVars, storeVars
<1> QED
    BY <1>1, <1>2, <1>3, <1>4, <1>5, <1>6, <1>7, <1>8, <1>9 DEF Next

LEMMA HandInvInit == Init => HandInv
  BY DEF Init, HandInv, OnStories, HandBelongs, CastShown, Mounted

LEMMA HandInvNext == HandInv /\ [Next]_vars => HandInv'
<1> SUFFICES ASSUME HandInv, [Next]_vars
             PROVE  HandBelongs'
    BY DomainsKept DEF HandInv
<1>1. ASSUME NEW st \in Story, OpenVoting(st)
      PROVE  HandBelongs'
    <2>1. \A x \in Story : state[x] # "active"
        BY <1>1 DEF OpenVoting
    <2> QED
        BY <1>1, <2>1, HandSettles DEF OpenVoting
<1>2. ASSUME NEW st \in Story, RevealVotes(st) \/ CommitStory(st) \/ SkipStory(st)
      PROVE  HandBelongs'
    BY <1>2, HandSettles DEF RevealVotes, CommitStory, SkipStory, Progress
<1>3. CASE OpenAsync
    <2>1. \A x \in Story : state[x] = "active" => round'[x] = round[x]
        BY <1>3 DEF OpenAsync, Opened
    <2> QED
        BY <1>3, <2>1, HandSettles DEF OpenAsync
<1>4. CASE CloseAsync
    BY <1>4, HandSettles DEF CloseAsync
<1>5. ASSUME NEW v, NEW st, NEW card, CastVote(v, st, card)
      PROVE  HandBelongs'
    BY <1>5, HandSettles DEF CastVote
<1>6. CASE Submit
    BY <1>5, <1>6 DEF Submit
<1>7. ASSUME NEW card, Select(card)
      PROVE  HandBelongs'
    <2>1. Focus' = Focus /\ round' = round
        BY <1>7, FocusKept DEF Select, serverVars
    <2> QED
        BY <1>7, <2>1 DEF Select, HandBelongs
<1>8. ASSUME NEW card, SelectFinal(card)
      PROVE  HandBelongs'
    <2>1. Focus' = Focus /\ state' = state /\ here' = here
        BY <1>8, FocusKept DEF SelectFinal, serverVars
    <2> QED
        BY <1>8, <2>1 DEF SelectFinal, HandInv, HandBelongs, CastShown, Mounted
<1>9. ASSUME NEW v, Arrive(v) \/ Leave(v)
      PROVE  HandBelongs'
    BY <1>9, HandSettles DEF Arrive, Leave
<1>10. CASE UNCHANGED vars
    <2>1. Focus' = Focus
        BY <1>10, FocusKept DEF vars, serverVars
    <2> QED
        BY <1>10, <2>1 DEF vars, serverVars, panelVars, HandInv, HandBelongs,
                           CastShown, Mounted
<1> QED
    BY <1>1, <1>2, <1>3, <1>4, <1>5, <1>6, <1>7, <1>8, <1>9, <1>10 DEF Next

(* What lies selected in the hand belongs to the story and the round on    *)
(* the page, for any queue and any number of rounds (CastPanel.tsx).       *)
THEOREM HandAlwaysOfThisRound == Spec => []HandOfThisRound
<1>1. HandInv => HandOfThisRound
    BY DEF HandInv, HandBelongs, HandOfThisRound
<1> QED
    BY HandInvInit, HandInvNext, <1>1, PTL DEF Spec

-----------------------------------------------------------------------------
LEMMA SeatInvInit == Init => SeatInv
  BY DEF Init, SeatInv, OnStories, PendingIsBlank, KnownAreDown, DownAreKnown, Mounted

(* A step that leaves votes and store alone and opens nothing.             *)
LEMMA SeatKept ==
    ASSUME SeatInv, UNCHANGED <<votes, storeVars, saw>>,
           Mounted' => Mounted,
           \A st \in Story : state'[st] = "pending" => state[st] = "pending"
    PROVE  PendingIsBlank' /\ KnownAreDown' /\ DownAreKnown'
  BY DEF SeatInv, PendingIsBlank, KnownAreDown, DownAreKnown, storeVars

LEMMA SeatInvOpen ==
    ASSUME SeatInv, NEW st \in Story, OpenVoting(st)
    PROVE  PendingIsBlank' /\ KnownAreDown' /\ DownAreKnown'
<1> USE DEF SeatInv, OnStories, OpenVoting, Opened, Becomes, VotingOpened, Mounted
<1>1. DOMAIN votes'[st] = {} /\ \A x \in Story \ {st} : votes'[x] = votes[x]
    OBVIOUS
<1>2. PendingIsBlank'
    BY <1>1 DEF PendingIsBlank
<1>3. ASSUME Mounted'
      PROVE  /\ \A x \in Story \ {st} : presence'[x] = presence[x] /\ mine'[x] = mine[x]
             /\ presence'[st] = {} /\ mine'[st] = NoCard
             /\ saw' = saw \cup {st}
    BY <1>3
<1>4. KnownAreDown'
    BY <1>1, <1>3 DEF KnownAreDown
<1>5. DownAreKnown'
    BY <1>1, <1>3 DEF DownAreKnown
<1> QED
    BY <1>2, <1>4, <1>5

LEMMA SeatInvOpenAsync ==
    ASSUME SeatInv, OpenAsync
    PROVE  PendingIsBlank' /\ KnownAreDown' /\ DownAreKnown'
<1> USE DEF SeatInv, OpenAsync, Opened, Becomes, Mounted, storeVars
<1>1. PendingIsBlank' /\ KnownAreDown'
    BY DEF PendingIsBlank, KnownAreDown
<1>2. DownAreKnown'
    BY DEF PendingIsBlank, KnownAreDown, DownAreKnown
<1> QED
    BY <1>1, <1>2

LEMMA SeatInvCast ==
    ASSUME SeatInv, NEW v, NEW st \in Story, NEW card, CastVote(v, st, card),
           v = Me => card # NoCard
    PROVE  PendingIsBlank' /\ KnownAreDown' /\ DownAreKnown'
<1> USE DEF SeatInv, OnStories, CastVote, Mounted
<1>1. /\ DOMAIN votes'[st] = DOMAIN votes[st] \cup {v}
      /\ \A x \in Story \ {st} : votes'[x] = votes[x]
    OBVIOUS
<1>2. PendingIsBlank'
    BY <1>1 DEF PendingIsBlank
<1>3. ASSUME Mounted'
      PROVE  /\ \A x \in Story \ {st} : presence'[x] = presence[x] /\ mine'[x] = mine[x]
             /\ presence'[st] = presence[st] \cup {v}
             /\ mine'[st] = IF v = Me THEN card ELSE mine[st]
    BY <1>3
<1>4. KnownAreDown'
    BY <1>1, <1>3 DEF KnownAreDown
<1>5. DownAreKnown'
    BY <1>1, <1>3 DEF DownAreKnown
<1> QED
    BY <1>2, <1>4, <1>5

LEMMA SeatInvNext == SeatInv /\ [Next]_vars => SeatInv'
<1> SUFFICES ASSUME SeatInv, [Next]_vars
             PROVE  PendingIsBlank' /\ KnownAreDown' /\ DownAreKnown'
    BY DomainsKept DEF SeatInv
<1>1. ASSUME NEW st \in Story, RevealVotes(st) \/ CommitStory(st) \/ SkipStory(st)
      PROVE  PendingIsBlank' /\ KnownAreDown' /\ DownAreKnown'
    <2>1. /\ Mounted' => Mounted
          /\ \A x \in Story : state'[x] = "pending" => state[x] = "pending"
        BY <1>1 DEF RevealVotes, CommitStory, SkipStory, Progress, Becomes, Mounted
    <2> QED
        BY <1>1, <2>1, SeatKept DEF RevealVotes, CommitStory, SkipStory, Progress
<1>2. CASE CloseAsync
    <2>1. /\ Mounted' => Mounted
          /\ \A x \in Story : state'[x] = "pending" => state[x] = "pending"
        BY <1>2 DEF CloseAsync, Becomes, Mounted
    <2> QED
        BY <1>2, <2>1, SeatKept DEF CloseAsync
<1>3. ASSUME NEW v \in Voter \ {Me}, NEW st \in Story, NEW card, CastVote(v, st, card)
      PROVE  PendingIsBlank' /\ KnownAreDown' /\ DownAreKnown'
    BY <1>3, SeatInvCast
<1>4. CASE Submit
    <2>1. Focus \in Story
        BY <1>4, FocusIsShown DEF Submit, CastShown
    <2> QED
        BY <1>4, <2>1, SeatInvCast DEF Submit
<1>5. ASSUME NEW card, Select(card) \/ SelectFinal(card)
      PROVE  PendingIsBlank' /\ KnownAreDown' /\ DownAreKnown'
    BY <1>5, SeatKept DEF Select, SelectFinal, serverVars, Mounted
<1>6. ASSUME NEW v \in Voter, Arrive(v)
      PROVE  PendingIsBlank' /\ KnownAreDown' /\ DownAreKnown'
    <2>1. CASE v = Me
        BY <1>6, <2>1 DEF Arrive, Hydrated, SeatInv, PendingIsBlank, KnownAreDown,
                          DownAreKnown
    <2>2. CASE v # Me
        BY <1>6, <2>2, SeatKept DEF Arrive, Mounted
    <2> QED
        BY <2>1, <2>2
<1>7. ASSUME NEW v \in Voter, Leave(v)
      PROVE  PendingIsBlank' /\ KnownAreDown' /\ DownAreKnown'
    BY <1>7, SeatKept DEF Leave, Mounted
<1>8. CASE UNCHANGED vars
    BY <1>8, SeatKept DEF vars, serverVars, storeVars, Mounted
<1> QED
    BY <1>1, <1>2, <1>3, <1>4, <1>5, <1>6, <1>7, <1>8, SeatInvOpen, SeatInvOpenAsync
       DEF Next

(* "Everyone's in" is said only when it is so, and always in a round the   *)
(* browser saw from its start, for any voters, stories and rounds          *)
(* (VotingStage.tsx, votedPresence of reducer.ts).                         *)
THEOREM EveryoneInAlwaysAgrees == Spec => []EveryoneInAgrees
<1>1. SeatInv => EveryoneInAgrees
    BY FocusIsShown DEF SeatInv, KnownAreDown, DownAreKnown, EveryoneInAgrees,
                        EveryoneIn, Ready, CastShown
<1> QED
    BY SeatInvInit, SeatInvNext, <1>1, PTL DEF Spec

-----------------------------------------------------------------------------
(* Cards that can be counted: finitely many, integers, with a largest.     *)
Counted(cards) ==
    /\ IsFiniteSet(DOMAIN cards)
    /\ \A v \in DOMAIN cards : cards[v] \in Int
    /\ \E top \in Nat : \A v \in DOMAIN cards : cards[v] <= top

(* The cards up to a position, and those below it.                         *)
UpTo(cards, p)  == {v \in Numeric(cards) : cards[v] <= p}
Below(cards, p) == {v \in Numeric(cards) : cards[v] < p}
Above(cards, p) == {v \in Numeric(cards) : cards[v] > p}

(* The cards with a number are finitely many, and a part of them is not    *)
(* more than the whole.                                                    *)
LEMMA CardsCounted ==
    ASSUME NEW cards, Counted(cards)
    PROVE  /\ IsFiniteSet(Numeric(cards)) /\ Cardinality(Numeric(cards)) \in Nat
           /\ \A v \in Numeric(cards) : cards[v] \in Nat \ {0}
           /\ \A S \in SUBSET Numeric(cards) :
                 /\ IsFiniteSet(S) /\ Cardinality(S) \in Nat
                 /\ Cardinality(S) <= Cardinality(Numeric(cards))
           /\ \A S, T \in SUBSET Numeric(cards) :
                 S \subseteq T => Cardinality(S) <= Cardinality(T)
<1>1. Numeric(cards) \subseteq DOMAIN cards
    BY DEF Numeric
<1>2. IsFiniteSet(Numeric(cards)) /\ Cardinality(Numeric(cards)) \in Nat
    BY <1>1, FS_Subset, FS_CardinalityType DEF Counted
<1>3. \A v \in Numeric(cards) : cards[v] \in Nat \ {0}
    BY DEF Counted, Numeric
<1>4. ASSUME NEW T \in SUBSET Numeric(cards), NEW S \in SUBSET T
      PROVE  IsFiniteSet(S) /\ Cardinality(S) \in Nat /\ Cardinality(S) <= Cardinality(T)
    <2>1. IsFiniteSet(T)
        BY <1>2, FS_Subset
    <2> QED
        BY <2>1, FS_Subset, FS_CardinalityType
<1> QED
    BY <1>2, <1>3, <1>4

(* There is a k-th smallest card: the least position up to which there are *)
(* k cards.                                                                *)
LEMMA RankedFound ==
    ASSUME NEW cards, Counted(cards), NEW k \in 1..Cardinality(Numeric(cards))
    PROVE  /\ Ranked(cards, k) \in {cards[v] : v \in Numeric(cards)}
           /\ Ranked(cards, k) \in Nat
           /\ Cardinality(Below(cards, Ranked(cards, k))) < k
           /\ Cardinality(UpTo(cards, Ranked(cards, k))) >= k
<1> DEFINE Enough == {p \in Nat : Cardinality(UpTo(cards, p)) >= k}
<1>1. Enough # {}
    <2>1. PICK top \in Nat : \A v \in DOMAIN cards : cards[v] <= top
        BY DEF Counted
    <2>2. UpTo(cards, top) = Numeric(cards)
        BY <2>1 DEF UpTo, Numeric
    <2>3. Cardinality(Numeric(cards)) >= k
        BY CardsCounted
    <2>4. top \in Enough
        BY <2>1, <2>2, <2>3
    <2> QED
        BY <2>4
<1>2. PICK p \in Enough : \A q \in Enough : ~(<<q, p>> \in OpToRel(<, Nat))
    <2>1. Enough \subseteq Nat
        OBVIOUS
    <2> HIDE DEF Enough
    <2> QED
        BY <1>1, <2>1, NatLessThanWellFounded, WFMin
<1>3. p \in Nat /\ Cardinality(UpTo(cards, p)) >= k
    BY <1>2
<1>4. \A q \in Nat : q < p => ~(Cardinality(UpTo(cards, q)) >= k)
    BY <1>2 DEF OpToRel
<1> HIDE DEF Enough
<1>5. /\ Cardinality(UpTo(cards, p)) \in Nat /\ Cardinality(Below(cards, p)) \in Nat
    BY CardsCounted DEF UpTo, Below
<1>6. Cardinality(Below(cards, p)) < k
    <2>1. CASE p = 0
        <3>1. Below(cards, p) = {}
            BY <2>1, CardsCounted DEF Below
        <3> QED
            BY <3>1, FS_EmptySet
    <2>2. CASE p # 0
        <3>1. p - 1 \in Nat /\ p - 1 < p
            BY <1>3, <2>2
        <3>2. UpTo(cards, p - 1) = Below(cards, p)
            BY <1>3, CardsCounted DEF UpTo, Below
        <3>3. ~(Cardinality(UpTo(cards, p - 1)) >= k)
            BY <1>4, <3>1
        <3> QED
            BY <1>5, <3>2, <3>3
    <2> QED
        BY <2>1, <2>2
<1>7. p \in {cards[v] : v \in Numeric(cards)}
    <2> SUFFICES ASSUME \A v \in Numeric(cards) : cards[v] # p
                 PROVE  FALSE
        OBVIOUS
    <2>1. UpTo(cards, p) = Below(cards, p)
        BY <1>3, CardsCounted DEF UpTo, Below
    <2> QED
        BY <1>3, <1>5, <1>6, <2>1
<1>8. Ranked(cards, k) = CHOOSE q \in {cards[v] : v \in Numeric(cards)} :
            /\ Cardinality(Below(cards, q)) < k
            /\ Cardinality(UpTo(cards, q)) >= k
    BY DEF Ranked, Below, UpTo
<1>9. /\ Ranked(cards, k) \in {cards[v] : v \in Numeric(cards)}
      /\ Cardinality(Below(cards, Ranked(cards, k))) < k
      /\ Cardinality(UpTo(cards, Ranked(cards, k))) >= k
    BY <1>3, <1>6, <1>7, <1>8
<1> QED
    BY <1>9, CardsCounted

(* The median lies between two of the cards, and at most half of them lie  *)
(* on either side.                                                         *)
LEMMA MedianInTheMiddle ==
    ASSUME NEW cards, Counted(cards), Numeric(cards) # {}
    PROVE  /\ Median(cards) \in Int
           /\ \E v, w \in Numeric(cards) : cards[v] <= Median(cards) /\ Median(cards) <= cards[w]
           /\ 2 * Cardinality(Below(cards, Median(cards))) <= Cardinality(Numeric(cards))
           /\ 2 * Cardinality(Above(cards, Median(cards))) <= Cardinality(Numeric(cards))
<1> DEFINE n == Cardinality(Numeric(cards))
           j == (n + 1) \div 2
           k == (n \div 2) + 1
<1>1. n \in Nat \ {0}
    BY CardsCounted, FS_EmptySet
<1>2. /\ j \in 1..n /\ k \in 1..n /\ j <= k /\ 2 * j >= n /\ 2 * k <= n + 2
    BY <1>1
<1>3. PICK p, q : p = Ranked(cards, j) /\ q = Ranked(cards, k)
    OBVIOUS
<1>4. Median(cards) = (p + q) \div 2
    BY <1>1, <1>3 DEF Median
<1> HIDE DEF n, j, k
<1>5. /\ p \in {cards[v] : v \in Numeric(cards)} /\ p \in Nat
      /\ q \in {cards[v] : v \in Numeric(cards)} /\ q \in Nat
      /\ Cardinality(Below(cards, p)) < j /\ Cardinality(UpTo(cards, p)) >= j
      /\ Cardinality(Below(cards, q)) < k /\ Cardinality(UpTo(cards, q)) >= k
    BY <1>2, <1>3, RankedFound DEF n
<1>6. \A x \in Int : /\ Cardinality(Below(cards, x)) \in Nat
                     /\ Cardinality(UpTo(cards, x)) \in Nat
                     /\ Cardinality(Above(cards, x)) \in Nat
    BY CardsCounted DEF Below, UpTo, Above
<1>7. p <= q
    <2> SUFFICES ASSUME q < p PROVE FALSE
        BY <1>5
    <2>1. UpTo(cards, q) \subseteq Below(cards, p)
        BY <1>5, CardsCounted DEF UpTo, Below
    <2>2. Cardinality(UpTo(cards, q)) <= Cardinality(Below(cards, p))
        BY <2>1, CardsCounted DEF UpTo, Below
    <2> QED
        BY <1>2, <1>5, <1>6, <2>2
<1>8. Median(cards) \in Nat /\ p <= Median(cards) /\ Median(cards) <= q
    BY <1>4, <1>5, <1>7
<1>9. \E v, w \in Numeric(cards) : cards[v] <= Median(cards) /\ Median(cards) <= cards[w]
    BY <1>5, <1>8
<1>10. 2 * Cardinality(Below(cards, Median(cards))) <= n
    <2>1. Below(cards, Median(cards)) \subseteq Below(cards, q)
        BY <1>5, <1>8, CardsCounted DEF Below
    <2>2. Cardinality(Below(cards, Median(cards))) <= Cardinality(Below(cards, q))
        BY <2>1, CardsCounted DEF Below
    <2> QED
        BY <1>1, <1>2, <1>5, <1>6, <1>8, <2>2
<1>11. 2 * Cardinality(Above(cards, Median(cards))) <= n
    <2>1. Above(cards, Median(cards)) \subseteq Above(cards, p)
        BY <1>5, <1>8, CardsCounted DEF Above
    <2>2. Cardinality(Above(cards, Median(cards))) <= Cardinality(Above(cards, p))
        BY <2>1, CardsCounted DEF Above
    <2>3. Above(cards, p) = Numeric(cards) \ UpTo(cards, p)
        BY <1>5, CardsCounted DEF Above, UpTo
    <2>4. Cardinality(Above(cards, p)) = n - Cardinality(UpTo(cards, p))
        <3>1. UpTo(cards, p) \subseteq Numeric(cards)
            BY DEF UpTo
        <3>2. Numeric(cards) \cap UpTo(cards, p) = UpTo(cards, p)
            BY <3>1
        <3>3. Cardinality(Numeric(cards) \ UpTo(cards, p))
                = Cardinality(Numeric(cards)) - Cardinality(Numeric(cards) \cap UpTo(cards, p))
            BY <3>1, CardsCounted, FS_Difference
        <3> QED
            BY <2>3, <3>2, <3>3 DEF n
    <2> QED
        BY <1>1, <1>2, <1>5, <1>6, <1>8, <2>2, <2>4
<1> QED
    BY <1>8, <1>9, <1>10, <1>11 DEF n

-----------------------------------------------------------------------------
(* What is said of the cards, whatever the cards are.                      *)
LEMMA VerdictsOfCards ==
    ASSUME NEW cards, Counted(cards), NEW seated, NEW confidence
    PROVE  /\ Numeric(cards) # {} =>
                 /\ 2 * Cardinality({v \in Numeric(cards) : cards[v] < Median(cards)})
                      <= Cardinality(Numeric(cards))
                 /\ 2 * Cardinality({v \in Numeric(cards) : cards[v] > Median(cards)})
                      <= Cardinality(Numeric(cards))
           /\ Tagged(cards) = {cards[v] : v \in Outliers(cards)}
           /\ Outliers(cards) # {} => SpreadHigh(cards)
           /\ Stamped(cards, seated) => ~SpreadHigh(cards) /\ Tagged(cards) = {}
           /\ \/ StoryNeedsDiscussion(cards, confidence)
              \/ Median(cards) # NoCard /\ Tagged(cards) = {}
<1>1. CASE Numeric(cards) = {}
    <2>1. Tagged(cards) = {} /\ Outliers(cards) = {} /\ ~SpreadHigh(cards)
        BY <1>1 DEF Tagged, Outliers, SpreadHigh
    <2>2. StoryNeedsDiscussion(cards, confidence)
        BY <1>1, FS_EmptySet DEF StoryNeedsDiscussion, Median
    <2> QED
        BY <1>1, <2>1, <2>2
<1>2. CASE Numeric(cards) # {}
    <2>1. \A v \in Numeric(cards) : cards[v] \in Int
        BY CardsCounted
    <2>2. PICK m \in Int : m = Median(cards)
        BY <1>2, MedianInTheMiddle
    <2>3. PICK v, w \in Numeric(cards) : cards[v] <= m /\ m <= cards[w]
        BY <1>2, <2>2, MedianInTheMiddle
    <2>4. \A u \in Numeric(cards) :
              Apart(cards[u], m) > 1 <=> cards[u] - m >= 2 \/ m - cards[u] >= 2
        BY <2>1 DEF Apart
    <2>5. \A u \in Numeric(cards) : Apart(cards[u], m) > 1 <=> Apart(cards[u], m) >= 2
        BY <2>1 DEF Apart
    <2>6. Tagged(cards) = {cards[u] : u \in Outliers(cards)}
        BY <2>2, <2>5 DEF Tagged, Outliers
    <2>7. Outliers(cards) # {} => SpreadHigh(cards)
        <3> SUFFICES ASSUME NEW u \in Numeric(cards), Apart(cards[u], m) > 1
                     PROVE  SpreadHigh(cards)
            BY <2>2 DEF Outliers
        <3>1. cards[u] - cards[v] >= 2 \/ cards[w] - cards[u] >= 2
            BY <2>1, <2>3, <2>4
        <3> QED
            BY <3>1 DEF SpreadHigh
    <2>8. AllSame(cards) => ~SpreadHigh(cards)
        <3> SUFFICES ASSUME AllSame(cards), NEW u \in Numeric(cards), NEW x \in Numeric(cards),
                            cards[u] - cards[x] >= 2
                     PROVE  FALSE
            BY DEF SpreadHigh
        <3>1. cards[u] = cards[x]
            BY DEF AllSame, Numeric
        <3> QED
            BY <2>1, <3>1
    <2>9. Stamped(cards, seated) => ~SpreadHigh(cards) /\ Tagged(cards) = {}
        BY <2>6, <2>7, <2>8 DEF Stamped
    <2>10. Outliers(cards) = {} => Tagged(cards) = {}
        BY <2>6
    <2>11. /\ 2 * Cardinality({u \in Numeric(cards) : cards[u] < Median(cards)})
                 <= Cardinality(Numeric(cards))
           /\ 2 * Cardinality({u \in Numeric(cards) : cards[u] > Median(cards)})
                 <= Cardinality(Numeric(cards))
        BY <1>2, MedianInTheMiddle DEF Below, Above
    <2> QED
        BY <2>6, <2>7, <2>9, <2>10, <2>11 DEF StoryNeedsDiscussion
<1> QED
    BY <1>1, <1>2

(* The rows hold cards that can be counted, and so does what a card is cast *)
(* from.                                                                   *)
CardsInv ==
    /\ OnStories
    /\ \A st \in Story : Counted(votes[st]) /\ mine[st] \in Int
    /\ hand.card \in Int

(* Where there is no card there is nothing to count.                       *)
LEMMA NothingCounted == Counted(<<>>)
<1>1. DOMAIN <<>> = {}
    OBVIOUS
<1> QED
    BY <1>1, FS_EmptySet DEF Counted

(* One card more, or another, leaves them countable.                       *)
LEMMA CardAdded ==
    ASSUME NEW cards, Counted(cards), NEW v, NEW card \in Int
    PROVE  Counted([w \in DOMAIN cards \cup {v} |-> IF w = v THEN card ELSE cards[w]])
<1> DEFINE more == [w \in DOMAIN cards \cup {v} |-> IF w = v THEN card ELSE cards[w]]
<1>1. IsFiniteSet(DOMAIN more)
    BY FS_AddElement DEF Counted
<1>2. \A w \in DOMAIN more : more[w] \in Int
    BY DEF Counted
<1>3. PICK top \in Nat : \A w \in DOMAIN cards : cards[w] <= top
    BY DEF Counted
<1>4. \E t \in Nat : \A w \in DOMAIN more : more[w] <= t
    <2>1. CASE card <= top
        BY <1>3, <2>1
    <2>2. CASE card > top
        <3>1. card \in Nat /\ \A w \in DOMAIN cards : cards[w] <= card
            BY <1>3, <2>2 DEF Counted
        <3> QED
            BY <3>1
    <2> QED
        BY <2>1, <2>2
<1> QED
    BY <1>1, <1>2, <1>4 DEF Counted

(* The focus is a story after a step, too.                                 *)
LEMMA FocusIsShownNext ==
    (Focus # NoStory => Focus \in Story /\ Shown(Focus))'
  BY FocusIsShown, PTL

(* The hand is dealt the browser's own card.                               *)
LEMMA HandHoldsACard ==
    ASSUME CardsInv, SettleHand, \A st \in Story : mine'[st] \in Int
    PROVE  hand'.card \in Int
<1>1. CASE ~CastShown'
    BY <1>1 DEF SettleHand, NoHand, NoCard
<1>2. CASE CastShown' /\ CastShown /\ Focus' = Focus
    BY <1>2 DEF SettleHand, CardsInv
<1>3. CASE CastShown' /\ ~(CastShown /\ Focus' = Focus)
    <2>1. Focus' \in Story'
        BY <1>3, FocusIsShownNext DEF CastShown
    <2>2. hand' = Dealt(Focus)'
        BY <1>3 DEF SettleHand
    <2> QED
        BY <2>1, <2>2 DEF Dealt, Story
<1> QED
    BY <1>1, <1>2, <1>3

(* No story has a card to begin with.                                      *)
LEMMA CardsInvInit == Init => CardsInv
<1> SUFFICES ASSUME Init PROVE CardsInv
    OBVIOUS
<1>1. OnStories /\ \A st \in Story : votes[st] = <<>> /\ mine[st] = NoCard
    BY DEF Init, OnStories
<1>2. hand.card = NoCard /\ NoCard \in Int
    BY DEF Init, NoHand, NoCard
<1> QED
    BY <1>1, <1>2, NothingCounted DEF CardsInv

(* A step that leaves the cards alone.                                     *)
LEMMA CardsKept ==
    ASSUME CardsInv, UNCHANGED <<votes, mine>>, Settle \/ hand' = hand
    PROVE  /\ \A st \in Story : Counted(votes'[st]) /\ mine'[st] \in Int
           /\ hand'.card \in Int
<1>1. \A st \in Story : Counted(votes'[st]) /\ mine'[st] \in Int
    BY DEF CardsInv
<1>2. hand'.card \in Int
    BY <1>1, HandHoldsACard DEF Settle, CardsInv
<1> QED
    BY <1>1, <1>2

(* A cast adds or replaces one card, and it is one of the voter's cards.   *)
LEMMA CardsInvCast ==
    ASSUME CardsInv, NEW v, NEW st \in Story, NEW card \in Int, CastVote(v, st, card)
    PROVE  /\ \A x \in Story : Counted(votes'[x]) /\ mine'[x] \in Int
           /\ hand'.card \in Int
<1> USE DEF CardsInv, OnStories
<1>1. votes'[st] = [w \in DOMAIN votes[st] \cup {v} |-> IF w = v THEN card ELSE votes[st][w]]
    BY DEF CastVote
<1>2. \A x \in Story : x # st => votes'[x] = votes[x]
    BY DEF CastVote
<1>3. Counted(votes'[st])
    BY <1>1, CardAdded
<1>4. \A x \in Story : mine'[x] \in Int
    BY DEF CastVote
<1>5. hand'.card \in Int
    BY <1>4, HandHoldsACard DEF CastVote, Settle
<1> QED
    BY <1>2, <1>3, <1>4, <1>5

(* The cards stay countable, whatever happens.                             *)
LEMMA CardsInvNext == CardsInv /\ [Next]_vars => CardsInv'
<1> DEFINE Kept == /\ \A st \in Story : Counted(votes'[st]) /\ mine'[st] \in Int
                   /\ hand'.card \in Int
<1> SUFFICES ASSUME CardsInv, [Next]_vars
             PROVE  Kept
    BY DomainsKept DEF CardsInv
<1>1. ASSUME NEW st \in Story, OpenVoting(st)
      PROVE  Kept
    <2>1. \A x \in Story : votes'[x] = votes[x] \/ votes'[x] = <<>>
        BY <1>1 DEF OpenVoting, CardsInv, OnStories
    <2>2. \A x \in Story : Counted(votes'[x])
        BY <2>1, NothingCounted DEF CardsInv
    <2>3. \A x \in Story : mine'[x] \in Int
        BY <1>1 DEF OpenVoting, VotingOpened, CardsInv, OnStories, NoCard
    <2> QED
        BY <1>1, <2>2, <2>3, HandHoldsACard DEF OpenVoting, Settle
<1>2. ASSUME NEW st \in Story, RevealVotes(st) \/ CommitStory(st) \/ SkipStory(st)
      PROVE  Kept
    BY <1>2, CardsKept DEF RevealVotes, CommitStory, SkipStory, Progress, storeVars
<1>3. CASE OpenAsync
    BY <1>3, CardsKept DEF OpenAsync, storeVars
<1>4. CASE CloseAsync
    BY <1>4, CardsKept DEF CloseAsync, storeVars
<1>5. ASSUME NEW v \in Voter \ {Me}, NEW st \in Story, NEW card \in Casting[st][v],
             CastVote(v, st, card)
      PROVE  Kept
    <2>1. card \in Int
        BY StageAssumption DEF Story
    <2> QED
        BY <1>5, <2>1, CardsInvCast
<1>6. CASE Submit
    <2>1. Focus \in Story /\ hand.card \in Int
        BY <1>6, FocusIsShown DEF Submit, CastShown, CardsInv
    <2> QED
        BY <1>6, <2>1, CardsInvCast DEF Submit
<1>7. ASSUME NEW card, Select(card)
      PROVE  Kept
    <2>1. Focus \in Story /\ card \in Casting[Focus][Me] /\ hand'.card = card
        BY <1>7, FocusIsShown DEF Select, CastShown
    <2>2. card \in Int
        BY <2>1, StageAssumption DEF Story
    <2> QED
        BY <1>7, <2>1, <2>2 DEF Select, serverVars, storeVars, CardsInv
<1>8. ASSUME NEW card, SelectFinal(card)
      PROVE  Kept
    BY <1>8, CardsKept DEF SelectFinal, serverVars, storeVars
<1>9. ASSUME NEW v \in Voter, Arrive(v)
      PROVE  Kept
    <2>1. CASE v = Me
        <3>1. \A st \in Story : mine'[st] \in Int
            BY <1>9, <2>1 DEF Arrive, Hydrated, CardsInv, Counted, NoCard
        <3> QED
            BY <1>9, <3>1, HandHoldsACard DEF Arrive, Settle, CardsInv
    <2>2. CASE v # Me
        BY <1>9, <2>2, CardsKept DEF Arrive, storeVars
    <2> QED
        BY <2>1, <2>2
<1>10. ASSUME NEW v \in Voter, Leave(v)
       PROVE  Kept
    BY <1>10, CardsKept DEF Leave, storeVars
<1>11. CASE UNCHANGED vars
    BY <1>11, CardsKept DEF vars, serverVars, storeVars, panelVars
<1> HIDE DEF Kept
<1> QED
    BY <1>1, <1>2, <1>3, <1>4, <1>5, <1>6, <1>7, <1>8, <1>9, <1>10, <1>11 DEF Next

(* The median, the outliers, the tags, the stamp, the spread and the       *)
(* window's buckets do not contradict each other, for any cards of any     *)
(* number of voters, in the deck or not (stats.ts; the panels of           *)
(* VotingStage.tsx).                                                       *)
THEOREM VerdictsAlwaysAgree == Spec => []VerdictsAgree
<1>1. CardsInv => VerdictsAgree
    BY VerdictsOfCards DEF CardsInv, VerdictsAgree
<1> QED
    BY CardsInvInit, CardsInvNext, <1>1, PTL DEF Spec
=============================================================================
