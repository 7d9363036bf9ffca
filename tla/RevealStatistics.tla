---------------------------- MODULE RevealStatistics ----------------------------
(***************************************************************************)
(* What is said of a story's cards once they are revealed: the statistics  *)
(* of stats.ts, which the worker sends with the cards and a browser works  *)
(* out again from a snapshot, and the verdicts the browser's panels draw   *)
(* from the cards on their own.                                            *)
(*                                                                         *)
(* A card is its position in the deck, 1 or more; the cards that are not   *)
(* in the deck are the numbers below 1.  The cards of a story are a        *)
(* function on the voters who cast one.                                    *)
(***************************************************************************)
EXTENDS Integers, FiniteSets, FiniteSetsExt

NoCard == -100

Numeric(cards) == {v \in DOMAIN cards : cards[v] > 0}

(* The k-th smallest of the positions.                                     *)
Ranked(cards, k) ==
    CHOOSE p \in {cards[v] : v \in Numeric(cards)} :
        /\ Cardinality({v \in Numeric(cards) : cards[v] < p}) < k
        /\ Cardinality({v \in Numeric(cards) : cards[v] <= p}) >= k

(* The middle position; half-way between two, rounded down, for an even    *)
(* number of cards.                                                        *)
Median(cards) ==
    LET n == Cardinality(Numeric(cards))
    IN  IF n = 0 THEN NoCard
        ELSE (Ranked(cards, (n + 1) \div 2) + Ranked(cards, (n \div 2) + 1)) \div 2

Apart(p, q) == IF p < q THEN q - p ELSE p - q

(* Mutant: a card two positions off is no outlier.                         *)
Outliers_FarOnly(cards) ==
    {v \in Numeric(cards) : Apart(cards[v], Median(cards)) > 2}

Outliers(cards) ==
    {v \in Numeric(cards) : Apart(cards[v], Median(cards)) > 1}

(* The average confidence of the numeric cards is below 2.5.               *)
LowConfidence(cards, confidence) ==
    /\ Numeric(cards) # {}
    /\ 2 * MapThenSumSet(LAMBDA v : confidence[v], Numeric(cards))
         < 5 * Cardinality(Numeric(cards))

StoryNeedsDiscussion(cards, confidence) ==
    \/ Median(cards) = NoCard
    \/ Outliers(cards) # {}
    \/ LowConfidence(cards, confidence)

-----------------------------------------------------------------------------
(* The panels.                                                             *)
AllSame(cards) ==
    /\ DOMAIN cards # {}
    /\ \A v, w \in DOMAIN cards : cards[v] = cards[w]

(* The stamp counts the cards against the seats that are taken now.        *)
Stamped(cards, seated) ==
    AllSame(cards) /\ Cardinality(DOMAIN cards) = Cardinality(seated)

SpreadHigh(cards) ==
    \E v, w \in Numeric(cards) : cards[v] - cards[w] >= 2

(* The cards the tally marks [OUTLIER].                                    *)
Tagged(cards) ==
    {p \in {cards[v] : v \in Numeric(cards)} : Apart(p, Median(cards)) >= 2}
=============================================================================
