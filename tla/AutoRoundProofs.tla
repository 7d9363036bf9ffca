---------------------------- MODULE AutoRoundProofs ----------------------------
(***************************************************************************)
(* For any voters and lengths of lines: a page that has taken what was     *)
(* sent to it agrees with the server, cards that lie open are cleared by   *)
(* hand only, and a round is left for every visit.                         *)
(***************************************************************************)
EXTENDS AutoRound, FiniteSetTheorems, SequenceTheorems, TLAPS

-----------------------------------------------------------------------------
(* Messages.                                                               *)

UpMsg == {Join, Claim, Add} \cup {Open(x, by) : x \in Round, by \in {"effect", "click"}}
            \cup {Reveal(x) : x \in Round}

DownMsg == [type : {"SNAPSHOT_RESPONSE"}, view : {w \in View : w.host \in Voter}]
              \cup [type : {"HOST_RECLAIMED"}, host : Voter]
              \cup [type : {"HOST_VACANT"}]
              \cup [type : {"pending", "active", "revealed"}, round : Round]

(* What the reducer makes of each message.                                 *)
LEMMA FoldedSnapshot ==
    ASSUME NEW w \in View, NEW m \in DownMsg, m.type = "SNAPSHOT_RESPONSE"
    PROVE  Folded(w, m) = m.view /\ m.view \in View /\ m.view.host \in Voter
  BY DEF Folded, DownMsg

(* HOST_RECLAIMED names the host, in a store that has a room.              *)
LEMMA FoldedReclaim ==
    ASSUME NEW w \in View, NEW v \in Voter
    PROVE  LET x == Folded(w, HostIs(v))
           IN  /\ x \in View /\ x.story = w.story
               /\ w.host = NoVoter => x = w
               /\ w.host # NoVoter => x.host = v /\ ~x.vacant
  BY DEF Folded, View, HostIs

(* HOST_VACANT                                                             *)
LEMMA FoldedVacant ==
    ASSUME NEW w \in View
    PROVE  LET x == Folded(w, IsVacant)
           IN  x \in View /\ x.story = w.story /\ x.host = w.host /\ x.vacant
  BY DEF Folded, View, IsVacant

(* A round is listed, whatever it was.                                     *)
LEMMA FoldedPending ==
    ASSUME NEW w \in View, NEW r \in Round
    PROVE  LET x == Folded(w, Becomes(r, "pending"))
           IN  /\ x \in View /\ x.host = w.host /\ x.vacant = w.vacant
               /\ \A y \in Round : x.story[y] = IF y = r THEN "pending" ELSE w.story[y]
  BY DEF Folded, View, Becomes

(* A round is revealed, if it is listed.                                   *)
LEMMA FoldedRevealed ==
    ASSUME NEW w \in View, NEW r \in Round
    PROVE  LET x == Folded(w, Becomes(r, "revealed"))
           IN  /\ x \in View /\ x.host = w.host /\ x.vacant = w.vacant
               /\ \A y \in Round : x.story[y] = IF y = r /\ w.story[y] # "absent"
                                                THEN "revealed" ELSE w.story[y]
  BY DEF Folded, View, Becomes

(* A round is opened, if it is listed, and another that was shown as open  *)
(* goes back to pending.                                                   *)
LEMMA FoldedActive ==
    ASSUME NEW w \in View, NEW r \in Round
    PROVE  LET x == Folded(w, Becomes(r, "active"))
           IN  /\ x \in View /\ x.host = w.host /\ x.vacant = w.vacant
               /\ x.story[r] = IF w.story[r] = "absent" THEN "absent" ELSE "active"
               /\ \A y \in Round \ {r} :
                     x.story[y] = IF w.story[y] = "active" THEN "pending" ELSE w.story[y]
<1> DEFINE s == [y \in Round |-> CASE w.story[y] = "absent"                -> "absent"
                                   [] w.story[y] # "absent" /\ y = r       -> "active"
                                   [] w.story[y] = "active" /\ y # r       -> "pending"
                                   [] OTHER                                -> w.story[y]]
<1>1. Folded(w, Becomes(r, "active")) = [w EXCEPT !.story = s]
  BY DEF Folded, Becomes
<1>2. \A y \in Round : /\ w.story[y] \in {"absent", "pending", "active", "revealed"}
                       /\ s[y] = CASE w.story[y] = "absent"                -> "absent"
                                   [] w.story[y] # "absent" /\ y = r       -> "active"
                                   [] w.story[y] = "active" /\ y # r       -> "pending"
                                   [] OTHER                                -> w.story[y]
  BY DEF View
<1>3. /\ s \in [Round -> {"absent", "pending", "active", "revealed"}]
      /\ s[r] = IF w.story[r] = "absent" THEN "absent" ELSE "active"
      /\ \A y \in Round \ {r} : s[y] = IF w.story[y] = "active" THEN "pending" ELSE w.story[y]
  BY <1>2
<1> HIDE DEF s
<1> QED  BY <1>1, <1>3 DEF View

(* It makes a store of a store.                                            *)
LEMMA FoldedTyped ==
    ASSUME NEW w \in View, NEW m \in DownMsg
    PROVE  /\ Folded(w, m) \in View
           /\ m.type = "SNAPSHOT_RESPONSE" => Folded(w, m).host \in Voter
           /\ m.type # "SNAPSHOT_RESPONSE" => (Folded(w, m).host = NoVoter <=> w.host = NoVoter)
<1>1. CASE m.type = "SNAPSHOT_RESPONSE"
  BY <1>1, FoldedSnapshot
<1>2. ASSUME NEW v \in Voter, m = HostIs(v)
      PROVE  Folded(w, m) \in View /\ (Folded(w, m).host = NoVoter <=> w.host = NoVoter)
  BY <1>2, FoldedReclaim, AutoAssumption
<1>3. ASSUME m = IsVacant
      PROVE  Folded(w, m) \in View /\ Folded(w, m).host = w.host
  BY <1>3, FoldedVacant
<1>4. ASSUME NEW x \in Round, NEW to \in {"pending", "active", "revealed"}, m = Becomes(x, to)
      PROVE  Folded(w, m) \in View /\ Folded(w, m).host = w.host
  <2>1. CASE to = "pending"
    BY <1>4, <2>1, FoldedPending
  <2>2. CASE to = "active"
    BY <1>4, <2>2, FoldedActive
  <2>3. CASE to = "revealed"
    BY <1>4, <2>3, FoldedRevealed
  <2> QED  BY <2>1, <2>2, <2>3
<1>5. CASE m \in [type : {"HOST_RECLAIMED"}, host : Voter]
  <2>1. m = HostIs(m.host) /\ m.type # "SNAPSHOT_RESPONSE"
    BY <1>5 DEF HostIs
  <2> QED  BY <1>2, <1>5, <2>1
<1>6. CASE m \in [type : {"HOST_VACANT"}]
  <2>1. m = IsVacant /\ m.type # "SNAPSHOT_RESPONSE"
    BY <1>6 DEF IsVacant
  <2> QED  BY <1>3, <2>1
<1>7. CASE m \in [type : {"pending", "active", "revealed"}, round : Round]
  <2>1. m = Becomes(m.round, m.type) /\ m.type # "SNAPSHOT_RESPONSE"
    BY <1>7 DEF Becomes
  <2> QED  BY <1>4, <1>7, <2>1
<1> QED  BY <1>1, <1>5, <1>6, <1>7 DEF DownMsg

-----------------------------------------------------------------------------
(* Stores on their way: S holds the stores that s leads through from w     *)
(* to e.                                                                   *)

Leads(S, w, s, e) ==
    \E h \in [0..Len(s) -> S] :
        /\ h[0] = w /\ h[Len(s)] = e
        /\ \A i \in 1..Len(s) : h[i] = Folded(h[i - 1], s[i])

(* With nothing on the way the store is where it leads.                    *)
LEMMA LeadsNowhere ==
    ASSUME NEW S, NEW w \in S, NEW e, NEW s, s = <<>>
    PROVE  Leads(S, w, s, e) <=> w = e
<1>1. Len(s) = 0 /\ 0..Len(s) = {0} /\ 1..Len(s) = {}
  OBVIOUS
<1>2. Leads(S, w, s, w)
  <2> DEFINE h == [i \in 0..Len(s) |-> w]
  <2>1. h \in [0..Len(s) -> S] /\ h[0] = w /\ h[Len(s)] = w
    BY <1>1
  <2> QED  BY <1>1, <2>1 DEF Leads
<1>3. Leads(S, w, s, e) => w = e
  BY <1>1 DEF Leads
<1> QED  BY <1>2, <1>3

(* A wider set holds them, too.                                            *)
LEMMA LeadsWider ==
    ASSUME NEW S, NEW T, NEW w, NEW s, NEW e, S \subseteq T, Leads(S, w, s, e)
    PROVE  Leads(T, w, s, e)
  BY DEF Leads

(* Each end is one of the stores.                                          *)
LEMMA LeadsWithin ==
    ASSUME NEW S, NEW w, NEW M, NEW s \in Seq(M), NEW e, Leads(S, w, s, e)
    PROVE  w \in S /\ e \in S
  BY DEF Leads

(* A message is sent.                                                      *)
LEMMA LeadsOn ==
    ASSUME NEW S, NEW w, NEW M, NEW s \in Seq(M), NEW m \in M, NEW e,
           Leads(S, w, s, e), Folded(e, m) \in S
    PROVE  Leads(S, w, Append(s, m), Folded(e, m))
<1>1. PICK h \in [0..Len(s) -> S] :
        /\ h[0] = w /\ h[Len(s)] = e
        /\ \A i \in 1..Len(s) : h[i] = Folded(h[i - 1], s[i])
  BY DEF Leads
<1> DEFINE t == Append(s, m)
           f == Folded(e, m)
           k == [i \in 0..Len(t) |-> IF i <= Len(s) THEN h[i] ELSE f]
<1>2. /\ Len(s) \in Nat /\ Len(t) = Len(s) + 1 /\ t[Len(t)] = m
      /\ \A i \in 1..Len(s) : t[i] = s[i]
  OBVIOUS
<1> HIDE DEF t, f
<1>3. f \in S
  BY DEF f
<1>4. k \in [0..Len(t) -> S] /\ k[0] = w /\ k[Len(t)] = f
  BY <1>1, <1>2, <1>3
<1>5. ASSUME NEW i \in 1..Len(t)
      PROVE  k[i] = Folded(k[i - 1], t[i])
  <2>1. CASE i <= Len(s)
    <3>1. i \in 1..Len(s) /\ i - 1 \in 0..Len(s)
      BY <1>2, <2>1
    <3>2. k[i] = h[i] /\ k[i - 1] = h[i - 1] /\ t[i] = s[i]
      BY <1>2, <3>1
    <3> QED  BY <1>1, <3>1, <3>2
  <2>2. CASE i = Len(t)
    <3>1. k[i] = f /\ k[i - 1] = h[Len(s)] /\ t[i] = m
      BY <1>2, <2>2
    <3> QED  BY <1>1, <3>1 DEF f
  <2> QED  BY <1>2, <2>1, <2>2
<1> QED  BY <1>4, <1>5 DEF Leads, t, f

(* The page takes a message.                                               *)
LEMMA LeadsFrom ==
    ASSUME NEW S, NEW w, NEW M, NEW s \in Seq(M), s # <<>>, NEW e, Leads(S, w, s, e)
    PROVE  Leads(S, Folded(w, Head(s)), Tail(s), e)
<1>1. PICK h \in [0..Len(s) -> S] :
        /\ h[0] = w /\ h[Len(s)] = e
        /\ \A i \in 1..Len(s) : h[i] = Folded(h[i - 1], s[i])
  BY DEF Leads
<1> DEFINE t == Tail(s)
           k == [i \in 0..Len(t) |-> h[i + 1]]
<1>2. /\ Len(s) \in Nat \ {0} /\ Len(t) = Len(s) - 1 /\ s[1] = Head(s)
      /\ \A i \in 1..Len(t) : t[i] = s[i + 1]
  BY HeadTailProperties
<1> HIDE DEF t
<1>3. k \in [0..Len(t) -> S] /\ k[0] = h[1] /\ k[Len(t)] = e
  BY <1>1, <1>2
<1>4. ASSUME NEW i \in 1..Len(t)
      PROVE  k[i] = Folded(k[i - 1], t[i])
  <2>1. /\ i + 1 \in 1..Len(s) /\ (i + 1) - 1 = i /\ (i - 1) + 1 = i
        /\ i - 1 \in 0..Len(t) /\ i \in 0..Len(t)
    BY <1>2
  <2>2. k[i] = h[i + 1] /\ k[i - 1] = h[i] /\ t[i] = s[i + 1]
    BY <1>2, <2>1
  <2>3. h[i + 1] = Folded(h[i], s[i + 1])
    BY <1>1, <2>1
  <2> QED  BY <2>2, <2>3
<1>5. h[1] = Folded(w, Head(s))
  <2>1. 1 \in 1..Len(s) /\ 1 - 1 = 0
    BY <1>2
  <2> QED  BY <1>1, <1>2, <2>1
<1> QED  BY <1>3, <1>4, <1>5 DEF Leads, t

-----------------------------------------------------------------------------
(* Types and lines.                                                        *)

TypeInv ==
    /\ AutoTypeOK
    /\ up \in [Line -> Seq(UpMsg)] /\ down \in [Line -> Seq(DownMsg)]

(* The line of a page that is there.                                       *)
InUse(l) == page[l[1]] # "off" /\ line[l[1]] = l[2]

(* A line is open, or dead, while it is a page's own; nothing is on a line *)
(* that nobody holds, and before the server has bound a line only a JOIN.  *)
LinesInv ==
    /\ \A l \in Line : status[l] \in {"open", "dead"} <=> InUse(l)
    /\ \A l \in Line : status[l] # "open" => down[l] = <<>>
    /\ \A l \in Line : status[l] = "free" => l \notin bound /\ up[l] = <<>>
    /\ \A l \in Line \ bound : up[l] \in {<<>>, <<Join>>} /\ down[l] = <<>>
    /\ \A l \in Line \ bound : status[l] = "open" => page[l[1]] = "joining"
    /\ \A v \in Voter : page[v] = "off" =>
          view[v] = NoRoom /\ opened[v] = {} /\ ~addSent[v]

(* What is on the way to the server.                                       *)
Carries(l, m) == \E i \in 1..Len(up[l]) : up[l][i] = m
Once(l, m)    == \A i, j \in 1..Len(up[l]) : up[l][i] = m /\ up[l][j] = m => i = j

(* Rounds that are added, or may be without another visit.                 *)
Owed   == {l \in Line : Carries(l, Add) \/ (InUse(l) /\ ~addSent[l[1]])}
Queued == {x \in Round : story[x] # "absent"}

(* A page adds one round at the most, and each page is a visit.            *)
AddsInv ==
    /\ \A l \in Line : Once(l, Add) /\ (Carries(l, Add) /\ InUse(l) => addSent[l[1]])
    /\ IsFiniteSet(Owed)
    /\ Cardinality(Owed) + Cardinality(Queued) <= visits

Base == TypeInv /\ LinesInv /\ AddsInv

(* A page's line is one.                                                   *)
LEMMA LinePairs ==
    /\ \A l \in Line : l = <<l[1], l[2]>> /\ l[1] \in Voter /\ l[2] \in {1, 2}
    /\ \A v \in Voter, i \in {1, 2} : /\ <<v, i>> \in Line
                                      /\ <<v, i>>[1] = v /\ <<v, i>>[2] = i
  BY DEF Line

(* The line of a page, and of no other.                                    *)
LEMMA OwnLine ==
    ASSUME TypeInv, NEW v \in Voter
    PROVE  /\ LineOf(v) \in Line /\ LineOf(v)[1] = v /\ LineOf(v)[2] = line[v]
           /\ \A l \in Line : l[1] = v /\ l[2] = line[v] => l = LineOf(v)
<1>1. line[v] \in {1, 2}
  BY DEF TypeInv, AutoTypeOK
<1>2. LineOf(v) \in Line /\ LineOf(v)[1] = v /\ LineOf(v)[2] = line[v]
  BY <1>1, LinePairs DEF LineOf
<1>3. ASSUME NEW l \in Line, l[1] = v, l[2] = line[v]
      PROVE  l = LineOf(v)
  BY <1>3, LinePairs DEF LineOf
<1> QED  BY <1>2, <1>3

(* The messages that are sent are messages.                                *)
LEMMA Messages ==
    /\ Join \in UpMsg /\ Claim \in UpMsg /\ Add \in UpMsg
    /\ \A x \in Round : Reveal(x) \in UpMsg
    /\ \A x \in Round : Open(x, "click") \in UpMsg /\ Open(x, "effect") \in UpMsg
    /\ \A v \in Voter : HostIs(v) \in DownMsg
    /\ IsVacant \in DownMsg
    /\ \A x \in Round, to \in {"pending", "active", "revealed"} : Becomes(x, to) \in DownMsg
  BY DEF UpMsg, DownMsg, HostIs, IsVacant, Becomes

(* Which message is which.                                                 *)
LEMMA MessageTypes ==
    /\ Join.type = "JOIN_ROOM" /\ Claim.type = "CLAIM_HOST" /\ Add.type = "ADD_STORY"
    /\ \A x \in Round : Reveal(x).type = "REVEAL_VOTES" /\ Reveal(x).round = x
    /\ \A x \in Round, by \in {"effect", "click"} :
          /\ Open(x, by).type = "OPEN_VOTING" /\ Open(x, by).round = x /\ Open(x, by).by = by
  BY DEF Join, Claim, Add, Reveal, Open

(* A message's type tells what it is.                                      *)
LEMMA UpKinds ==
    ASSUME NEW m \in UpMsg
    PROVE  /\ m.type = "JOIN_ROOM" => m = Join
           /\ m.type = "CLAIM_HOST" => m = Claim
           /\ m.type = "ADD_STORY" => m = Add
           /\ m.type = "OPEN_VOTING" => /\ m.round \in Round /\ m.by \in {"effect", "click"}
                                        /\ m = Open(m.round, m.by)
           /\ m.type = "REVEAL_VOTES" => m.round \in Round /\ m = Reveal(m.round)
  BY MessageTypes DEF UpMsg

(* A queue and a message more or less.                                     *)
LEMMA Appended ==
    ASSUME NEW M, NEW s \in Seq(M), NEW m \in M
    PROVE  /\ Append(s, m) \in Seq(M) /\ Len(Append(s, m)) = Len(s) + 1 /\ Len(s) \in Nat
           /\ \A i \in 1..Len(s) : Append(s, m)[i] = s[i]
           /\ Append(s, m)[Len(s) + 1] = m
  OBVIOUS

(* A page that sends puts one message on its line, if that is open.        *)
LEMMA SentUp ==
    ASSUME TypeInv, NEW v \in Voter, NEW m \in UpMsg, Sends(v, m)
    PROVE  /\ up' \in [Line -> Seq(UpMsg)] /\ \A l \in Line : Len(up'[l]) <= MaxUp
           /\ \A l \in Line : l # LineOf(v) => up'[l] = up[l]
           /\ status[LineOf(v)] # "open" => up' = up
           /\ status[LineOf(v)] = "open" => up'[LineOf(v)] = Append(up[LineOf(v)], m)
<1> DEFINE l == LineOf(v)
<1>1. l \in Line
  BY OwnLine
<1>2. /\ Len(up[l]) < MaxUp
      /\ up' = [up EXCEPT ![l] = IF status[l] = "open" THEN Append(up[l], m) ELSE up[l]]
  BY DEF Sends
<1>3. up[l] \in Seq(UpMsg) /\ Append(up[l], m) \in Seq(UpMsg)
      /\ Len(Append(up[l], m)) = Len(up[l]) + 1 /\ Len(up[l]) \in Nat
  BY <1>1, Appended DEF TypeInv
<1> HIDE DEF l
<1>4. MaxUp \in Nat
  BY AutoAssumption
<1>5. \A k \in Line : up'[k] = IF k = l /\ status[l] = "open" THEN Append(up[l], m) ELSE up[k]
  BY <1>1, <1>2 DEF TypeInv
<1>6. up' \in [Line -> Seq(UpMsg)] /\ (status[l] # "open" => up' = up)
  BY <1>1, <1>2, <1>3 DEF TypeInv
<1>7. \A k \in Line : Len(up'[k]) <= MaxUp
  BY <1>2, <1>3, <1>4, <1>5 DEF TypeInv, AutoTypeOK
<1> QED  BY <1>1, <1>5, <1>6, <1>7 DEF l

(* What the server sends, line by line.                                    *)
LEMMA SentDown ==
    ASSUME TypeInv, NEW lines, NEW m \in DownMsg
    PROVE  LET f == SentTo(lines, m)
           IN  /\ f \in [Line -> Seq(DownMsg)]
               /\ \A l \in Line : /\ f[l] = IF l \in lines /\ status[l] = "open"
                                            THEN Append(down[l], m) ELSE down[l]
                                  /\ Len(f[l]) <= Len(down[l]) + 1
<1>1. \A l \in Line : /\ down[l] \in Seq(DownMsg) /\ Len(down[l]) \in Nat
                      /\ Append(down[l], m) \in Seq(DownMsg)
                      /\ Len(Append(down[l], m)) = Len(down[l]) + 1
  BY Appended DEF TypeInv
<1> QED  BY <1>1 DEF SentTo

-----------------------------------------------------------------------------
(* A line's messages after a step.                                         *)

(* Nothing changes on it.                                                  *)
LEMMA LineSame ==
    ASSUME NEW l, NEW n, up'[l] = up[l]
    PROVE  (Carries(l, n)' <=> Carries(l, n)) /\ (Once(l, n)' <=> Once(l, n))
  BY DEF Carries, Once

(* It is empty now.                                                        *)
LEMMA LineCleared ==
    ASSUME NEW l, NEW n, up'[l] = <<>>
    PROVE  ~Carries(l, n)' /\ Once(l, n)'
<1>1. 1..Len(up'[l]) = {}
  OBVIOUS
<1> QED  BY <1>1 DEF Carries, Once

(* It has one message now.                                                 *)
LEMMA LineSingle ==
    ASSUME NEW l, NEW m, NEW n, m # n, up'[l] = <<m>>
    PROVE  ~Carries(l, n)' /\ Once(l, n)'
<1>1. \A i \in 1..Len(up'[l]) : up'[l][i] = m
  OBVIOUS
<1> QED  BY <1>1 DEF Carries, Once

(* Its first message is taken.                                             *)
LEMMA LineTail ==
    ASSUME NEW l, NEW n, up[l] \in Seq(UpMsg), up[l] # <<>>, up'[l] = Tail(up[l])
    PROVE  /\ Carries(l, n)' => Carries(l, n)
           /\ Once(l, n) => Once(l, n)'
           /\ Carries(l, Head(up[l]))
           /\ Once(l, n) /\ Head(up[l]) = n => ~Carries(l, n)'
<1>1. /\ Len(up[l]) \in Nat \ {0} /\ Len(up'[l]) = Len(up[l]) - 1 /\ up[l][1] = Head(up[l])
      /\ \A i \in 1..Len(up'[l]) : up'[l][i] = up[l][i + 1]
  BY HeadTailProperties
<1> QED  BY <1>1 DEF Carries, Once

(* A message is put on it.                                                 *)
LEMMA LineAppended ==
    ASSUME NEW l, NEW n, NEW m \in UpMsg, up[l] \in Seq(UpMsg), up'[l] = Append(up[l], m)
    PROVE  /\ Carries(l, n)' <=> Carries(l, n) \/ m = n
           /\ Once(l, n) /\ (m = n => ~Carries(l, n)) => Once(l, n)'
<1>1. /\ Len(up[l]) \in Nat /\ Len(up'[l]) = Len(up[l]) + 1 /\ up'[l][Len(up[l]) + 1] = m
      /\ \A i \in 1..Len(up[l]) : up'[l][i] = up[l][i]
  BY Appended
<1> QED  BY <1>1 DEF Carries, Once

-----------------------------------------------------------------------------
(* Rounds.                                                                 *)

(* There are as many as visits.                                            *)
LEMMA RoundsFinite == IsFiniteSet(Round) /\ Cardinality(Round) = Visits /\ Visits \in Nat
  BY FS_Interval, AutoAssumption DEF Round

(* A round is left for every one that is on its way.                       *)
LEMMA RoundLeft ==
    ASSUME Base, NEW l \in Line, Carries(l, Add)
    PROVE  \E x \in Round : story[x] = "absent"
<1> SUFFICES ASSUME \A x \in Round : story[x] # "absent" PROVE FALSE
  OBVIOUS
<1>1. Queued = Round
  BY DEF Queued
<1>2. IsFiniteSet(Owed) /\ l \in Owed
  BY DEF Base, AddsInv, Owed
<1>3. Cardinality(Owed) \in Nat /\ Cardinality(Owed) # 0
  BY <1>2, FS_CardinalityType, FS_EmptySet
<1>4. visits \in 0..Visits /\ Cardinality(Owed) + Cardinality(Queued) <= visits
  BY DEF Base, TypeInv, AutoTypeOK, AddsInv
<1> QED  BY <1>1, <1>3, <1>4, RoundsFinite

(* A set of rounds has a first one.                                        *)
LEMMA FirstOf ==
    ASSUME NEW S \in SUBSET Round, S # {}
    PROVE  Min(S) \in S
<1>1. \A x \in Round : x \in {1, 2, 3}
  BY AutoAssumption DEF Round
<1>2. \E x \in S : \A y \in S : x <= y
  BY <1>1
<1> QED  BY <1>2 DEF Min

(* Nothing is added.                                                       *)
LEMMA CountsKept ==
    ASSUME Base, Owed' \subseteq Owed, Queued' = Queued, visits' = visits
    PROVE  IsFiniteSet(Owed') /\ Cardinality(Owed') + Cardinality(Queued') <= visits'
<1>1. IsFiniteSet(Owed) /\ Cardinality(Owed) + Cardinality(Queued) <= visits
  BY DEF Base, AddsInv
<1>2. IsFiniteSet(Owed') /\ Cardinality(Owed') <= Cardinality(Owed)
  BY <1>1, FS_Subset
<1>3. Cardinality(Owed) \in Nat /\ Cardinality(Owed') \in Nat
  BY <1>1, <1>2, FS_CardinalityType
<1>4. IsFiniteSet(Queued)
  BY RoundsFinite, FS_Subset DEF Queued
<1>5. Cardinality(Queued) \in Nat /\ visits \in Nat
  BY <1>4, FS_CardinalityType DEF Base, TypeInv, AutoTypeOK
<1> QED  BY <1>1, <1>2, <1>3, <1>5

-----------------------------------------------------------------------------
(* Types and lines, page by page.                                          *)

(* A visit takes a free line and puts a JOIN_ROOM on it.                   *)
LEMMA VisitLines ==
    ASSUME Base, NEW v \in Voter, Visit(v)
    PROVE  TypeInv' /\ LinesInv'
<1> USE DEF Base
<1>1. PICK i \in {1, 2} :
         /\ status[<<v, i>>] = "free"
         /\ line' = [line EXCEPT ![v] = i]
         /\ status' = [status EXCEPT ![<<v, i>>] = "open"]
         /\ up' = [up EXCEPT ![<<v, i>>] = <<Join>>]
  BY DEF Visit
<1> DEFINE l == <<v, i>>
<1>2. l \in Line /\ l[1] = v /\ l[2] = i /\ \A k \in Line : k[1] = v /\ k[2] = i => k = l
  BY LinePairs
<1>3. /\ page[v] = "off" /\ visits < Visits /\ visits' = visits + 1
      /\ page' = [page EXCEPT ![v] = "joining"]
      /\ UNCHANGED <<vacant, hostId, story, bound, joined, view, addSent, opened, down>>
  BY DEF Visit, serverVars
<1>4. <<Join>> \in Seq(UpMsg) /\ Len(<<Join>>) = 1
  BY Messages
<1> HIDE DEF l
<1>5. TypeInv'
  <2>1. view[v].host = NoVoter
    BY <1>3 DEF TypeInv, AutoTypeOK
  <2> QED  BY <1>1, <1>2, <1>3, <1>4, <2>1, AutoAssumption DEF TypeInv, AutoTypeOK, l
<1>6. \A k \in Line : /\ status'[k] = IF k = l THEN "open" ELSE status[k]
                      /\ up'[k] = IF k = l THEN <<Join>> ELSE up[k]
                      /\ InUse(k)' <=> IF k[1] = v THEN k = l ELSE InUse(k)
  BY <1>1, <1>2, <1>3, LinePairs DEF TypeInv, AutoTypeOK, InUse, l
<1>7. \A k \in Line : k[1] = v => ~InUse(k)
  BY <1>3 DEF InUse
<1>8. \A w \in Voter : page'[w] = IF w = v THEN "joining" ELSE page[w]
  BY <1>3 DEF TypeInv, AutoTypeOK
<1>9. l \notin bound /\ status[l] = "free" /\ down[l] = <<>>
  BY <1>1, <1>2 DEF l, LinesInv
<1> QED  BY <1>2, <1>3, <1>5, <1>6, <1>7, <1>8, <1>9 DEF LinesInv

(* A lost line takes nothing any more; the server keeps what it has.       *)
LEMMA LoseLines ==
    ASSUME Base, NEW v \in Voter, Lose(v)
    PROVE  TypeInv' /\ LinesInv'
<1> USE DEF Base
<1> DEFINE l == LineOf(v)
<1>1. l \in Line /\ l[1] = v /\ l[2] = line[v] /\ \A k \in Line : k[1] = v /\ k[2] = line[v] => k = l
  BY OwnLine
<1>2. /\ page[v] # "off"
      /\ page' = [page EXCEPT ![v] = "off"]
      /\ status' = [status EXCEPT ![l] = "lost"]
      /\ down' = [down EXCEPT ![l] = <<>>]
      /\ view' = [view EXCEPT ![v] = NoRoom]
      /\ addSent' = [addSent EXCEPT ![v] = FALSE]
      /\ opened' = [opened EXCEPT ![v] = {}]
      /\ UNCHANGED <<vacant, hostId, story, bound, joined, line, visits, up>>
  BY DEF Lose, serverVars
<1> HIDE DEF l
<1>3. TypeInv'
  <2>1. NoRoom \in View /\ NoRoom.host = NoVoter
    BY DEF NoRoom, NoStory, View
  <2>2. <<>> \in Seq(DownMsg) /\ Len(<<>>) = 0 /\ MaxDown \in Nat
    BY AutoAssumption
  <2> QED  BY <1>1, <1>2, <2>1, <2>2 DEF TypeInv, AutoTypeOK
<1>4. \A k \in Line : /\ status'[k] = IF k = l THEN "lost" ELSE status[k]
                      /\ down'[k] = IF k = l THEN <<>> ELSE down[k]
                      /\ InUse(k)' <=> InUse(k) /\ k # l
  BY <1>1, <1>2, LinePairs DEF TypeInv, AutoTypeOK, InUse
<1>5. \A w \in Voter : /\ page'[w] = IF w = v THEN "off" ELSE page[w]
                       /\ view'[w] = IF w = v THEN NoRoom ELSE view[w]
                       /\ opened'[w] = IF w = v THEN {} ELSE opened[w]
                       /\ addSent'[w] = IF w = v THEN FALSE ELSE addSent[w]
  BY <1>2 DEF TypeInv, AutoTypeOK
<1>6. \A k \in Line : k # l /\ k[1] = v => ~InUse(k)
  BY <1>1 DEF InUse
<1>7. InUse(l) /\ bound' = bound /\ up' = up
  BY <1>1, <1>2 DEF InUse
<1>8. \A k \in Line : status'[k] = "open" => page'[k[1]] = page[k[1]]
  <2> SUFFICES ASSUME NEW k \in Line, status'[k] = "open" PROVE page'[k[1]] = page[k[1]]
    OBVIOUS
  <2>1. k # l /\ status[k] = "open"
    BY <1>4
  <2>2. InUse(k)
    BY <2>1 DEF LinesInv
  <2> QED  BY <1>5, <1>6, <2>1, <2>2, LinePairs
<1>9. \A k \in Line : status'[k] \in {"open", "dead"} <=> InUse(k)'
  BY <1>4, <1>7 DEF LinesInv
<1>10. \A k \in Line : status'[k] # "open" => down'[k] = <<>>
  BY <1>4 DEF LinesInv
<1>11. \A k \in Line : status'[k] = "free" => k \notin bound' /\ up'[k] = <<>>
  BY <1>4, <1>7 DEF LinesInv
<1>12. \A k \in Line \ bound' : up'[k] \in {<<>>, <<Join>>} /\ down'[k] = <<>>
  BY <1>4, <1>7 DEF LinesInv
<1>13. \A k \in Line \ bound' : status'[k] = "open" => page'[k[1]] = "joining"
  BY <1>4, <1>7, <1>8 DEF LinesInv
<1>14. \A w \in Voter : page'[w] = "off" =>
          view'[w] = NoRoom /\ opened'[w] = {} /\ ~addSent'[w]
  BY <1>5 DEF LinesInv
<1> QED  BY <1>3, <1>9, <1>10, <1>11, <1>12, <1>13, <1>14 DEF LinesInv

(* A message is folded into the store of its page.                         *)
LEMMA DeliverLines ==
    ASSUME Base, NEW v \in Voter, Deliver(v)
    PROVE  TypeInv' /\ LinesInv'
<1> USE DEF Base
<1> DEFINE l == LineOf(v)
           m == Head(down[l])
<1>1. l \in Line /\ l[1] = v /\ l[2] = line[v] /\ \A k \in Line : k[1] = v /\ k[2] = line[v] => k = l
  BY OwnLine
<1>2. /\ page[v] # "off" /\ down[l] # <<>>
      /\ view' = [view EXCEPT ![v] = Folded(view[v], m)]
      /\ page' = [page EXCEPT ![v] = IF m.type = "SNAPSHOT_RESPONSE" THEN "on" ELSE page[v]]
      /\ down' = [down EXCEPT ![l] = Tail(down[l])]
      /\ UNCHANGED <<vacant, hostId, story, bound, joined, line, addSent, opened, visits,
                     status, up>>
  BY DEF Deliver, serverVars
<1> HIDE DEF l
<1>3. /\ down[l] \in Seq(DownMsg) /\ m \in DownMsg /\ Tail(down[l]) \in Seq(DownMsg)
      /\ Len(Tail(down[l])) = Len(down[l]) - 1 /\ Len(down[l]) \in Nat
  <2>1. down[l] \in Seq(DownMsg)
    BY <1>1 DEF TypeInv
  <2> QED  BY <1>2, <2>1, HeadTailProperties
<1> HIDE DEF m
<1>4. l \in bound
  BY <1>1, <1>2 DEF LinesInv
<1>5. TypeInv'
  <2>1. /\ Folded(view[v], m) \in View
        /\ m.type = "SNAPSHOT_RESPONSE" => Folded(view[v], m).host \in Voter
        /\ m.type # "SNAPSHOT_RESPONSE" => (Folded(view[v], m).host = NoVoter <=> view[v].host = NoVoter)
    BY <1>3, FoldedTyped DEF TypeInv, AutoTypeOK
  <2>2. \A w \in Voter : page'[w] = "on" <=> view'[w].host # NoVoter
    BY <1>2, <2>1, AutoAssumption DEF TypeInv, AutoTypeOK
  <2>3. \A k \in Line : Len(up'[k]) <= MaxUp /\ Len(down'[k]) <= MaxDown
    BY <1>1, <1>2, <1>3, AutoAssumption DEF TypeInv, AutoTypeOK
  <2> QED  BY <1>1, <1>2, <1>3, <2>1, <2>2, <2>3 DEF TypeInv, AutoTypeOK
<1>6. \A k \in Line : /\ down'[k] = IF k = l THEN Tail(down[l]) ELSE down[k]
                      /\ InUse(k)' <=> InUse(k)
  BY <1>1, <1>2, LinePairs DEF TypeInv, AutoTypeOK, InUse
<1>7. \A w \in Voter : /\ page'[w] = "off" <=> page[w] = "off"
                       /\ w # v => page'[w] = page[w] /\ view'[w] = view[w]
  BY <1>2 DEF TypeInv, AutoTypeOK
<1>8. status[l] = "open"
  BY <1>1, <1>2 DEF LinesInv
<1>9. \A k \in Line \ bound : status[k] = "open" => page'[k[1]] = "joining"
  <2> SUFFICES ASSUME NEW k \in Line \ bound, status[k] = "open"
               PROVE  page'[k[1]] = "joining"
    OBVIOUS
  <2>1. k # l /\ InUse(k)
    BY <1>4 DEF LinesInv
  <2>2. k[1] # v /\ k[1] \in Voter
    BY <1>1, <2>1, LinePairs DEF InUse
  <2> QED  BY <1>7, <2>2 DEF LinesInv
<1> QED  BY <1>1, <1>2, <1>4, <1>5, <1>6, <1>7, <1>8, <1>9 DEF LinesInv

(* A page that is on sends something.                                      *)
LEMMA SendLines ==
    ASSUME Base, NEW v \in Voter, NEW m \in UpMsg, Sends(v, m), page[v] = "on",
           UNCHANGED <<serverVars, page, line, view, visits, status, down>>,
           addSent' \in [Voter -> BOOLEAN], opened' \in [Voter -> SUBSET Round],
           \A w \in Voter \ {v} : addSent'[w] = addSent[w] /\ opened'[w] = opened[w]
    PROVE  TypeInv' /\ LinesInv'
<1> USE DEF Base
<1>1. /\ up' \in [Line -> Seq(UpMsg)] /\ \A l \in Line : Len(up'[l]) <= MaxUp
      /\ \A l \in Line : l # LineOf(v) => up'[l] = up[l]
      /\ status[LineOf(v)] # "open" => up' = up
  BY SentUp
<1>2. LineOf(v) \in Line /\ LineOf(v)[1] = v
  BY OwnLine
<1>3. TypeInv'
  BY <1>1 DEF TypeInv, AutoTypeOK, serverVars
<1>4. \A l \in Line : InUse(l)' <=> InUse(l)
  BY DEF InUse
<1>5. \A l \in Line : up'[l] = up[l] \/ (l = LineOf(v) /\ status[l] = "open" /\ l \in bound)
  BY <1>1, <1>2 DEF LinesInv
<1> QED  BY <1>3, <1>4, <1>5 DEF LinesInv, serverVars

-----------------------------------------------------------------------------
(* Types and lines, the server's steps.                                    *)

(* What is received on a line nobody is bound to is a JOIN.                *)
LEMMA FirstUp ==
    ASSUME Base, NEW l \in Line, up[l] # <<>>
    PROVE  /\ up[l] \in Seq(UpMsg) /\ Head(up[l]) \in UpMsg /\ Tail(up[l]) \in Seq(UpMsg)
           /\ Len(up[l]) \in Nat /\ Len(Tail(up[l])) = Len(up[l]) - 1
           /\ Carries(l, Head(up[l]))
           /\ l \notin bound => Head(up[l]) = Join /\ Tail(up[l]) = <<>>
           /\ status[l] # "free"
<1>1. up[l] \in Seq(UpMsg)
  BY DEF Base, TypeInv
<1>2. /\ Head(up[l]) \in UpMsg /\ Tail(up[l]) \in Seq(UpMsg)
      /\ Len(up[l]) \in Nat \ {0} /\ Len(Tail(up[l])) = Len(up[l]) - 1
      /\ Head(up[l]) = up[l][1]
  BY <1>1, HeadTailProperties
<1>3. Carries(l, Head(up[l]))
  BY <1>2 DEF Carries
<1>4. ASSUME l \notin bound
      PROVE  Head(up[l]) = Join /\ Tail(up[l]) = <<>>
  <2>1. up[l] = <<Join>>
    BY <1>4 DEF Base, LinesInv
  <2> QED  BY <2>1
<1>5. status[l] # "free"
  BY DEF Base, LinesInv
<1> QED  BY <1>1, <1>2, <1>3, <1>4, <1>5

(* The server's handlers, by the message that each is for.                 *)
LEMMA ReceiveCases ==
    ASSUME Base, NEW l \in Line, Receive(l), NEW P,
           Head(up[l]) = Join /\ ServeJoin(l) => P,
           l \in bound /\ Head(up[l]) = Claim /\ ServeClaim(l) => P,
           l \in bound /\ Head(up[l]) = Add /\ ServeAdd(l) => P,
           \A x \in Round, by \in {"effect", "click"} :
              l \in bound /\ Head(up[l]) = Open(x, by) /\ ServeOpen(l, x) => P,
           \A x \in Round : l \in bound /\ Head(up[l]) = Reveal(x) /\ ServeReveal(l, x) => P,
           l \in bound /\ UNCHANGED <<serverVars, down>> => P
    PROVE  P
<1> DEFINE m == Head(up[l])
<1>1. /\ up[l] # <<>>
      /\ \/ m.type = "JOIN_ROOM"    /\ ServeJoin(l)
         \/ m.type = "CLAIM_HOST"   /\ ServeClaim(l)
         \/ m.type = "ADD_STORY"    /\ ServeAdd(l)
         \/ m.type = "OPEN_VOTING"  /\ ServeOpen(l, m.round)
         \/ m.type = "REVEAL_VOTES" /\ ServeReveal(l, m.round)
         \/ ServeError(l, m)
  BY DEF Receive
<1>2. m \in UpMsg /\ (l \notin bound => m = Join)
  BY <1>1, FirstUp
<1> HIDE DEF m
<1>3. CASE m.type = "JOIN_ROOM" /\ ServeJoin(l)
  BY <1>2, <1>3, UpKinds, Zenon DEF m
<1>4. CASE m.type = "CLAIM_HOST" /\ ServeClaim(l)
  <2>1. m = Claim /\ l \in bound
    BY <1>2, <1>4, UpKinds, MessageTypes
  <2> QED  BY <1>4, <2>1 DEF m
<1>5. CASE m.type = "ADD_STORY" /\ ServeAdd(l)
  <2>1. m = Add /\ l \in bound
    BY <1>2, <1>5, UpKinds, MessageTypes
  <2> QED  BY <1>5, <2>1 DEF m
<1>6. CASE m.type = "OPEN_VOTING" /\ ServeOpen(l, m.round)
  <2>1. m = Open(m.round, m.by) /\ m.round \in Round /\ m.by \in {"effect", "click"} /\ l \in bound
    BY <1>2, <1>6, UpKinds, MessageTypes
  <2> QED  BY <1>6, <2>1 DEF m
<1>7. CASE m.type = "REVEAL_VOTES" /\ ServeReveal(l, m.round)
  <2>1. m = Reveal(m.round) /\ m.round \in Round /\ l \in bound
    BY <1>2, <1>7, UpKinds, MessageTypes
  <2> QED  BY <1>7, <2>1 DEF m
<1>8. CASE ServeError(l, m)
  <2>1. m # Join
    BY <1>8, MessageTypes DEF ServeError
  <2> QED  BY <1>2, <1>8, <2>1 DEF ServeError
<1> QED  BY <1>1, <1>3, <1>4, <1>5, <1>6, <1>7, <1>8

(* A snapshot is a message; rounds that wait are not in it.                *)
LEMMA SnapshotTyped ==
    ASSUME TypeInv, vacant' \in BOOLEAN
    PROVE  /\ Snapshot \in DownMsg /\ Snapshot.type = "SNAPSHOT_RESPONSE"
           /\ Snapshot.view.host = hostId /\ Snapshot.view.vacant = vacant'
           /\ \A x \in Round : Snapshot.view.story[x] = IF story[x] = "pending" THEN "absent"
                                                                           ELSE story[x]
<1> DEFINE s == [x \in Round |-> IF story[x] = "pending" THEN "absent" ELSE story[x]]
<1>1. /\ s \in [Round -> {"absent", "pending", "active", "revealed"}]
      /\ \A x \in Round : s[x] = IF story[x] = "pending" THEN "absent" ELSE story[x]
  BY DEF TypeInv, AutoTypeOK
<1>2. hostId \in Voter
  BY DEF TypeInv, AutoTypeOK
<1> HIDE DEF s
<1>3. Snapshot = [type |-> "SNAPSHOT_RESPONSE",
                  view |-> [host |-> hostId, vacant |-> vacant', story |-> s]]
  BY DEF Snapshot, s
<1> QED  BY <1>1, <1>2, <1>3 DEF DownMsg, View

(* The lines after the server has sent up to two messages.                 *)
LEMMA JoinDown ==
    ASSUME TypeInv, NEW l \in Line, ServeJoin(l)
    PROVE  /\ vacant' \in BOOLEAN
           /\ down' \in [Line -> Seq(DownMsg)]
           /\ \A k \in Line : Len(down'[k]) <= Len(down[k]) + 2
           /\ \A k \in Line : down'[k] = down[k] \/ (k \in bound' /\ status[k] = "open")
           /\ LET told == IF vacant' # vacant THEN SentTo(bound', HostIs(hostId)) ELSE down
              IN  \A k \in Line :
                     down'[k] = IF k = l /\ status[k] = "open" THEN Append(told[k], Snapshot)
                                                             ELSE told[k]
<1> DEFINE told == IF vacant' # vacant THEN SentTo(bound', HostIs(hostId)) ELSE down
<1>1. /\ bound' = bound \cup {l} /\ vacant' \in BOOLEAN
      /\ down' = [told EXCEPT ![l] = IF status[l] = "open" THEN Append(told[l], Snapshot)
                                                           ELSE told[l]]
  BY DEF ServeJoin, TypeInv, AutoTypeOK
<1>2. HostIs(hostId) \in DownMsg /\ Snapshot \in DownMsg
  BY <1>1, Messages, SnapshotTyped DEF TypeInv, AutoTypeOK
<1>3. /\ told \in [Line -> Seq(DownMsg)]
      /\ \A k \in Line : /\ Len(told[k]) <= Len(down[k]) + 1 /\ Len(down[k]) \in Nat
                         /\ told[k] = down[k] \/ (k \in bound' /\ status[k] = "open")
  <2>1. \A k \in Line : Len(down[k]) \in Nat
    BY DEF TypeInv
  <2>2. CASE vacant' # vacant
    BY <1>2, <2>1, <2>2, SentDown
  <2>3. CASE vacant' = vacant
    BY <2>1, <2>3 DEF TypeInv
  <2> QED  BY <2>2, <2>3
<1> HIDE DEF told
<1>4. \A k \in Line : /\ Append(told[k], Snapshot) \in Seq(DownMsg)
                      /\ Len(Append(told[k], Snapshot)) = Len(told[k]) + 1 /\ Len(told[k]) \in Nat
  BY <1>2, <1>3, Appended
<1>5. \A k \in Line : down'[k] = IF k = l /\ status[k] = "open" THEN Append(told[k], Snapshot)
                                                              ELSE told[k]
  BY <1>1, <1>3
<1>6. down' \in [Line -> Seq(DownMsg)]
  BY <1>1, <1>3, <1>4
<1>7. ASSUME NEW k \in Line
      PROVE  Len(down'[k]) <= Len(down[k]) + 2
  <2>1. down'[k] = told[k] \/ down'[k] = Append(told[k], Snapshot)
    BY <1>5
  <2>2. Len(down'[k]) <= Len(told[k]) + 1
    BY <1>4, <2>1
  <2> QED  BY <1>3, <1>4, <1>6, <2>2
<1>8. \A k \in Line : down'[k] = down[k] \/ (k \in bound' /\ status[k] = "open")
  BY <1>1, <1>3, <1>5
<1> QED  BY <1>1, <1>5, <1>6, <1>7, <1>8 DEF told

(* The lines after the server has told some of one thing.                  *)
LEMMA ToldLines ==
    ASSUME TypeInv, NEW lines \in SUBSET bound, NEW m \in DownMsg, down' = SentTo(lines, m)
    PROVE  /\ down' \in [Line -> Seq(DownMsg)]
           /\ \A k \in Line : Len(down'[k]) <= Len(down[k]) + 2
           /\ \A k \in Line : down'[k] = down[k] \/ (k \in bound /\ status[k] = "open")
<1>1. \A k \in Line : Len(down[k]) \in Nat
  BY DEF TypeInv
<1>2. \A k \in Line : down'[k] \in Seq(DownMsg) => Len(down'[k]) \in Nat
  OBVIOUS
<1> QED  BY <1>1, <1>2, SentDown

(* What a message can do to the server's tables and to the lines.          *)
LEMMA Received ==
    ASSUME Base, NEW l \in Line, Receive(l)
    PROVE  /\ up[l] # <<>> /\ up' = [up EXCEPT ![l] = Tail(up[l])]
           /\ UNCHANGED <<pageVars, status>>
           /\ vacant' \in BOOLEAN /\ hostId' \in Voter /\ joined' \subseteq Voter
           /\ story' \in [Round -> {"absent", "pending", "active", "revealed"}]
           /\ bound' = bound \cup {l}
           /\ down' \in [Line -> Seq(DownMsg)]
           /\ \A k \in Line : Len(down'[k]) <= Len(down[k]) + 2
           /\ \A k \in Line : down'[k] = down[k] \/ (k \in bound' /\ status[k] = "open")
<1> USE DEF Base
<1> DEFINE P == /\ vacant' \in BOOLEAN /\ hostId' \in Voter /\ joined' \subseteq Voter
                /\ story' \in [Round -> {"absent", "pending", "active", "revealed"}]
                /\ bound' = bound \cup {l}
                /\ down' \in [Line -> Seq(DownMsg)]
                /\ \A k \in Line : Len(down'[k]) <= Len(down[k]) + 2
                /\ \A k \in Line : down'[k] = down[k] \/ (k \in bound' /\ status[k] = "open")
<1>1. up[l] # <<>> /\ up' = [up EXCEPT ![l] = Tail(up[l])] /\ UNCHANGED <<pageVars, status>>
  BY DEF Receive
<1>2. /\ vacant \in BOOLEAN /\ hostId \in Voter /\ joined \subseteq Voter /\ l[1] \in Voter
      /\ story \in [Round -> {"absent", "pending", "active", "revealed"}]
      /\ bound \subseteq Line
  BY LinePairs DEF TypeInv, AutoTypeOK
<1>3. ASSUME ServeJoin(l)
      PROVE  P
  <2>1. bound' = bound \cup {l} /\ joined' = joined \cup {l[1]} /\ hostId' = hostId /\ story' = story
    BY <1>3 DEF ServeJoin
  <2> QED  BY <1>2, <1>3, <2>1, JoinDown
<1>4. ASSUME l \in bound, ServeClaim(l)
      PROVE  P
  <2>1. /\ vacant' = FALSE /\ hostId' = IF vacant THEN l[1] ELSE hostId
        /\ down' = SentTo(IF vacant THEN bound ELSE {l}, HostIs(hostId'))
        /\ story' = story /\ bound' = bound /\ joined' = joined
    BY <1>4 DEF ServeClaim
  <2>2. hostId' \in Voter /\ HostIs(hostId') \in DownMsg
    BY <1>2, <2>1, Messages
  <2> QED  BY <1>2, <1>4, <2>1, <2>2, ToldLines
<1>5. ASSUME l \in bound, Head(up[l]) = Add, ServeAdd(l)
      PROVE  P
  <2> DEFINE S == {y \in Round : story[y] = "absent"}
  <2>1. Carries(l, Add)
    BY <1>1, <1>5, FirstUp
  <2>2. Min(S) \in S
    BY <2>1, RoundLeft, FirstOf
  <2>3. /\ story' = [story EXCEPT ![Min(S)] = "pending"]
        /\ down' = SentTo(bound, Becomes(Min(S), "pending"))
        /\ vacant' = vacant /\ hostId' = hostId /\ bound' = bound /\ joined' = joined
    BY <1>5 DEF ServeAdd
  <2>4. Min(S) \in Round /\ Becomes(Min(S), "pending") \in DownMsg
    BY <2>2, Messages
  <2> HIDE DEF S
  <2> QED  BY <1>2, <1>5, <2>3, <2>4, ToldLines
<1>6. ASSUME NEW x \in Round, l \in bound, ServeOpen(l, x) \/ ServeReveal(l, x)
      PROVE  P
  <2>1. PICK to \in {"active", "revealed"} :
          /\ story' = [story EXCEPT ![x] = to] /\ down' = SentTo(bound, Becomes(x, to))
          /\ vacant' = vacant /\ hostId' = hostId /\ bound' = bound /\ joined' = joined
    BY <1>6 DEF ServeOpen, ServeReveal
  <2>2. Becomes(x, to) \in DownMsg
    BY Messages
  <2> QED  BY <1>2, <1>6, <2>1, <2>2, ToldLines
<1>7. ASSUME l \in bound, UNCHANGED <<serverVars, down>>
      PROVE  P
  <2>1. \A k \in Line : Len(down[k]) \in Nat
    BY DEF TypeInv
  <2> QED  BY <1>2, <1>7, <2>1 DEF serverVars, TypeInv
<1> HIDE DEF P
<1>8. P
  BY <1>3, <1>4, <1>5, <1>6, <1>7, ReceiveCases
<1> QED  BY <1>1, <1>8 DEF P

(* Types and lines after the server has handled a message.                 *)
LEMMA ReceiveLines ==
    ASSUME Base, NEW l \in Line, Receive(l)
    PROVE  TypeInv' /\ LinesInv'
<1> USE DEF Base
<1>1. /\ up[l] # <<>> /\ up' = [up EXCEPT ![l] = Tail(up[l])]
      /\ UNCHANGED <<page, line, view, addSent, opened, visits, status>>
      /\ vacant' \in BOOLEAN /\ hostId' \in Voter /\ joined' \subseteq Voter
      /\ story' \in [Round -> {"absent", "pending", "active", "revealed"}]
      /\ bound' = bound \cup {l}
      /\ down' \in [Line -> Seq(DownMsg)]
      /\ \A k \in Line : Len(down'[k]) <= Len(down[k]) + 2
      /\ \A k \in Line : down'[k] = down[k] \/ (k \in bound' /\ status[k] = "open")
  BY Received DEF pageVars
<1>2. /\ up[l] \in Seq(UpMsg) /\ Tail(up[l]) \in Seq(UpMsg)
      /\ Len(up[l]) \in Nat /\ Len(Tail(up[l])) = Len(up[l]) - 1 /\ status[l] # "free"
  BY <1>1, FirstUp
<1>3. \A k \in Line : Len(down[k]) + 1 < MaxDown /\ Len(down[k]) \in Nat /\ Len(down'[k]) \in Nat
  BY <1>1 DEF Receive, RoomOnLines, TypeInv
<1>4. MaxUp \in Nat /\ MaxDown \in Nat
  BY AutoAssumption
<1>5. \A k \in Line : up'[k] = IF k = l THEN Tail(up[l]) ELSE up[k]
  BY <1>1 DEF TypeInv
<1>6. \A k \in Line : Len(up'[k]) <= MaxUp /\ Len(down'[k]) <= MaxDown
  BY <1>1, <1>2, <1>3, <1>4, <1>5 DEF TypeInv, AutoTypeOK
<1>7. TypeInv'
  BY <1>1, <1>2, <1>6 DEF TypeInv, AutoTypeOK
<1>8. \A k \in Line : InUse(k)' <=> InUse(k)
  BY <1>1 DEF InUse
<1>9. /\ \A k \in Line : status'[k] \in {"open", "dead"} <=> InUse(k)'
      /\ \A k \in Line : status'[k] # "open" => down'[k] = <<>>
  BY <1>1, <1>8 DEF LinesInv
<1>10. \A k \in Line : status'[k] = "free" => k \notin bound' /\ up'[k] = <<>>
  BY <1>1, <1>2, <1>5 DEF LinesInv
<1>11. /\ \A k \in Line \ bound' : up'[k] \in {<<>>, <<Join>>} /\ down'[k] = <<>>
       /\ \A k \in Line \ bound' : status'[k] = "open" => page'[k[1]] = "joining"
  BY <1>1, <1>5 DEF LinesInv
<1>12. \A v \in Voter : page'[v] = "off" =>
          view'[v] = NoRoom /\ opened'[v] = {} /\ ~addSent'[v]
  BY <1>1 DEF LinesInv
<1>13. LinesInv'
  BY ONLY <1>9, <1>10, <1>11, <1>12 DEF LinesInv
<1> QED  BY <1>7, <1>13

(* A line that breaks or closes is empty.                                  *)
LEMMA BreakLines ==
    ASSUME Base, NEW l \in Line, LineBreaks(l) \/ LineCloses(l)
    PROVE  TypeInv' /\ LinesInv'
<1> USE DEF Base
<1>1. /\ UNCHANGED <<page, line, view, addSent, opened, visits, vacant, hostId, story, joined>>
      /\ up' = [up EXCEPT ![l] = <<>>]
      /\ bound' \in {bound, bound \ {l}}
  BY DEF LineBreaks, LineCloses, pageVars, serverVars
<1>2. /\ down' \in [Line -> Seq(DownMsg)]
      /\ \A k \in Line : down'[k] = IF k = l THEN <<>> ELSE down[k]
  <2>1. CASE LineBreaks(l)
    <3>1. down' = [down EXCEPT ![l] = <<>>] /\ <<>> \in Seq(DownMsg)
      BY <2>1 DEF LineBreaks
    <3> QED  BY <3>1 DEF TypeInv
  <2>2. CASE LineCloses(l)
    <3>1. down' = down /\ down[l] = <<>>
      BY <2>2 DEF LineCloses, LinesInv
    <3> QED  BY <3>1 DEF TypeInv
  <2> QED  BY <2>1, <2>2
<1>3. /\ status' \in [Line -> {"free", "open", "dead", "lost"}]
      /\ \A k \in Line : k # l => status'[k] = status[k]
      /\ status'[l] # "open" /\ (status'[l] = "dead" <=> status[l] \in {"open", "dead"})
      /\ status'[l] = "free" => l \notin bound'
  <2>1. PICK to \in {"free", "dead"} : /\ status' = [status EXCEPT ![l] = to]
                                       /\ to = "dead" <=> status[l] \in {"open", "dead"}
                                       /\ to = "free" => bound' = bound \ {l}
    BY DEF LineBreaks, LineCloses, TypeInv, AutoTypeOK
  <2>2. status \in [Line -> {"free", "open", "dead", "lost"}]
    BY DEF TypeInv, AutoTypeOK
  <2>3. status'[l] = to /\ \A k \in Line : k # l => status'[k] = status[k]
    BY <2>1, <2>2
  <2>4. status' \in [Line -> {"free", "open", "dead", "lost"}]
    BY <2>1, <2>2
  <2> QED  BY <2>1, <2>3, <2>4
<1>4. \A k \in Line : up'[k] = IF k = l THEN <<>> ELSE up[k]
  BY <1>1 DEF TypeInv
<1>5. TypeInv'
  <2>1. up' \in [Line -> Seq(UpMsg)]
    BY <1>1 DEF TypeInv
  <2>2. \A k \in Line : Len(up'[k]) <= MaxUp /\ Len(down'[k]) <= MaxDown
    <3>1. Len(<<>>) <= MaxUp /\ Len(<<>>) <= MaxDown
      BY AutoAssumption
    <3> QED  BY <1>2, <1>4, <3>1 DEF TypeInv, AutoTypeOK
  <2> QED  BY <1>1, <1>2, <1>3, <2>1, <2>2 DEF TypeInv, AutoTypeOK
<1>6. \A k \in Line : InUse(k)' <=> InUse(k)
  BY <1>1 DEF InUse
<1>7. \A k \in Line : /\ status'[k] \in {"open", "dead"} <=> InUse(k)'
                      /\ status'[k] # "open" => down'[k] = <<>>
                      /\ status'[k] = "free" => k \notin bound' /\ up'[k] = <<>>
  BY <1>1, <1>2, <1>3, <1>4, <1>6 DEF LinesInv
<1>8. \A k \in Line \ bound' : /\ up'[k] \in {<<>>, <<Join>>} /\ down'[k] = <<>>
                               /\ status'[k] = "open" => page'[k[1]] = "joining"
  BY <1>1, <1>2, <1>3, <1>4 DEF LinesInv
<1> QED  BY <1>1, <1>5, <1>7, <1>8 DEF LinesInv

(* Lines are told of the vacancy.                                          *)
LEMMA VacateLines ==
    ASSUME Base, Vacate
    PROVE  TypeInv' /\ LinesInv'
<1> USE DEF Base
<1>1. /\ UNCHANGED <<page, line, view, addSent, opened, visits, hostId, story, bound, joined,
                     status, up>>
      /\ vacant' = TRUE /\ down' = SentTo(bound, IsVacant)
      /\ \A k \in Line : Len(down[k]) + 1 < MaxDown
  BY DEF Vacate, pageVars, RoomOnLines
<1>2. /\ down' \in [Line -> Seq(DownMsg)]
      /\ \A k \in Line : Len(down'[k]) <= Len(down[k]) + 2
      /\ \A k \in Line : down'[k] = down[k] \/ (k \in bound /\ status[k] = "open")
  BY <1>1, ToldLines, Messages
<1>3. \A k \in Line : Len(down[k]) \in Nat /\ Len(down'[k]) \in Nat
  BY <1>2 DEF TypeInv
<1>4. \A k \in Line : Len(down'[k]) <= MaxDown
  BY <1>1, <1>2, <1>3, AutoAssumption
<1>5. TypeInv'
  BY <1>1, <1>2, <1>4 DEF TypeInv, AutoTypeOK
<1>6. \A k \in Line : InUse(k)' <=> InUse(k)
  BY <1>1 DEF InUse
<1> QED  BY <1>1, <1>2, <1>5, <1>6 DEF LinesInv

-----------------------------------------------------------------------------
(* Rounds on their way.                                                    *)

(* A step that adds nothing.                                               *)
LEMMA QuietAdds ==
    ASSUME Base, story' = story, visits' = visits,
           \A l \in Line : /\ Carries(l, Add)' => Carries(l, Add)
                           /\ Once(l, Add)'
                           /\ InUse(l)' => InUse(l) /\ addSent'[l[1]] = addSent[l[1]]
    PROVE  AddsInv'
<1>1. Owed' \subseteq Owed
  BY DEF Owed
<1>2. Queued' = Queued
  BY DEF Queued
<1>3. IsFiniteSet(Owed') /\ Cardinality(Owed') + Cardinality(Queued') <= visits'
  BY <1>1, <1>2, CountsKept
<1>4. \A l \in Line : Carries(l, Add)' /\ InUse(l)' => addSent'[l[1]]
  BY DEF Base, AddsInv
<1> QED  BY <1>3, <1>4 DEF AddsInv

(* A visit may add a round: it is counted.                                 *)
LEMMA VisitAdds ==
    ASSUME Base, NEW v \in Voter, Visit(v)
    PROVE  AddsInv'
<1> USE DEF Base
<1>1. PICK i \in {1, 2} :
         /\ status[<<v, i>>] = "free"
         /\ line' = [line EXCEPT ![v] = i]
         /\ up' = [up EXCEPT ![<<v, i>>] = <<Join>>]
  BY DEF Visit
<1> DEFINE l == <<v, i>>
<1>2. l \in Line /\ l[1] = v /\ l[2] = i /\ \A k \in Line : k[1] = v /\ k[2] = i => k = l
  BY LinePairs
<1>3. /\ page[v] = "off" /\ visits' = visits + 1
      /\ page' = [page EXCEPT ![v] = "joining"]
      /\ UNCHANGED <<story, addSent>>
  BY DEF Visit, serverVars
<1>4. up'[l] = <<Join>> /\ \A k \in Line : k # l => up'[k] = up[k]
  BY <1>1, <1>2 DEF TypeInv
<1> HIDE DEF l
<1>5. \A k \in Line : k # l => (InUse(k)' => InUse(k))
  BY <1>1, <1>2, <1>3, LinePairs DEF TypeInv, AutoTypeOK, InUse
<1>6. \A k \in Line : k # l => (Carries(k, Add)' <=> Carries(k, Add)) /\ (Once(k, Add)' <=> Once(k, Add))
  BY <1>4, LineSame
<1>7. ~Carries(l, Add)' /\ Once(l, Add)'
  <2>1. Join # Add
    BY DEF Join, Add
  <2> QED  BY <1>4, <2>1, LineSingle
<1>8. Owed' \subseteq Owed \cup {l} /\ Queued' = Queued
  BY <1>3, <1>5, <1>6 DEF Owed, Queued
<1>9. IsFiniteSet(Owed) /\ Cardinality(Owed) + Cardinality(Queued) <= visits
  BY DEF AddsInv
<1>10. IsFiniteSet(Owed \cup {l}) /\ Cardinality(Owed \cup {l}) <= Cardinality(Owed) + 1
  <2>1. Cardinality(Owed) \in Nat
    BY <1>9, FS_CardinalityType
  <2>2. /\ IsFiniteSet(Owed \cup {l})
        /\ Cardinality(Owed \cup {l}) = IF l \in Owed THEN Cardinality(Owed)
                                                      ELSE Cardinality(Owed) + 1
    BY ONLY <1>9, FS_AddElement
  <2> QED  BY <2>1, <2>2
<1>11. IsFiniteSet(Owed') /\ Cardinality(Owed') <= Cardinality(Owed \cup {l})
  BY <1>8, <1>10, FS_Subset
<1>12. IsFiniteSet(Queued)
  BY RoundsFinite, FS_Subset DEF Queued
<1>13. /\ Cardinality(Queued) \in Nat /\ Cardinality(Owed) \in Nat /\ Cardinality(Owed') \in Nat
       /\ Cardinality(Owed \cup {l}) \in Nat /\ visits \in Nat
  BY <1>9, <1>10, <1>11, <1>12, FS_CardinalityType DEF TypeInv, AutoTypeOK
<1>14. Cardinality(Owed') + Cardinality(Queued') <= visits'
  BY <1>3, <1>8, <1>9, <1>10, <1>11, <1>13
<1>15. \A k \in Line : Once(k, Add)' /\ (Carries(k, Add)' /\ InUse(k)' => addSent'[k[1]])
  BY <1>3, <1>5, <1>6, <1>7 DEF AddsInv
<1> QED  BY <1>11, <1>14, <1>15 DEF AddsInv

(* A page that is gone adds nothing any more.                              *)
LEMMA LoseAdds ==
    ASSUME Base, NEW v \in Voter, Lose(v)
    PROVE  AddsInv'
<1>1. /\ page' = [page EXCEPT ![v] = "off"]
      /\ addSent' = [addSent EXCEPT ![v] = FALSE]
      /\ UNCHANGED <<story, line, visits, up>>
  BY DEF Lose, serverVars
<1>2. \A k \in Line : (Carries(k, Add)' <=> Carries(k, Add)) /\ (Once(k, Add)' <=> Once(k, Add))
  BY <1>1, LineSame
<1>3. \A k \in Line : InUse(k)' => InUse(k) /\ addSent'[k[1]] = addSent[k[1]]
  BY <1>1, LinePairs DEF Base, TypeInv, AutoTypeOK, InUse
<1>4. \A k \in Line : Once(k, Add)'
  BY <1>2 DEF Base, AddsInv
<1> QED  BY <1>1, <1>2, <1>3, <1>4, QuietAdds

(* A page that is on sends something else than a round.                    *)
LEMMA SendAdds ==
    ASSUME Base, NEW v \in Voter, NEW m \in UpMsg, m # Add, Sends(v, m),
           UNCHANGED <<story, page, line, addSent, visits>>
    PROVE  AddsInv'
<1>0. PICK l \in Line : l = LineOf(v)
  BY OwnLine DEF Base
<1>1. /\ \A k \in Line : k # l => up'[k] = up[k]
      /\ up'[l] = up[l] \/ up'[l] = Append(up[l], m)
  BY <1>0, SentUp DEF Base
<1>2. up[l] \in Seq(UpMsg)
  BY DEF Base, TypeInv
<1>3. \A k \in Line : (Carries(k, Add)' <=> Carries(k, Add)) /\ (Once(k, Add) => Once(k, Add)')
  <2>1. CASE up'[l] = up[l]
    BY <1>1, <2>1, LineSame
  <2>2. CASE up'[l] = Append(up[l], m)
    <3>1. (Carries(l, Add)' <=> Carries(l, Add)) /\ (Once(l, Add) => Once(l, Add)')
      BY <1>2, <2>2, LineAppended
    <3> QED  BY <1>1, <3>1, LineSame
  <2> QED  BY <1>1, <2>1, <2>2
<1>4. \A k \in Line : InUse(k)' <=> InUse(k)
  BY DEF InUse
<1> QED  BY <1>3, <1>4, QuietAdds DEF Base, AddsInv

(* What a page might add is on its way now, once.                          *)
LEMMA AddRoundAdds ==
    ASSUME Base, NEW v \in Voter, AddRound(v)
    PROVE  AddsInv'
<1> USE DEF Base
<1>0. PICK l \in Line : l = LineOf(v)
  BY OwnLine
<1>1. /\ page[v] = "on" /\ ~addSent[v] /\ Sends(v, Add)
      /\ addSent' = [addSent EXCEPT ![v] = TRUE]
      /\ UNCHANGED <<story, page, line, visits>>
  BY DEF AddRound, IsHost, serverVars
<1>2. /\ \A k \in Line : k # l => up'[k] = up[k]
      /\ up'[l] = up[l] \/ up'[l] = Append(up[l], Add)
  BY <1>0, <1>1, SentUp, Messages
<1>3. /\ l[1] = v /\ l[2] = line[v] /\ up[l] \in Seq(UpMsg)
      /\ \A k \in Line : k[1] = v /\ k[2] = line[v] => k = l
  BY <1>0, OwnLine DEF TypeInv
<1>4. InUse(l) /\ ~addSent[l[1]]
  BY <1>1, <1>3 DEF InUse
<1>5. ~Carries(l, Add) /\ Once(l, Add) /\ l \in Owed
  BY <1>3, <1>4 DEF AddsInv, Owed
<1>6. Once(l, Add)'
  BY <1>2, <1>3, <1>5, LineSame, LineAppended, Messages
<1>7. \A k \in Line : k # l => (Carries(k, Add)' <=> Carries(k, Add)) /\ (Once(k, Add)' <=> Once(k, Add))
  BY <1>2, LineSame
<1>8. \A k \in Line : /\ InUse(k)' <=> InUse(k)
                      /\ addSent'[k[1]] = IF k[1] = v THEN TRUE ELSE addSent[k[1]]
  BY <1>1, LinePairs DEF InUse, TypeInv, AutoTypeOK
<1>9. Owed' \subseteq Owed /\ Queued' = Queued
  BY <1>1, <1>5, <1>7, <1>8 DEF Owed, Queued
<1>10. IsFiniteSet(Owed') /\ Cardinality(Owed') + Cardinality(Queued') <= visits'
  BY <1>1, <1>9, CountsKept
<1>11. \A k \in Line : Once(k, Add)' /\ (Carries(k, Add)' /\ InUse(k)' => addSent'[k[1]])
  BY <1>3, <1>6, <1>7, <1>8 DEF AddsInv
<1> QED  BY <1>10, <1>11 DEF AddsInv

(* A round that was on its way is queued now.                              *)
LEMMA ReceiveAdds ==
    ASSUME Base, NEW l \in Line, Receive(l)
    PROVE  AddsInv'
<1> USE DEF Base
<1>1. /\ up[l] # <<>> /\ up' = [up EXCEPT ![l] = Tail(up[l])]
      /\ UNCHANGED <<page, line, addSent, visits>>
  BY Received DEF pageVars
<1>2. up'[l] = Tail(up[l]) /\ up[l] \in Seq(UpMsg) /\ \A k \in Line : k # l => up'[k] = up[k]
  BY <1>1 DEF TypeInv
<1>3. \A k \in Line : (Carries(k, Add)' => Carries(k, Add)) /\ (Once(k, Add) => Once(k, Add)')
  <2>1. (Carries(l, Add)' => Carries(l, Add)) /\ (Once(l, Add) => Once(l, Add)')
    BY <1>1, <1>2, LineTail
  <2> QED  BY <1>2, <2>1, LineSame
<1>4. \A k \in Line : (InUse(k)' <=> InUse(k)) /\ addSent'[k[1]] = addSent[k[1]]
  BY <1>1 DEF InUse
<1>5. Owed' \subseteq Owed
  BY <1>3, <1>4 DEF Owed
<1>6. \A k \in Line : Once(k, Add)' /\ (Carries(k, Add)' /\ InUse(k)' => addSent'[k[1]])
  BY <1>3, <1>4 DEF AddsInv
<1>7. ASSUME Queued' = Queued
      PROVE  AddsInv'
  BY <1>1, <1>5, <1>6, <1>7, CountsKept DEF AddsInv
<1>8. ASSUME story' = story
      PROVE  AddsInv'
  BY <1>7, <1>8 DEF Queued
<1>9. ASSUME NEW x \in Round, ServeOpen(l, x) \/ ServeReveal(l, x)
      PROVE  AddsInv'
  <2>1. PICK to \in {"active", "revealed"} : story' = [story EXCEPT ![x] = to]
    BY <1>9 DEF ServeOpen, ServeReveal
  <2>2. story[x] # "absent"
    BY <1>9 DEF ServeOpen, ServeReveal, Openable
  <2>3. Queued' = Queued
    BY <2>1, <2>2 DEF Queued, TypeInv, AutoTypeOK
  <2> QED  BY <1>7, <2>3
<1>10. ASSUME Head(up[l]) = Add, ServeAdd(l)
       PROVE  AddsInv'
  <2> DEFINE x == Min({y \in Round : story[y] = "absent"})
  <2>1. Carries(l, Add) /\ Once(l, Add)
    BY <1>1, <1>10, FirstUp DEF AddsInv
  <2>2. x \in Round
    BY <2>1, RoundLeft, FirstOf
  <2>3. story' = [story EXCEPT ![x] = "pending"]
    BY <1>10 DEF ServeAdd
  <2> HIDE DEF x
  <2>4. Queued' \subseteq Queued \cup {x}
    BY <2>2, <2>3 DEF Queued, TypeInv, AutoTypeOK
  <2>5. ~Carries(l, Add)'
    BY <1>1, <1>2, <1>10, <2>1, LineTail
  <2>6. l \in Owed /\ l \notin Owed'
    BY <1>4, <2>1, <2>5 DEF Owed, AddsInv
  <2>7. IsFiniteSet(Owed) /\ Cardinality(Owed) + Cardinality(Queued) <= visits
    BY DEF AddsInv
  <2>8. /\ IsFiniteSet(Owed \ {l}) /\ Cardinality(Owed \ {l}) = Cardinality(Owed) - 1
        /\ Cardinality(Owed) \in Nat
    BY <2>6, <2>7, FS_RemoveElement, FS_CardinalityType
  <2>9. IsFiniteSet(Owed') /\ Cardinality(Owed') <= Cardinality(Owed \ {l})
    <3>1. Owed' \subseteq Owed \ {l}
      BY <1>5, <2>6
    <3> QED  BY <2>8, <3>1, FS_Subset
  <2>10. IsFiniteSet(Queued) /\ IsFiniteSet(Queued \cup {x})
    BY <2>2, RoundsFinite, FS_Subset DEF Queued
  <2>11. /\ Cardinality(Queued) \in Nat
         /\ Cardinality(Queued \cup {x}) <= Cardinality(Queued) + 1
         /\ Cardinality(Queued \cup {x}) \in Nat
    BY <2>10, FS_AddElement, FS_CardinalityType
  <2>12. Cardinality(Queued') <= Cardinality(Queued \cup {x}) /\ IsFiniteSet(Queued')
    BY <2>4, <2>10, FS_Subset
  <2>13. Cardinality(Queued') \in Nat /\ Cardinality(Owed') \in Nat /\ visits \in Nat
    BY <2>9, <2>12, FS_CardinalityType DEF TypeInv, AutoTypeOK
  <2>14. Cardinality(Owed') + Cardinality(Queued') <= visits'
    BY <1>1, <2>7, <2>8, <2>9, <2>11, <2>12, <2>13
  <2> QED  BY <1>6, <2>9, <2>14 DEF AddsInv
<1> QED  BY <1>8, <1>9, <1>10, ReceiveCases DEF ServeJoin, ServeClaim, serverVars

(* Rounds that were on their way are gone.                                 *)
LEMMA BreakAdds ==
    ASSUME Base, NEW l \in Line, LineBreaks(l) \/ LineCloses(l)
    PROVE  AddsInv'
<1>1. up' = [up EXCEPT ![l] = <<>>] /\ UNCHANGED <<story, page, line, addSent, visits>>
  BY DEF LineBreaks, LineCloses, pageVars, serverVars
<1>2. up'[l] = <<>> /\ \A k \in Line : k # l => up'[k] = up[k]
  BY <1>1 DEF Base, TypeInv
<1>3. \A k \in Line : (Carries(k, Add)' => Carries(k, Add)) /\ (Once(k, Add) => Once(k, Add)')
  BY <1>2, LineSame, LineCleared
<1>4. \A k \in Line : InUse(k)' <=> InUse(k)
  BY <1>1 DEF InUse
<1> QED  BY <1>1, <1>3, <1>4, QuietAdds DEF Base, AddsInv

(* Nothing of it changes.                                                  *)
LEMMA SameAdds ==
    ASSUME Base, UNCHANGED <<story, line, addSent, visits, up>>,
           \A v \in Voter : page'[v] = "off" <=> page[v] = "off"
    PROVE  AddsInv'
<1>1. \A k \in Line : (Carries(k, Add)' <=> Carries(k, Add)) /\ (Once(k, Add)' <=> Once(k, Add))
  BY LineSame
<1>2. \A k \in Line : InUse(k)' <=> InUse(k)
  BY LinePairs DEF InUse
<1> QED  BY <1>1, <1>2, QuietAdds DEF Base, AddsInv

-----------------------------------------------------------------------------
(* Every step.                                                             *)

(* A step is one of these.                                                 *)
LEMMA NextCases ==
    ASSUME [Next]_vars, NEW P,
           \A v \in Voter : Visit(v) => P,
           \A v \in Voter : Lose(v) => P,
           \A v \in Voter : Deliver(v) => P,
           \A v \in Voter : AddRound(v) => P,
           \A v \in Voter : OpenRound(v) => P,
           \A v \in Voter : RevealCards(v) \/ CloseVote(v) \/ ClaimHost(v) => P,
           \A l \in Line : Receive(l) => P,
           \A l \in Line : LineBreaks(l) \/ LineCloses(l) => P,
           Vacate => P,
           UNCHANGED vars => P
    PROVE  P
  BY Zenon DEF Next

(* What the effect sends, and the buttons.                                 *)
LEMMA EffectSends ==
    ASSUME TypeInv, NEW v \in Voter, OpenRound(v)
    PROVE  \E x \in Round :
              /\ view[v].story[x] = "pending" /\ x \notin opened[v]
              /\ page[v] = "on" /\ view[v].host = v /\ Sends(v, Open(x, "effect"))
              /\ opened' = [opened EXCEPT ![v] = opened[v] \cup {x}]
              /\ UNCHANGED <<serverVars, page, line, view, addSent, visits, status, down>>
<1> DEFINE x == Min(Pending(v))
<1>1. /\ page[v] = "on" /\ view[v].host = v /\ Pending(v) # {} /\ x \notin opened[v]
      /\ Sends(v, Open(x, "effect"))
      /\ opened' = [opened EXCEPT ![v] = opened[v] \cup {x}]
      /\ UNCHANGED <<serverVars, page, line, view, addSent, visits, status, down>>
  BY DEF OpenRound, IsHost
<1>2. x \in Pending(v)
  <2>1. Pending(v) \in SUBSET Round
    BY DEF Pending
  <2> QED  BY <1>1, <2>1, FirstOf
<1> HIDE DEF x
<1> QED  BY <1>1, <1>2 DEF Pending

(* The buttons send, and change nothing else.                              *)
LEMMA ButtonSends ==
    ASSUME NEW v \in Voter, RevealCards(v) \/ CloseVote(v) \/ ClaimHost(v)
    PROVE  /\ page[v] = "on" /\ UNCHANGED <<serverVars, pageVars, status, down>>
           /\ \E m \in UpMsg :
                /\ Sends(v, m)
                /\ \/ m = Claim
                   \/ \E x \in Round : m = Reveal(x)
                   \/ \E x \in Round : m = Open(x, "click") /\ view[v].story[x] = "revealed"
<1>1. page[v] = "on" /\ UNCHANGED <<serverVars, pageVars, status, down>>
  BY DEF RevealCards, CloseVote, ClaimHost, IsHost
<1>2. CASE RevealCards(v)
  <2>1. PICK x \in Round : Sends(v, Reveal(x))
    BY <1>2 DEF RevealCards, Focus
  <2> QED  BY <1>1, <2>1, Messages
<1>3. CASE CloseVote(v)
  <2>1. PICK x \in Round : view[v].story[x] = "revealed" /\ Sends(v, Open(x, "click"))
    BY <1>3 DEF CloseVote, Focus
  <2> QED  BY <1>1, <2>1, Messages
<1>4. CASE ClaimHost(v)
  BY <1>1, <1>4, Messages DEF ClaimHost
<1> QED  BY <1>2, <1>3, <1>4

(* At the start.                                                           *)
LEMMA BaseInit == Init => Base
<1> SUFFICES ASSUME Init PROVE Base
  OBVIOUS
<1> USE AutoAssumption DEF Init
<1>1. NoRoom \in View /\ NoRoom.host = NoVoter /\ NoStory \in [Round -> {"absent"}]
  BY DEF NoRoom, NoStory, View
<1>2. <<>> \in Seq(UpMsg) /\ <<>> \in Seq(DownMsg) /\ Len(<<>>) = 0
  OBVIOUS
<1>3. TypeInv
  <2>1. up \in [Line -> Seq(UpMsg)] /\ down \in [Line -> Seq(DownMsg)]
    BY <1>2
  <2>2. story \in [Round -> {"absent", "pending", "active", "revealed"}]
    BY <1>1
  <2>3. view \in [Voter -> View] /\ \A v \in Voter : page[v] = "on" <=> view[v].host # NoVoter
    BY <1>1
  <2>4. \A l \in Line : Len(up[l]) <= MaxUp /\ Len(down[l]) <= MaxDown
    BY <1>2
  <2>5. /\ page \in [Voter -> {"off", "joining", "on"}] /\ line \in [Voter -> {1, 2}]
        /\ addSent \in [Voter -> BOOLEAN] /\ opened \in [Voter -> SUBSET Round]
        /\ status \in [Line -> {"free", "open", "dead", "lost"}]
    OBVIOUS
  <2>6. /\ vacant \in BOOLEAN /\ hostId \in Voter /\ bound \subseteq Line /\ joined \subseteq Voter
        /\ visits \in 0..Visits
    <3>1. Visits \in Nat
      BY RoundsFinite
    <3>2. vacant \in BOOLEAN /\ bound \subseteq Line /\ joined \subseteq Voter
      BY ONLY Init, Zenon DEF Init
    <3>3. hostId \in Voter
      BY ONLY Init, AutoAssumption DEF Init
    <3>4. visits \in 0..Visits
      BY ONLY <3>1, Init DEF Init
    <3> QED  BY <3>2, <3>3, <3>4
  <2> QED  BY ONLY <2>1, <2>2, <2>3, <2>4, <2>5, <2>6 DEF TypeInv, AutoTypeOK
<1>4. \A l \in Line : ~InUse(l)
  BY LinePairs DEF InUse
<1>5. LinesInv
  BY <1>4 DEF LinesInv
<1>6. \A l \in Line : ~Carries(l, Add) /\ Once(l, Add)
  <2>1. \A l \in Line : 1..Len(up[l]) = {}
    OBVIOUS
  <2> QED  BY <2>1 DEF Carries, Once
<1>7. Owed = {} /\ Queued = {}
  BY <1>4, <1>6 DEF Owed, Queued, NoStory
<1>8. AddsInv
  BY <1>6, <1>4, <1>7, FS_EmptySet DEF AddsInv
<1> QED  BY <1>3, <1>5, <1>8 DEF Base

(* And with each step.                                                     *)
LEMMA BaseStep == Base /\ [Next]_vars => Base'
<1> SUFFICES ASSUME Base, [Next]_vars PROVE Base'
  OBVIOUS
<1>1. ASSUME NEW v \in Voter, Visit(v)
      PROVE  Base'
  BY <1>1, VisitLines, VisitAdds DEF Base
<1>2. ASSUME NEW v \in Voter, Lose(v)
      PROVE  Base'
  BY <1>2, LoseLines, LoseAdds DEF Base
<1>3. ASSUME NEW v \in Voter, Deliver(v)
      PROVE  Base'
  <2>1. /\ UNCHANGED <<story, line, addSent, visits, up>>
        /\ \A w \in Voter : page'[w] = "off" <=> page[w] = "off"
    BY <1>3 DEF Deliver, serverVars, Base, TypeInv, AutoTypeOK
  <2> QED  BY <1>3, <2>1, DeliverLines, SameAdds DEF Base
<1>4. ASSUME NEW v \in Voter, AddRound(v)
      PROVE  Base'
  <2>1. /\ Sends(v, Add) /\ page[v] = "on"
        /\ UNCHANGED <<serverVars, page, line, view, visits, status, down>>
        /\ addSent' = [addSent EXCEPT ![v] = TRUE] /\ opened' = opened
    BY <1>4 DEF AddRound, IsHost
  <2>2. /\ addSent' \in [Voter -> BOOLEAN] /\ opened' \in [Voter -> SUBSET Round]
        /\ \A w \in Voter \ {v} : addSent'[w] = addSent[w] /\ opened'[w] = opened[w]
    BY <2>1 DEF Base, TypeInv, AutoTypeOK
  <2> QED  BY <1>4, <2>1, <2>2, SendLines, AddRoundAdds, Messages DEF Base
<1>5. ASSUME NEW v \in Voter, OpenRound(v)
      PROVE  Base'
  <2>1. PICK x \in Round :
          /\ Sends(v, Open(x, "effect")) /\ page[v] = "on"
          /\ UNCHANGED <<serverVars, page, line, view, addSent, visits, status, down>>
          /\ opened' = [opened EXCEPT ![v] = opened[v] \cup {x}]
    BY <1>5, EffectSends DEF Base
  <2>2. /\ addSent' \in [Voter -> BOOLEAN] /\ opened' \in [Voter -> SUBSET Round]
        /\ \A w \in Voter \ {v} : addSent'[w] = addSent[w] /\ opened'[w] = opened[w]
    BY <2>1 DEF Base, TypeInv, AutoTypeOK
  <2>3. Open(x, "effect") \in UpMsg /\ Open(x, "effect") # Add
    BY Messages, MessageTypes
  <2> QED  BY <2>1, <2>2, <2>3, SendLines, SendAdds DEF Base, serverVars
<1>6. ASSUME NEW v \in Voter, RevealCards(v) \/ CloseVote(v) \/ ClaimHost(v)
      PROVE  Base'
  <2>1. PICK m \in UpMsg :
          /\ Sends(v, m)
          /\ m = Claim \/ \E x \in Round : m = Reveal(x) \/ m = Open(x, "click")
    BY <1>6, ButtonSends
  <2>2. m # Add
    BY <2>1, MessageTypes
  <2>3. page[v] = "on" /\ UNCHANGED <<serverVars, pageVars, status, down>>
    BY <1>6, ButtonSends
  <2>4. addSent' \in [Voter -> BOOLEAN] /\ opened' \in [Voter -> SUBSET Round]
    BY <2>3 DEF pageVars, Base, TypeInv, AutoTypeOK
  <2> QED  BY <2>1, <2>2, <2>3, <2>4, SendLines, SendAdds DEF Base, serverVars, pageVars
<1>7. ASSUME NEW l \in Line, Receive(l)
      PROVE  Base'
  BY <1>7, ReceiveLines, ReceiveAdds DEF Base
<1>8. ASSUME NEW l \in Line, LineBreaks(l) \/ LineCloses(l)
      PROVE  Base'
  BY <1>8, BreakLines, BreakAdds DEF Base
<1>9. ASSUME Vacate
      PROVE  Base'
  <2>1. UNCHANGED <<story, page, line, addSent, visits, up>>
    BY <1>9 DEF Vacate, pageVars
  <2> QED  BY <1>9, <2>1, VacateLines, SameAdds DEF Base
<1>10. ASSUME UNCHANGED vars
       PROVE  Base'
  BY <1>10 DEF vars, serverVars, pageVars, lineVars, Base, TypeInv, AutoTypeOK, LinesInv,
               AddsInv, InUse, Carries, Once, Owed, Queued, LineOf
<1> QED  BY <1>1, <1>2, <1>3, <1>4, <1>5, <1>6, <1>7, <1>8, <1>9, <1>10, NextCases

-----------------------------------------------------------------------------
(* What is safe.                                                           *)

(* A round that has been voted on.                                         *)
Past(x) == story[x] \in {"active", "revealed"}

(* An effect has asked for a round, and the server does not know it yet.   *)
Asked(x) == \E l \in Line : Carries(l, Open(x, "effect"))

(* Nobody is bound to the seat of a vacant room.                           *)
SeatInv == vacant => \A l \in bound : l[1] # hostId

(* Close vote is clicked on cards that lie open; an effect's request is on *)
(* a line of the host, is the only one for its round, and the round has    *)
(* not been voted on.                                                      *)
OpensInv ==
    \A l \in Line, x \in Round :
        /\ Carries(l, Open(x, "click")) => Past(x)
        /\ Carries(l, Open(x, "effect")) =>
              /\ l[1] = hostId /\ story[x] = "pending"
              /\ Once(l, Open(x, "effect"))
              /\ \A k \in Line : Carries(k, Open(x, "effect")) => k = l

(* A store of v's page, behind as it may be: the rounds it shows as voted  *)
(* on have been, it shows v as the host only if v is, and then a round     *)
(* that it shows as pending and that its effect has not asked for is       *)
(* pending and has not been asked for.                                     *)
Fair(v, w) ==
    /\ \A x \in Round : w.story[x] \in {"active", "revealed"} => Past(x)
    /\ w.host = v =>
          /\ hostId = v
          /\ \A x \in Round \ opened[v] :
                w.story[x] = "pending" => story[x] = "pending" /\ ~Asked(x)

(* A store that is not behind.                                             *)
Agrees(e) ==
    /\ e.host = hostId /\ e.vacant = vacant
    /\ \A x \in Round : e.story[x] # "absent" => e.story[x] = story[x]

(* What is on the way to a page leads it, through fair stores, to one that *)
(* agrees.                                                                 *)
Told(l) ==
    \E e \in View : /\ Leads({w \in View : Fair(l[1], w)}, view[l[1]], down[l], e)
                    /\ Agrees(e)

PagesInv ==
    /\ \A l \in bound : status[l] = "open" => Told(l)
    /\ \A l \in Line \ bound : status[l] = "open" => view[l[1]] = NoRoom

Safe == SeatInv /\ OpensInv /\ PagesInv

-----------------------------------------------------------------------------
(* How it is kept.                                                         *)

(* What it takes to be told after a step.                                  *)
LEMMA ToldNext ==
    ASSUME NEW l, NEW S, NEW e \in View, S = {w \in View : Fair(l[1], w)'},
           Leads(S, view'[l[1]], down'[l], e), Agrees(e)'
    PROVE  Told(l)'
  BY DEF Told, Leads, Fair, Agrees, Past, Asked, Carries

(* What it is to be told.                                                  *)
LEMMA ToldNow ==
    ASSUME NEW l, Told(l)
    PROVE  \E S, e : /\ S = {w \in View : Fair(l[1], w)} /\ e \in View
                     /\ Leads(S, view[l[1]], down[l], e) /\ Agrees(e)
  BY DEF Told

(* A store on the way to an open page, and the one at the end.             *)
LEMMA ToldEnds ==
    ASSUME TypeInv, NEW l \in Line, Told(l)
    PROVE  Fair(l[1], view[l[1]])
<1>1. PICK S, e : /\ S = {w \in View : Fair(l[1], w)} /\ e \in View
                  /\ Leads(S, view[l[1]], down[l], e) /\ Agrees(e)
  BY ToldNow
<1>2. down[l] \in Seq(DownMsg)
  BY DEF TypeInv
<1>3. view[l[1]] \in S
  BY <1>1, <1>2, LeadsWithin
<1> QED  BY <1>1, <1>3

(* Nothing new is on the way to the page.                                  *)
LEMMA ToldStays ==
    ASSUME NEW l, Told(l), view'[l[1]] = view[l[1]], down'[l] = down[l],
           \A w \in View : Fair(l[1], w) => Fair(l[1], w)',
           \A e \in View : Agrees(e) => Agrees(e)'
    PROVE  Told(l)'
<1>1. PICK S, e : /\ S = {w \in View : Fair(l[1], w)} /\ e \in View
                  /\ Leads(S, view[l[1]], down[l], e) /\ Agrees(e)
  BY ToldNow
<1>2. PICK T : T = {w \in View : Fair(l[1], w)'}
  OBVIOUS
<1>3. S \subseteq T
  BY <1>1, <1>2
<1>4. Leads(T, view'[l[1]], down'[l], e)
  BY <1>1, <1>3, LeadsWider
<1> QED  BY <1>1, <1>2, <1>4, ToldNext

(* A message more is.                                                      *)
LEMMA ToldMore ==
    ASSUME NEW l, NEW m \in DownMsg, down[l] \in Seq(DownMsg), Told(l),
           view'[l[1]] = view[l[1]], down'[l] = Append(down[l], m),
           \A w \in View : Fair(l[1], w) => Fair(l[1], w)',
           \A e, f \in View : Agrees(e) /\ Fair(l[1], e) /\ f = Folded(e, m)
                                => Agrees(f)' /\ Fair(l[1], f)'
    PROVE  Told(l)'
<1>1. PICK S, e : /\ S = {w \in View : Fair(l[1], w)} /\ e \in View
                  /\ Leads(S, view[l[1]], down[l], e) /\ Agrees(e)
  BY ToldNow
<1>2. PICK T : T = {w \in View : Fair(l[1], w)'}
  OBVIOUS
<1>3. S \subseteq T
  BY <1>1, <1>2
<1>4. PICK f \in View : f = Folded(e, m)
  BY <1>1, FoldedTyped
<1>5. e \in S
  BY <1>1, LeadsWithin
<1>6. Agrees(f)' /\ Fair(l[1], f)'
  BY <1>1, <1>4, <1>5
<1>7. f \in T
  BY <1>2, <1>6
<1>8. Leads(T, view[l[1]], down[l], e)
  BY <1>1, <1>3, LeadsWider
<1>9. Leads(T, view'[l[1]], down'[l], f)
  BY <1>4, <1>7, <1>8, LeadsOn
<1> QED  BY <1>2, <1>6, <1>9, ToldNext

(* The page takes a message.                                               *)
LEMMA ToldLess ==
    ASSUME NEW l, down[l] \in Seq(DownMsg), down[l] # <<>>, Told(l),
           view'[l[1]] = Folded(view[l[1]], Head(down[l])), down'[l] = Tail(down[l]),
           \A w \in View : Fair(l[1], w) => Fair(l[1], w)',
           \A e \in View : Agrees(e) => Agrees(e)'
    PROVE  Told(l)'
<1>1. PICK S, e : /\ S = {w \in View : Fair(l[1], w)} /\ e \in View
                  /\ Leads(S, view[l[1]], down[l], e) /\ Agrees(e)
  BY ToldNow
<1>2. PICK T : T = {w \in View : Fair(l[1], w)'}
  OBVIOUS
<1>3. S \subseteq T
  BY <1>1, <1>2
<1>4. Leads(S, view'[l[1]], down'[l], e)
  BY <1>1, LeadsFrom
<1>5. Leads(T, view'[l[1]], down'[l], e)
  BY <1>3, <1>4, LeadsWider
<1> QED  BY <1>1, <1>2, <1>5, ToldNext

(* Stores stay fair.                                                       *)
LEMMA FairKept ==
    ASSUME NEW v, \A x \in Round : Past(x) => Past(x)',
           hostId = v => hostId' = v,
           hostId = v => \A x \in Round \ opened'[v] :
                            /\ x \notin opened[v]
                            /\ story[x] = "pending" /\ ~Asked(x) =>
                                  story'[x] = "pending" /\ ~Asked(x)'
    PROVE  \A w \in View : Fair(v, w) => Fair(v, w)'
  BY DEF Fair

(* Stores agree while the server changes nothing.                          *)
LEMMA AgreesKept ==
    ASSUME UNCHANGED <<vacant, hostId, story>>
    PROVE  \A e \in View : Agrees(e) => Agrees(e)'
  BY DEF Agrees

(* The requests on the lines.                                              *)
LEMMA OpensKept ==
    ASSUME OpensInv, \A x \in Round : Past(x) => Past(x)',
           \A l \in Line, x \in Round :
              /\ Carries(l, Open(x, "click"))' => Carries(l, Open(x, "click")) \/ Past(x)'
              /\ Carries(l, Open(x, "effect"))' =>
                    /\ Carries(l, Open(x, "effect"))
                    /\ Once(l, Open(x, "effect")) => Once(l, Open(x, "effect"))'
                    /\ hostId' = hostId /\ story'[x] = "pending"
    PROVE  OpensInv'
  BY DEF OpensInv

(* Messages are taken or lost, and a page comes: no more is asked for.     *)
LEMMA UpLess ==
    ASSUME TypeInv,
           \A l \in Line : \/ up'[l] = up[l]
                           \/ up'[l] = <<>> \/ up'[l] = <<Join>>
                           \/ up[l] # <<>> /\ up'[l] = Tail(up[l])
    PROVE  \A l \in Line, x \in Round, by \in {"effect", "click"} :
              /\ Carries(l, Open(x, by))' => Carries(l, Open(x, by))
              /\ Once(l, Open(x, by)) => Once(l, Open(x, by))'
<1> SUFFICES ASSUME NEW l \in Line, NEW x \in Round, NEW by \in {"effect", "click"}
             PROVE  /\ Carries(l, Open(x, by))' => Carries(l, Open(x, by))
                    /\ Once(l, Open(x, by)) => Once(l, Open(x, by))'
  OBVIOUS
<1>1. PICK n : n = Open(x, by)
  OBVIOUS
<1>2. Join # n
  BY <1>1, MessageTypes
<1>3. up[l] \in Seq(UpMsg)
  BY DEF TypeInv
<1>4. (Carries(l, n)' => Carries(l, n)) /\ (Once(l, n) => Once(l, n)')
  BY <1>2, <1>3, LineSame, LineCleared, LineSingle, LineTail
<1> QED  BY <1>1, <1>4

(* A step that asks for nothing and writes nothing.                        *)
LEMMA QuietSafe ==
    ASSUME Base, Safe, UNCHANGED <<vacant, hostId, story>>, bound' \subseteq bound,
           \A l \in Line, x \in Round, by \in {"effect", "click"} :
              /\ Carries(l, Open(x, by))' => Carries(l, Open(x, by))
              /\ Once(l, Open(x, by)) => Once(l, Open(x, by))',
           \A l \in bound' : status'[l] = "open" =>
              /\ status[l] = "open" /\ view'[l[1]] = view[l[1]] /\ down'[l] = down[l]
              /\ opened'[l[1]] = opened[l[1]],
           \A l \in Line \ bound' : status'[l] = "open" => view'[l[1]] = NoRoom
    PROVE  Safe'
<1> USE DEF Safe
<1>1. \A x \in Round : (Past(x) <=> Past(x)') /\ (Asked(x)' => Asked(x))
  BY DEF Past, Asked
<1>2. SeatInv'
  BY DEF SeatInv
<1>3. OpensInv'
  <2>1. \A l \in Line, x \in Round : Carries(l, Open(x, "effect"))' => story'[x] = "pending"
    BY DEF OpensInv
  <2> QED  BY <1>1, <2>1, OpensKept
<1>4. ASSUME NEW l \in bound', status'[l] = "open"
      PROVE  Told(l)'
  <2>1. \A w \in View : Fair(l[1], w) => Fair(l[1], w)'
    BY <1>1, <1>4, FairKept
  <2>2. Told(l)
    BY <1>4 DEF PagesInv
  <2> QED  BY <1>4, <2>1, <2>2, AgreesKept, ToldStays
<1> QED  BY <1>2, <1>3, <1>4 DEF PagesInv


-----------------------------------------------------------------------------
(* The steps that ask for nothing and write nothing.                       *)

(* A new page holds nothing of the room.                                   *)
LEMMA VisitSafe ==
    ASSUME Base, Safe, NEW v \in Voter, Visit(v)
    PROVE  Safe'
<1> USE DEF Base
<1>1. PICK i \in {1, 2} :
         /\ status[<<v, i>>] = "free"
         /\ status' = [status EXCEPT ![<<v, i>>] = "open"]
         /\ up' = [up EXCEPT ![<<v, i>>] = <<Join>>]
  BY DEF Visit
<1>2. PICK l \in Line : l = <<v, i>> /\ l[1] = v
  BY LinePairs
<1>3. /\ page[v] = "off"
      /\ UNCHANGED <<vacant, hostId, story, bound, view, opened, down>>
  BY DEF Visit, serverVars
<1>4. /\ \A k \in Line : up'[k] = up[k] \/ up'[k] = <<Join>>
      /\ \A k \in Line : k # l => status'[k] = status[k]
      /\ l \notin bound /\ view[v] = NoRoom
  BY <1>1, <1>2, <1>3 DEF TypeInv, AutoTypeOK, LinesInv
<1>5. \A k \in Line, x \in Round, by \in {"effect", "click"} :
         /\ Carries(k, Open(x, by))' => Carries(k, Open(x, by))
         /\ Once(k, Open(x, by)) => Once(k, Open(x, by))'
  BY <1>4, UpLess
<1>6. \A k \in bound' : status'[k] = "open" =>
         /\ status[k] = "open" /\ view'[k[1]] = view[k[1]] /\ down'[k] = down[k]
         /\ opened'[k[1]] = opened[k[1]]
  BY <1>3, <1>4 DEF TypeInv, AutoTypeOK
<1>7. \A k \in Line \ bound' : status'[k] = "open" => view'[k[1]] = NoRoom
  BY <1>2, <1>3, <1>4 DEF Safe, PagesInv
<1> QED  BY <1>3, <1>5, <1>6, <1>7, QuietSafe

(* The others are told what they were.                                     *)
LEMMA LoseSafe ==
    ASSUME Base, Safe, NEW v \in Voter, Lose(v)
    PROVE  Safe'
<1> USE DEF Base
<1>1. PICK l \in Line : l = LineOf(v) /\ l[1] = v /\ l[2] = line[v]
  BY OwnLine
<1>2. /\ status' = [status EXCEPT ![l] = "lost"]
      /\ down' = [down EXCEPT ![l] = <<>>]
      /\ view' = [view EXCEPT ![v] = NoRoom]
      /\ opened' = [opened EXCEPT ![v] = {}]
      /\ UNCHANGED <<vacant, hostId, story, bound, up>>
  BY <1>1 DEF Lose, serverVars
<1>3. \A k \in Line : status'[k] = "open" => k # l /\ status[k] = "open"
  BY <1>2 DEF TypeInv, AutoTypeOK
<1>4. \A k \in Line : status'[k] = "open" => k[1] # v
  BY <1>1, <1>3, OwnLine DEF LinesInv, InUse
<1>5. \A k \in Line : status'[k] = "open" =>
         /\ status[k] = "open" /\ view'[k[1]] = view[k[1]] /\ down'[k] = down[k]
         /\ opened'[k[1]] = opened[k[1]]
  BY <1>2, <1>3, <1>4, LinePairs DEF TypeInv, AutoTypeOK
<1>6. \A k \in Line, x \in Round, by \in {"effect", "click"} :
         /\ Carries(k, Open(x, by))' => Carries(k, Open(x, by))
         /\ Once(k, Open(x, by)) => Once(k, Open(x, by))'
  BY <1>2, UpLess
<1>7. bound \subseteq Line
  BY DEF TypeInv, AutoTypeOK
<1>8. \A k \in Line \ bound' : status'[k] = "open" => view'[k[1]] = NoRoom
  BY <1>2, <1>5 DEF Safe, PagesInv
<1> QED  BY <1>2, <1>5, <1>6, <1>7, <1>8, QuietSafe

(* A line less is to be told.                                              *)
LEMMA BreakSafe ==
    ASSUME Base, Safe, NEW l \in Line, LineBreaks(l) \/ LineCloses(l)
    PROVE  Safe'
<1> USE DEF Base
<1>1. /\ up' = [up EXCEPT ![l] = <<>>]
      /\ UNCHANGED <<vacant, hostId, story, view, opened>>
      /\ bound' = bound \/ bound' = bound \ {l}
  BY DEF LineBreaks, LineCloses, pageVars, serverVars
<1>2. /\ \A k \in Line : status'[k] = "open" => k # l /\ status[k] = "open"
      /\ \A k \in Line : k # l => down'[k] = down[k]
  BY DEF LineBreaks, LineCloses, TypeInv, AutoTypeOK
<1>3. \A k \in Line, x \in Round, by \in {"effect", "click"} :
         /\ Carries(k, Open(x, by))' => Carries(k, Open(x, by))
         /\ Once(k, Open(x, by)) => Once(k, Open(x, by))'
  <2>1. \A k \in Line : up'[k] = up[k] \/ up'[k] = <<>>
    BY <1>1 DEF TypeInv
  <2> QED  BY <2>1, UpLess
<1>4. bound' \subseteq bound /\ bound \subseteq Line
  BY <1>1 DEF TypeInv, AutoTypeOK
<1>5. \A k \in bound' : status'[k] = "open" =>
         /\ status[k] = "open" /\ view'[k[1]] = view[k[1]] /\ down'[k] = down[k]
         /\ opened'[k[1]] = opened[k[1]]
  BY <1>1, <1>2, <1>4
<1>6. \A k \in Line \ bound' : status'[k] = "open" => view'[k[1]] = NoRoom
  BY <1>1, <1>2 DEF Safe, PagesInv
<1> QED  BY <1>1, <1>3, <1>4, <1>5, <1>6, QuietSafe

(* Nothing happens.                                                        *)
LEMMA StutterSafe ==
    ASSUME Base, Safe, UNCHANGED vars
    PROVE  Safe'
<1>1. UNCHANGED <<vacant, hostId, story, bound, view, opened, down, up, status>>
  BY DEF vars, serverVars, pageVars, lineVars
<1>2. \A l \in Line, x \in Round, by \in {"effect", "click"} :
         /\ Carries(l, Open(x, by))' => Carries(l, Open(x, by))
         /\ Once(l, Open(x, by)) => Once(l, Open(x, by))'
  BY <1>1, UpLess DEF Base
<1>3. \A l \in Line \ bound' : status'[l] = "open" => view'[l[1]] = NoRoom
  BY <1>1 DEF Safe, PagesInv
<1> QED  BY <1>1, <1>2, <1>3, QuietSafe

(* The page takes a message: its store is the next on the way.             *)
LEMMA DeliverSafe ==
    ASSUME Base, Safe, NEW v \in Voter, Deliver(v)
    PROVE  Safe'
<1> USE DEF Base, Safe
<1>1. PICK l \in Line : l = LineOf(v) /\ l[1] = v /\ l[2] = line[v]
  BY OwnLine
<1>2. /\ page[v] # "off" /\ down[l] # <<>>
      /\ view' = [view EXCEPT ![v] = Folded(view[v], Head(down[l]))]
      /\ down' = [down EXCEPT ![l] = Tail(down[l])]
      /\ UNCHANGED <<vacant, hostId, story, bound, opened, status, up>>
  BY <1>1 DEF Deliver, serverVars
<1>3. \A k \in Line : \A n : (Carries(k, n)' <=> Carries(k, n)) /\ (Once(k, n)' <=> Once(k, n))
  BY <1>2, LineSame
<1>4. SeatInv' /\ OpensInv'
  BY <1>2, <1>3 DEF SeatInv, OpensInv, Past
<1>5. \A k \in Line, w \in View : Fair(k[1], w) => Fair(k[1], w)'
  <2>1. \A x \in Round : (Past(x)' <=> Past(x)) /\ (Asked(x)' <=> Asked(x))
    BY <1>2, <1>3 DEF Past, Asked
  <2> QED  BY <1>2, <2>1, FairKept
<1>6. l \in bound /\ status[l] = "open"
  BY <1>2 DEF LinesInv
<1>7. \A k \in Line : status[k] = "open" /\ k # l => k[1] # v
  BY <1>1, OwnLine DEF LinesInv, InUse
<1>8. ASSUME NEW k \in bound', status'[k] = "open"
      PROVE  Told(k)'
  <2>1. k \in Line /\ k \in bound /\ status[k] = "open" /\ Told(k) /\ down[k] \in Seq(DownMsg)
    BY <1>2, <1>8 DEF PagesInv, TypeInv, AutoTypeOK
  <2>2. CASE k = l
    <3>1. view'[k[1]] = Folded(view[k[1]], Head(down[k])) /\ down'[k] = Tail(down[k])
      BY <1>1, <1>2, <2>2 DEF TypeInv, AutoTypeOK
    <3> QED  BY <1>2, <1>5, <2>1, <2>2, <3>1, AgreesKept, ToldLess
  <2>3. CASE k # l
    <3>1. view'[k[1]] = view[k[1]] /\ down'[k] = down[k]
      BY <1>2, <1>7, <2>1, <2>3, LinePairs DEF TypeInv, AutoTypeOK
    <3> QED  BY <1>2, <1>5, <2>1, <3>1, AgreesKept, ToldStays
  <2> QED  BY <2>2, <2>3
<1>9. ASSUME NEW k \in Line \ bound', status'[k] = "open"
      PROVE  view'[k[1]] = NoRoom
  <2>1. k # l /\ k \notin bound /\ status[k] = "open"
    BY <1>2, <1>6, <1>9
  <2>2. view'[k[1]] = view[k[1]]
    BY <1>2, <1>7, <2>1, LinePairs DEF TypeInv, AutoTypeOK
  <2> QED  BY <2>1, <2>2 DEF PagesInv
<1> QED  BY <1>4, <1>8, <1>9 DEF PagesInv

-----------------------------------------------------------------------------
(* The steps that ask.                                                     *)

(* A page that shows the room is told of it, and its store is fair.        *)
LEMMA ShownFair ==
    ASSUME Base, Safe, NEW v \in Voter, page[v] = "on", status[LineOf(v)] = "open"
    PROVE  Told(LineOf(v)) /\ Fair(v, view[v])
<1>1. PICK l \in Line : l = LineOf(v) /\ l[1] = v
  BY OwnLine DEF Base
<1>2. l \in bound
  BY <1>1 DEF Base, LinesInv
<1>3. Told(l)
  BY <1>1, <1>2 DEF Safe, PagesInv
<1>4. Fair(l[1], view[l[1]])
  BY <1>3, ToldEnds DEF Base
<1> QED  BY <1>1, <1>3, <1>4

(* What a page puts on its line, and what else is on the lines.            *)
LEMMA SentOne ==
    ASSUME Base, NEW v \in Voter, NEW m \in UpMsg, Sends(v, m), NEW l \in Line, NEW n
    PROVE  /\ Carries(l, n)' => \/ Carries(l, n)
                                \/ n = m /\ l = LineOf(v) /\ status[LineOf(v)] = "open"
           /\ Once(l, n) /\ (n = m => ~Carries(l, n)) => Once(l, n)'
<1>1. up[l] \in Seq(UpMsg)
  BY DEF Base, TypeInv
<1>2. CASE up'[l] = up[l]
  BY <1>2, LineSame
<1>3. CASE /\ l = LineOf(v) /\ status[LineOf(v)] = "open" /\ up'[l] = Append(up[l], m)
  BY <1>1, <1>3, LineAppended
<1> QED  BY <1>2, <1>3, SentUp DEF Base

(* Nothing else than an effect's request is sent, and Close vote is        *)
(* clicked on cards that the page shows.                                   *)
LEMMA SendSafe ==
    ASSUME Base, Safe, NEW v \in Voter, NEW m \in UpMsg, Sends(v, m), page[v] = "on",
           \A x \in Round : m # Open(x, "effect"),
           \A x \in Round : m = Open(x, "click") => view[v].story[x] = "revealed",
           UNCHANGED <<vacant, hostId, story, bound, view, opened, status, down>>
    PROVE  Safe'
<1> USE DEF Safe
<1>1. \A l \in Line, x \in Round :
         /\ Carries(l, Open(x, "effect"))' => Carries(l, Open(x, "effect"))
         /\ Once(l, Open(x, "effect")) => Once(l, Open(x, "effect"))'
  BY SentOne
<1>2. \A l \in Line, x \in Round :
         Carries(l, Open(x, "click"))' => Carries(l, Open(x, "click")) \/ Past(x)
  <2> SUFFICES ASSUME NEW l \in Line, NEW x \in Round, Carries(l, Open(x, "click"))',
                      ~Carries(l, Open(x, "click"))
               PROVE  Past(x)
    OBVIOUS
  <2>1. m = Open(x, "click") /\ status[LineOf(v)] = "open"
    <3>1. PICK n : n = Open(x, "click")
      OBVIOUS
    <3>2. Carries(l, n)' /\ ~Carries(l, n)
      BY <3>1
    <3> QED  BY <3>1, <3>2, SentOne
  <2>2. Fair(v, view[v])
    BY <2>1, ShownFair
  <2> QED  BY <2>1, <2>2 DEF Fair
<1>3. /\ \A x \in Round : Past(x)' <=> Past(x)
      /\ \A x \in Round : Asked(x)' => Asked(x)
  BY <1>1 DEF Past, Asked
<1>4. SeatInv'
  BY DEF SeatInv
<1>5. OpensInv'
  <2>1. \A l \in Line, x \in Round : Carries(l, Open(x, "effect"))' => story'[x] = "pending"
    BY <1>1 DEF OpensInv
  <2> QED  BY <1>1, <1>2, <1>3, <2>1, OpensKept
<1>6. ASSUME NEW l \in bound', status'[l] = "open"
      PROVE  Told(l)'
  <2>1. \A w \in View : Fair(l[1], w) => Fair(l[1], w)'
    BY <1>3, FairKept
  <2>2. Told(l)
    BY <1>6 DEF PagesInv
  <2> QED  BY <2>1, <2>2, AgreesKept, ToldStays
<1> QED  BY <1>4, <1>5, <1>6 DEF PagesInv

(* An effect asks for a round that its page shows as pending.              *)
LEMMA OpenRoundSafe ==
    ASSUME Base, Safe, NEW v \in Voter, OpenRound(v)
    PROVE  Safe'
<1> USE DEF Safe
<1>1. PICK x \in Round :
        /\ view[v].story[x] = "pending" /\ x \notin opened[v]
        /\ page[v] = "on" /\ view[v].host = v /\ Sends(v, Open(x, "effect"))
        /\ opened' = [opened EXCEPT ![v] = opened[v] \cup {x}]
        /\ UNCHANGED <<serverVars, page, line, view, addSent, visits, status, down>>
  BY EffectSends DEF Base
<1>2. UNCHANGED <<vacant, hostId, story, bound, view, status, down>>
  BY <1>1 DEF serverVars
<1>3. PICK m \in UpMsg : m = Open(x, "effect")
  BY Messages
<1>4. opened'[v] = opened[v] \cup {x} /\ \A w \in Voter : w # v => opened'[w] = opened[w]
  BY <1>1 DEF Base, TypeInv, AutoTypeOK
<1>5. PICK l \in Line : l = LineOf(v) /\ l[1] = v
  BY OwnLine DEF Base
<1>6. ASSUME NEW k \in Line, NEW y \in Round
      PROVE  /\ Carries(k, Open(y, "click"))' => Carries(k, Open(y, "click"))
             /\ Carries(k, Open(y, "effect"))' =>
                   \/ Carries(k, Open(y, "effect"))
                   \/ y = x /\ k = l /\ status[l] = "open"
             /\ Once(k, Open(y, "effect")) /\ (y = x => ~Carries(k, Open(y, "effect")))
                   => Once(k, Open(y, "effect"))'
  <2>1. PICK n, c : n = Open(y, "effect") /\ c = Open(y, "click")
    OBVIOUS
  <2>2. c # m /\ (n = m => y = x)
    BY <1>3, <2>1, MessageTypes
  <2>3. /\ Carries(k, c)' => Carries(k, c)
        /\ Carries(k, n)' => Carries(k, n) \/ (n = m /\ k = l /\ status[l] = "open")
        /\ Once(k, n) /\ (n = m => ~Carries(k, n)) => Once(k, n)'
    BY <1>1, <1>3, <1>5, <2>2, SentOne
  <2> QED  BY <2>1, <2>2, <2>3
<1>7. status[l] = "open" => hostId = v /\ story[x] = "pending" /\ ~Asked(x)
  BY <1>1, <1>5, ShownFair DEF Fair
<1>8. \A y \in Round : Past(y)' <=> Past(y)
  BY <1>2 DEF Past
<1>9. SeatInv'
  BY <1>2 DEF SeatInv
<1>10. OpensInv'
  <2> SUFFICES ASSUME NEW k \in Line, NEW y \in Round
               PROVE  /\ Carries(k, Open(y, "click"))' => Past(y)'
                      /\ Carries(k, Open(y, "effect"))' =>
                            /\ k[1] = hostId' /\ story'[y] = "pending"
                            /\ Once(k, Open(y, "effect"))'
                            /\ \A j \in Line : Carries(j, Open(y, "effect"))' => j = k
    BY DEF OpensInv
  <2>1. Carries(k, Open(y, "click"))' => Past(y)'
    BY <1>6, <1>8 DEF OpensInv
  <2>2. ASSUME Carries(k, Open(y, "effect"))', Carries(k, Open(y, "effect"))
        PROVE  /\ k[1] = hostId' /\ story'[y] = "pending"
               /\ Once(k, Open(y, "effect"))'
               /\ \A j \in Line : Carries(j, Open(y, "effect"))' => j = k
    <3>1. k[1] = hostId /\ story[y] = "pending" /\ Once(k, Open(y, "effect"))
      BY <2>2 DEF OpensInv
    <3>2. \A j \in Line : Carries(j, Open(y, "effect")) => j = k
      BY <2>2 DEF OpensInv
    <3>3. ~(y = x /\ status[l] = "open")
      BY <1>7, <2>2 DEF Asked
    <3>4. CASE y # x
      BY <1>2, <1>6, <3>1, <3>2, <3>4
    <3>5. CASE y = x
      <4>1. up' = up
        BY <1>1, <1>3, <1>5, <3>3, <3>5, SentUp DEF Base
      <4>2. \A j \in Line : \A n : (Carries(j, n)' <=> Carries(j, n)) /\ (Once(j, n)' <=> Once(j, n))
        BY <4>1, LineSame
      <4> QED  BY <1>2, <3>1, <3>2, <4>2
    <3> QED  BY <3>4, <3>5
  <2>3. ASSUME Carries(k, Open(y, "effect"))', ~Carries(k, Open(y, "effect"))
        PROVE  /\ k[1] = hostId' /\ story'[y] = "pending"
               /\ Once(k, Open(y, "effect"))'
               /\ \A j \in Line : Carries(j, Open(y, "effect"))' => j = k
    <3>1. y = x /\ k = l /\ status[l] = "open"
      BY <1>6, <2>3
    <3>2. \A j \in Line : ~Carries(j, Open(y, "effect"))
      BY <1>7, <3>1 DEF Asked
    <3>3. Once(k, Open(y, "effect"))
      BY <3>2 DEF Once, Carries
    <3> QED  BY <1>2, <1>5, <1>6, <1>7, <3>1, <3>2, <3>3
  <2> QED  BY <2>1, <2>2, <2>3
<1>11. ASSUME NEW k \in bound', status'[k] = "open"
       PROVE  Told(k)'
  <2>1. k \in Line /\ k[1] \in Voter
    BY <1>2, LinePairs DEF Base, TypeInv, AutoTypeOK
  <2>2. hostId = k[1] => \A y \in Round \ opened'[k[1]] :
                            /\ y \notin opened[k[1]]
                            /\ ~Asked(y) => ~Asked(y)'
    <3> SUFFICES ASSUME hostId = k[1], NEW y \in Round \ opened'[k[1]]
                 PROVE  y \notin opened[k[1]] /\ (~Asked(y) => ~Asked(y)')
      OBVIOUS
    <3>1. y \notin opened[k[1]]
      BY <1>4, <2>1
    <3>2. status[l] = "open" => y # x
      BY <1>4, <1>7
    <3> QED  BY <1>6, <3>1, <3>2 DEF Asked
  <2>3. \A w \in View : Fair(k[1], w) => Fair(k[1], w)'
    BY <1>2, <1>8, <2>2, FairKept
  <2>4. Told(k)
    BY <1>2, <1>11 DEF PagesInv
  <2> QED  BY <1>2, <2>3, <2>4, AgreesKept, ToldStays
<1> QED  BY <1>2, <1>9, <1>10, <1>11 DEF PagesInv

-----------------------------------------------------------------------------
(* The steps of the server.                                                *)

(* What it takes from a line is not on the way any more.                   *)
LEMMA TakenUp ==
    ASSUME Base, NEW l \in Line, Receive(l)
    PROVE  /\ UNCHANGED <<view, opened, status>> /\ bound' = bound \cup {l}
           /\ \A k \in Line, x \in Round, by \in {"effect", "click"} :
                 /\ Carries(k, Open(x, by))' => Carries(k, Open(x, by))
                 /\ Once(k, Open(x, by)) => Once(k, Open(x, by))'
           /\ \A n : n = Head(up[l]) => Carries(l, n) /\ (Once(l, n) => ~Carries(l, n)')
<1>1. /\ up[l] # <<>> /\ up' = [up EXCEPT ![l] = Tail(up[l])]
      /\ UNCHANGED <<view, opened, status>> /\ bound' = bound \cup {l}
  BY Received DEF pageVars
<1>2. /\ up'[l] = Tail(up[l]) /\ up[l] \in Seq(UpMsg)
      /\ \A k \in Line : k # l => up'[k] = up[k]
  BY <1>1 DEF Base, TypeInv
<1>3. \A k \in Line, x \in Round, by \in {"effect", "click"} :
         /\ Carries(k, Open(x, by))' => Carries(k, Open(x, by))
         /\ Once(k, Open(x, by)) => Once(k, Open(x, by))'
  BY <1>1, <1>2, UpLess DEF Base
<1>4. ASSUME NEW n, n = Head(up[l])
      PROVE  Carries(l, n) /\ (Once(l, n) => ~Carries(l, n)')
  BY <1>1, <1>2, <1>4, LineTail
<1> QED  BY <1>1, <1>3, <1>4

(* The server tells some of its lines.                                     *)
LEMMA ToldSome ==
    ASSUME Base, Safe, NEW m \in DownMsg, NEW lines \in SUBSET bound,
           down' = SentTo(lines, m), UNCHANGED <<view, status, bound>>,
           \A k \in bound : \A w \in View : Fair(k[1], w) => Fair(k[1], w)',
           \A k \in lines : \A e, f \in View :
              Agrees(e) /\ Fair(k[1], e) /\ f = Folded(e, m) => Agrees(f)' /\ Fair(k[1], f)',
           \A k \in bound \ lines : \A e \in View : Agrees(e) => Agrees(e)'
    PROVE  PagesInv'
<1>0. \A k \in Line : down'[k] = IF k \in lines /\ status[k] = "open" THEN Append(down[k], m)
                                                                      ELSE down[k]
  BY SentDown DEF Base
<1>1. ASSUME NEW k \in bound, status[k] = "open"
      PROVE  Told(k)'
  <2>1. k \in Line /\ down[k] \in Seq(DownMsg) /\ view'[k[1]] = view[k[1]]
    BY DEF Base, TypeInv, AutoTypeOK
  <2>2. Told(k)
    BY <1>1 DEF Safe, PagesInv
  <2>3. CASE k \in lines
    <3>1. down'[k] = Append(down[k], m)
      BY <1>0, <1>1, <2>1, <2>3
    <3> QED  BY <2>1, <2>2, <2>3, <3>1, ToldMore
  <2>4. CASE k \notin lines
    <3>1. down'[k] = down[k]
      BY <1>0, <2>1, <2>4
    <3> QED  BY <2>1, <2>2, <2>4, <3>1, ToldStays
  <2> QED  BY <2>3, <2>4
<1> QED  BY <1>1 DEF PagesInv, Safe

(* What it tells all of them of a round.                                   *)
LEMMA RoundTold ==
    ASSUME Base, Safe, NEW l \in bound, Receive(l), UNCHANGED <<vacant, hostId>>,
           NEW x \in Round, NEW to \in {"pending", "active", "revealed"},
           story' = [story EXCEPT ![x] = to], down' = SentTo(bound, Becomes(x, to)),
           \A y \in Round : Past(y) => Past(y)',
           to = "pending" => ~Asked(x)',
           to # "pending" => story[x] # "pending" \/ Asked(x),
           to = "active" => \A y \in Round : story[y] # "active",
           \A k \in Line : Carries(k, Open(x, "effect"))' => to = "pending"
    PROVE  Safe'
<1> USE DEF Base
<1>1. /\ UNCHANGED <<view, opened, status, bound>>
      /\ \A k \in Line, y \in Round, by \in {"effect", "click"} :
            /\ Carries(k, Open(y, by))' => Carries(k, Open(y, by))
            /\ Once(k, Open(y, by)) => Once(k, Open(y, by))'
  <2>1. l \in Line
    BY DEF TypeInv, AutoTypeOK
  <2> QED  BY <2>1, TakenUp
<1>2. story'[x] = to /\ \A y \in Round : y # x => story'[y] = story[y]
  BY DEF TypeInv, AutoTypeOK
<1>3. \A y \in Round : Asked(y)' => Asked(y)
  BY <1>1 DEF Asked
<1>4. SeatInv'
  BY <1>1 DEF SeatInv, Safe
<1>5. OpensInv'
  <2>1. \A k \in Line, y \in Round : Carries(k, Open(y, "effect"))' => story'[y] = "pending"
    <3> SUFFICES ASSUME NEW k \in Line, NEW y \in Round, Carries(k, Open(y, "effect"))'
                 PROVE  story'[y] = "pending"
      OBVIOUS
    <3>1. story[y] = "pending"
      BY <1>1 DEF Safe, OpensInv
    <3> QED  BY <1>2, <3>1
  <2> QED  BY <1>1, <2>1, OpensKept DEF Safe
<1>6. \A v \in Voter, w \in View : Fair(v, w) => Fair(v, w)'
  <2>1. \A y \in Round : story[y] = "pending" /\ ~Asked(y) => story'[y] = "pending" /\ ~Asked(y)'
    BY <1>2, <1>3
  <2> QED  BY <1>1, <2>1, FairKept
<1>7. ASSUME NEW v \in Voter, NEW e \in View, NEW f \in View,
             Agrees(e), Fair(v, e), f = Folded(e, Becomes(x, to))
      PROVE  Agrees(f)' /\ Fair(v, f)'
  <2>1. /\ f.host = e.host /\ f.vacant = e.vacant
        /\ f.story[x] \in {"absent", to}
        /\ \A y \in Round : y # x => f.story[y] = e.story[y]
    <3>1. CASE to = "pending"
      BY <1>7, <3>1, FoldedPending
    <3>2. CASE to = "revealed"
      BY <1>7, <3>2, FoldedRevealed
    <3>3. CASE to = "active"
      <4>1. \A y \in Round : e.story[y] # "active"
        BY <1>7, <3>3 DEF Agrees
      <4> QED  BY <1>7, <3>3, <4>1, FoldedActive
    <3> QED  BY <3>1, <3>2, <3>3
  <2>2. Agrees(f)'
    BY <1>2, <1>7, <2>1 DEF Agrees
  <2>3. \A y \in Round : f.story[y] \in {"active", "revealed"} => Past(y)'
    BY <1>2, <1>7, <2>1 DEF Fair, Past
  <2>4. ASSUME f.host = v
        PROVE  /\ hostId' = v
               /\ \A y \in Round \ opened'[v] :
                     f.story[y] = "pending" => story'[y] = "pending" /\ ~Asked(y)'
    BY <1>1, <1>2, <1>3, <1>7, <2>1, <2>4 DEF Fair
  <2> QED  BY <2>2, <2>3, <2>4 DEF Fair
<1>8. PagesInv'
  <2>1. Becomes(x, to) \in DownMsg /\ \A k \in bound : k[1] \in Voter
    BY Messages, LinePairs DEF TypeInv, AutoTypeOK
  <2>2. PICK m \in DownMsg : m = Becomes(x, to)
    BY <2>1
  <2> QED  BY <1>1, <1>6, <1>7, <2>1, <2>2, ToldSome
<1> QED  BY <1>4, <1>5, <1>8 DEF Safe

(* A round is added: no request for it is on the way.                      *)
LEMMA AddSafe ==
    ASSUME Base, Safe, NEW l \in bound, Receive(l), Head(up[l]) = Add, ServeAdd(l)
    PROVE  Safe'
<1>1. l \in Line
  BY DEF Base, TypeInv, AutoTypeOK
<1>2. PICK S \in SUBSET Round : S = {y \in Round : story[y] = "absent"}
  OBVIOUS
<1>3. S # {}
  <2>1. Carries(l, Add)
    BY <1>1, TakenUp
  <2> QED  BY <1>1, <1>2, <2>1, RoundLeft
<1>4. PICK x \in Round : x = Min(S) /\ story[x] = "absent"
  BY <1>2, <1>3, FirstOf
<1>5. /\ story' = [story EXCEPT ![x] = "pending"]
      /\ down' = SentTo(bound, Becomes(x, "pending"))
      /\ UNCHANGED <<vacant, hostId>>
  BY <1>2, <1>4 DEF ServeAdd
<1>6. \A k \in Line : ~Carries(k, Open(x, "effect"))
  BY <1>4 DEF Safe, OpensInv
<1>7. \A k \in Line : ~Carries(k, Open(x, "effect"))'
  BY <1>1, <1>6, TakenUp
<1>8. ~Asked(x)'
  BY <1>7 DEF Asked
<1>9. \A y \in Round : Past(y) => Past(y)'
  BY <1>4, <1>5 DEF Past, Base, TypeInv, AutoTypeOK
<1> QED  BY <1>5, <1>7, <1>8, <1>9, RoundTold

(* A round is opened: an effect asked for it while it was pending, or it   *)
(* was clicked on.                                                         *)
LEMMA OpenSafe ==
    ASSUME Base, Safe, NEW l \in bound, Receive(l), NEW x \in Round,
           NEW by \in {"effect", "click"}, Head(up[l]) = Open(x, by), ServeOpen(l, x)
    PROVE  Safe'
<1>1. /\ story' = [story EXCEPT ![x] = "active"]
      /\ down' = SentTo(bound, Becomes(x, "active"))
      /\ UNCHANGED <<vacant, hostId>>
      /\ \A y \in Round : story[y] # "active"
  BY DEF ServeOpen, Openable
<1>2. l \in Line
  BY DEF Base, TypeInv, AutoTypeOK
<1>3. PICK n : n = Open(x, by)
  OBVIOUS
<1>4. /\ \A k \in Line : Carries(k, Open(x, "effect"))' => Carries(k, Open(x, "effect"))
      /\ Carries(l, n) /\ (Once(l, n) => ~Carries(l, n)')
  BY <1>2, <1>3, TakenUp
<1>5. story[x] # "pending" \/ Asked(x)
  BY <1>2, <1>3, <1>4 DEF Safe, OpensInv, Past, Asked
<1>6. \A k \in Line : ~Carries(k, Open(x, "effect"))'
  <2> SUFFICES ASSUME NEW k \in Line, Carries(k, Open(x, "effect"))' PROVE FALSE
    OBVIOUS
  <2>1. Carries(k, Open(x, "effect"))
    BY <1>4
  <2>2. /\ story[x] = "pending" /\ Once(k, Open(x, "effect"))
        /\ \A j \in Line : Carries(j, Open(x, "effect")) => j = k
    BY <2>1 DEF Safe, OpensInv
  <2>3. CASE by = "effect"
    <3>1. l = k
      BY <1>2, <1>3, <1>4, <2>2, <2>3
    <3> QED  BY <1>3, <1>4, <2>2, <2>3, <3>1
  <2>4. CASE by = "click"
    BY <1>2, <1>3, <1>4, <2>2, <2>4 DEF Safe, OpensInv, Past
  <2> QED  BY <2>3, <2>4
<1>7. \A y \in Round : Past(y) => Past(y)'
  BY <1>1 DEF Past, Base, TypeInv, AutoTypeOK
<1> QED  BY <1>1, <1>5, <1>6, <1>7, RoundTold

(* A round is revealed.                                                    *)
LEMMA RevealSafe ==
    ASSUME Base, Safe, NEW l \in bound, Receive(l), NEW x \in Round, ServeReveal(l, x)
    PROVE  Safe'
<1>1. /\ story[x] = "active" /\ story' = [story EXCEPT ![x] = "revealed"]
      /\ down' = SentTo(bound, Becomes(x, "revealed"))
      /\ UNCHANGED <<vacant, hostId>>
  BY DEF ServeReveal
<1>2. l \in Line
  BY DEF Base, TypeInv, AutoTypeOK
<1>3. \A k \in Line : ~Carries(k, Open(x, "effect"))'
  BY <1>1, <1>2, TakenUp DEF Safe, OpensInv
<1>4. \A y \in Round : Past(y) => Past(y)'
  BY <1>1 DEF Past, Base, TypeInv, AutoTypeOK
<1> QED  BY <1>1, <1>3, <1>4, RoundTold

(* The seat is given away when nobody is bound to it: no request of the    *)
(* one who had it is left.                                                 *)
LEMMA ClaimSafe ==
    ASSUME Base, Safe, NEW l \in bound, Receive(l), ServeClaim(l)
    PROVE  Safe'
<1> USE DEF Base
<1>0. l \in Line /\ bound \subseteq Line
  BY DEF TypeInv, AutoTypeOK
<1>1. /\ vacant' = FALSE /\ UNCHANGED <<story, bound, view, opened, status>>
      /\ hostId' = IF vacant THEN l[1] ELSE hostId
      /\ down' = SentTo(IF vacant THEN bound ELSE {l}, HostIs(hostId'))
  BY <1>0, TakenUp DEF ServeClaim
<1>2. \A k \in Line, x \in Round, by \in {"effect", "click"} :
         /\ Carries(k, Open(x, by))' => Carries(k, Open(x, by))
         /\ Once(k, Open(x, by)) => Once(k, Open(x, by))'
  BY <1>0, TakenUp
<1>3. hostId \in Voter /\ hostId' \in Voter /\ vacant \in BOOLEAN
  BY <1>0, <1>1, LinePairs DEF TypeInv, AutoTypeOK
<1>4. /\ \A x \in Round : Past(x)' <=> Past(x)
      /\ \A x \in Round : Asked(x)' => Asked(x)
  BY <1>1, <1>2 DEF Past, Asked
<1>5. SeatInv'
  BY <1>1 DEF SeatInv
<1>6. vacant => \A x \in Round : ~Asked(x)
  <2> SUFFICES ASSUME vacant, NEW x \in Round, NEW k \in Line, Carries(k, Open(x, "effect"))
               PROVE  FALSE
    BY DEF Asked
  <2>1. k \notin bound
    BY DEF Safe, SeatInv, OpensInv
  <2>2. \A i \in 1..Len(up[k]) : up[k][i] = Join
    BY <2>1 DEF LinesInv
  <2>3. Open(x, "effect") # Join
    BY MessageTypes
  <2> QED  BY <2>2, <2>3 DEF Carries
<1>7. OpensInv'
  <2>1. \A k \in Line, x \in Round :
           Carries(k, Open(x, "effect"))' => hostId' = hostId /\ story'[x] = "pending"
    <3> SUFFICES ASSUME NEW k \in Line, NEW x \in Round, Carries(k, Open(x, "effect"))'
                 PROVE  hostId' = hostId /\ story'[x] = "pending"
      OBVIOUS
    <3>1. Carries(k, Open(x, "effect"))
      BY <1>2
    <3>2. ~vacant /\ story[x] = "pending"
      BY <1>6, <3>1 DEF Asked, Safe, OpensInv
    <3> QED  BY <1>1, <3>2
  <2> QED  BY <1>2, <1>4, <2>1, OpensKept DEF Safe
<1>8. ASSUME NEW k \in bound, NEW w \in View, Fair(k[1], w)
      PROVE  Fair(k[1], w)'
  <2>1. hostId = k[1] => hostId' = hostId
    BY <1>1 DEF Safe, SeatInv
  <2> QED  BY <1>1, <1>4, <1>8, <2>1, FairKept
<1>9. ASSUME NEW k \in bound, NEW e \in View, NEW f \in View,
             Agrees(e), Fair(k[1], e), f = Folded(e, HostIs(hostId'))
      PROVE  Agrees(f)' /\ Fair(k[1], f)'
  <2>1. e.host # NoVoter
    BY <1>3, <1>9, AutoAssumption DEF Agrees
  <2>2. f.host = hostId' /\ ~f.vacant /\ f.story = e.story /\ f.vacant \in BOOLEAN
    BY <1>3, <1>9, <2>1, FoldedReclaim DEF View
  <2>3. Agrees(f)'
    BY <1>1, <1>9, <2>2 DEF Agrees
  <2>4. \A y \in Round : f.story[y] \in {"active", "revealed"} => Past(y)'
    BY <1>4, <1>9, <2>2 DEF Fair
  <2>5. ASSUME f.host = k[1]
        PROVE  /\ hostId' = k[1]
               /\ \A y \in Round \ opened'[k[1]] :
                     f.story[y] = "pending" => story'[y] = "pending" /\ ~Asked(y)'
    <3>1. CASE vacant
      BY <1>1, <1>4, <1>6, <1>9, <2>2, <2>5, <3>1 DEF Agrees
    <3>2. CASE ~vacant
      BY <1>1, <1>4, <1>9, <2>2, <2>5, <3>2 DEF Agrees, Fair
    <3> QED  BY <3>1, <3>2
  <2> QED  BY <2>3, <2>4, <2>5 DEF Fair
<1>10. PagesInv'
  <2>1. PICK lines \in SUBSET bound : lines = IF vacant THEN bound ELSE {l}
    OBVIOUS
  <2>2. PICK m \in DownMsg : m = HostIs(hostId')
    BY <1>3, Messages
  <2>3. \A k \in bound \ lines : \A e \in View : Agrees(e) => Agrees(e)'
    BY <1>1, <1>3, <2>1, AgreesKept
  <2> QED  BY <1>1, <1>8, <1>9, <2>1, <2>2, <2>3, ToldSome
<1> QED  BY <1>5, <1>7, <1>10 DEF Safe

(* The seat is vacant: its host has no line.                               *)
LEMMA VacateSafe ==
    ASSUME Base, Safe, Vacate
    PROVE  Safe'
<1> USE DEF Base
<1>1. /\ ~vacant /\ vacant' = TRUE /\ down' = SentTo(bound, IsVacant)
      /\ \A l \in bound : l[1] # hostId
      /\ UNCHANGED <<hostId, story, bound, view, opened, status, up>>
  BY DEF Vacate, pageVars
<1>2. \A k \in Line : \A n : (Carries(k, n)' <=> Carries(k, n)) /\ (Once(k, n)' <=> Once(k, n))
  BY <1>1, LineSame
<1>3. \A x \in Round : (Past(x)' <=> Past(x)) /\ (Asked(x)' <=> Asked(x))
  BY <1>1, <1>2 DEF Past, Asked
<1>4. SeatInv' /\ OpensInv'
  BY <1>1, <1>2, <1>3 DEF SeatInv, OpensInv, Safe
<1>5. \A k \in bound, w \in View : Fair(k[1], w) => Fair(k[1], w)'
  BY <1>1, <1>3, FairKept
<1>6. ASSUME NEW k \in bound, NEW e \in View, NEW f \in View,
             Agrees(e), Fair(k[1], e), f = Folded(e, IsVacant)
      PROVE  Agrees(f)' /\ Fair(k[1], f)'
  <2>1. f.story = e.story /\ f.host = e.host /\ f.vacant = TRUE
    BY <1>6, FoldedVacant DEF View
  <2>2. Agrees(f)'
    BY <1>1, <1>6, <2>1 DEF Agrees
  <2>3. Fair(k[1], e)'
    BY <1>5, <1>6
  <2> QED  BY <2>1, <2>2, <2>3 DEF Fair
<1>7. PagesInv'
  <2>1. PICK m \in DownMsg : m = IsVacant
    BY Messages
  <2> QED  BY <1>1, <1>5, <1>6, <2>1, ToldSome
<1> QED  BY <1>4, <1>7 DEF Safe

(* The server answers with an error.                                       *)
LEMMA ErrorSafe ==
    ASSUME Base, Safe, NEW l \in bound, Receive(l), UNCHANGED <<serverVars, down>>
    PROVE  Safe'
<1>1. l \in Line
  BY DEF Base, TypeInv, AutoTypeOK
<1>2. UNCHANGED <<vacant, hostId, story, bound, view, opened, status, down>>
  BY <1>1, TakenUp DEF serverVars
<1>3. \A k \in Line, x \in Round, by \in {"effect", "click"} :
         /\ Carries(k, Open(x, by))' => Carries(k, Open(x, by))
         /\ Once(k, Open(x, by)) => Once(k, Open(x, by))'
  BY <1>1, TakenUp
<1>4. \A k \in Line \ bound' : status'[k] = "open" => view'[k[1]] = NoRoom
  BY <1>2 DEF Safe, PagesInv
<1> QED  BY <1>2, <1>3, <1>4, QuietSafe

(* Who joins is led to the snapshot; a host who is back is told of to all. *)
LEMMA JoinSafe ==
    ASSUME Base, Safe, NEW l \in Line, Receive(l), ServeJoin(l)
    PROVE  Safe'
<1> USE DEF Base
<1>1. /\ UNCHANGED <<story, hostId, view, opened, status>> /\ bound' = bound \cup {l}
      /\ vacant' = (vacant /\ l[1] # hostId)
  BY TakenUp DEF ServeJoin
<1>2. \A k \in Line, x \in Round, by \in {"effect", "click"} :
         /\ Carries(k, Open(x, by))' => Carries(k, Open(x, by))
         /\ Once(k, Open(x, by)) => Once(k, Open(x, by))'
  BY TakenUp
<1>3. hostId \in Voter /\ vacant \in BOOLEAN /\ vacant' \in BOOLEAN /\ bound \subseteq Line
  BY <1>1 DEF TypeInv, AutoTypeOK
<1>4. /\ \A x \in Round : Past(x)' <=> Past(x)
      /\ \A x \in Round : Asked(x)' => Asked(x)
  BY <1>1, <1>2 DEF Past, Asked
<1>5. SeatInv'
  BY <1>1 DEF SeatInv, Safe
<1>6. OpensInv'
  <2>1. \A k \in Line, x \in Round : Carries(k, Open(x, "effect"))' => story'[x] = "pending"
    BY <1>1, <1>2 DEF Safe, OpensInv
  <2> QED  BY <1>1, <1>2, <1>4, <2>1, OpensKept DEF Safe
<1>7. \A v \in Voter, w \in View : Fair(v, w) => Fair(v, w)'
  BY <1>1, <1>4, FairKept
<1>8. PICK told \in [Line -> Seq(DownMsg)] :
        /\ \A k \in Line :
              told[k] = IF vacant' # vacant /\ k \in bound' /\ status[k] = "open"
                        THEN Append(down[k], HostIs(hostId)) ELSE down[k]
        /\ \A k \in Line :
              down'[k] = IF k = l /\ status[k] = "open" THEN Append(told[k], Snapshot)
                                                        ELSE told[k]
  <2>1. PICK t : t = IF vacant' # vacant THEN SentTo(bound', HostIs(hostId)) ELSE down
    OBVIOUS
  <2>2. HostIs(hostId) \in DownMsg
    BY <1>3, Messages
  <2>3. /\ t \in [Line -> Seq(DownMsg)]
        /\ \A k \in Line : t[k] = IF vacant' # vacant /\ k \in bound' /\ status[k] = "open"
                                  THEN Append(down[k], HostIs(hostId)) ELSE down[k]
    <3>1. CASE vacant' # vacant
      BY <2>1, <2>2, <3>1, SentDown
    <3>2. CASE vacant' = vacant
      BY <2>1, <3>2 DEF TypeInv
    <3> QED  BY <3>1, <3>2
  <2>4. \A k \in Line : down'[k] = IF k = l /\ status[k] = "open" THEN Append(t[k], Snapshot)
                                                                  ELSE t[k]
    BY <2>1, JoinDown
  <2> QED  BY <2>3, <2>4
<1>9. ASSUME NEW k \in bound', status[k] = "open"
      PROVE  Told(k)'
  <2>1. k \in Line /\ k[1] \in Voter /\ down[k] \in Seq(DownMsg) /\ k[1] # NoVoter
    BY <1>1, <1>3, LinePairs, AutoAssumption DEF TypeInv
  <2>2. PICK T : T = {w \in View : Fair(k[1], w)'}
    OBVIOUS
  <2>3. \E e \in T : /\ Leads(T, view[k[1]], down[k], e)
                     /\ Agrees(e) \/ (k = l /\ e = NoRoom)
    <3>1. CASE k \in bound
      <4>1. Told(k)
        BY <1>9, <3>1 DEF Safe, PagesInv
      <4>2. PICK S, e : /\ S = {w \in View : Fair(k[1], w)} /\ e \in View
                        /\ Leads(S, view[k[1]], down[k], e) /\ Agrees(e)
        BY <4>1, ToldNow
      <4>3. S \subseteq T
        BY <1>7, <2>1, <2>2, <4>2
      <4>4. Leads(T, view[k[1]], down[k], e)
        BY <4>2, <4>3, LeadsWider
      <4>5. e \in S
        BY <2>1, <4>2, LeadsWithin
      <4> QED  BY <4>2, <4>3, <4>4, <4>5
    <3>2. CASE k \notin bound
      <4>1. k = l /\ view[k[1]] = NoRoom /\ down[k] = <<>>
        BY <1>1, <1>9, <2>1, <3>2 DEF Safe, PagesInv, LinesInv
      <4>2. NoRoom \in View
        BY AutoAssumption DEF NoRoom, NoStory, View
      <4>3. Fair(k[1], NoRoom)'
        BY <2>1 DEF Fair, NoRoom, NoStory
      <4>4. NoRoom \in T
        BY <2>2, <4>2, <4>3
      <4>5. Leads(T, NoRoom, down[k], NoRoom)
        BY <4>1, <4>4, LeadsNowhere
      <4> QED  BY <4>1, <4>4, <4>5
    <3> QED  BY <3>1, <3>2
  <2>4. PICK e \in T : /\ Leads(T, view[k[1]], down[k], e)
                       /\ Agrees(e) \/ (k = l /\ e = NoRoom)
    BY <2>3
  <2>5. \E f \in T : /\ Leads(T, view[k[1]], told[k], f)
                     /\ k = l \/ Agrees(f)'
    <3>1. CASE told[k] = down[k]
      <4>1. vacant' = vacant
        BY <1>8, <1>9, <2>1, <3>1, Appended, Messages, <1>3
      <4> QED  BY <1>1, <2>4, <3>1, <4>1, AgreesKept, <2>2
    <3>2. CASE told[k] # down[k]
      <4>1. vacant' # vacant /\ told[k] = Append(down[k], HostIs(hostId))
        BY <1>8, <2>1, <3>2
      <4>2. PICK f : f = Folded(e, HostIs(hostId))
        OBVIOUS
      <4>3. e \in View /\ Fair(k[1], e)'
        BY <2>2, <2>4
      <4>4. /\ f \in View /\ f.story = e.story
            /\ e.host = NoVoter => f = e
            /\ e.host # NoVoter => f.host = hostId /\ f.vacant = FALSE
        BY <1>3, <4>2, <4>3, FoldedReclaim DEF View
      <4>5. e.host = hostId \/ e.host = NoVoter
        BY <2>4 DEF Agrees, NoRoom
      <4>6. Fair(k[1], f)'
        BY <4>3, <4>4, <4>5 DEF Fair
      <4>7. k = l \/ Agrees(f)'
        <5> SUFFICES ASSUME k # l PROVE Agrees(f)'
          OBVIOUS
        <5>1. Agrees(e)
          BY <2>4
        <5>2. e.host # NoVoter
          BY <1>3, <5>1, AutoAssumption DEF Agrees
        <5> QED  BY <1>1, <1>3, <4>1, <4>4, <5>1, <5>2 DEF Agrees
      <4>8. f \in T /\ HostIs(hostId) \in DownMsg
        BY <1>3, <2>2, <4>4, <4>6, Messages
      <4>9. Leads(T, view[k[1]], told[k], f)
        BY <2>1, <2>4, <4>1, <4>2, <4>8, LeadsOn
      <4> QED  BY <4>7, <4>8, <4>9
    <3> QED  BY <3>1, <3>2
  <2>6. PICK f \in T : Leads(T, view[k[1]], told[k], f) /\ (k = l \/ Agrees(f)')
    BY <2>5
  <2>7. CASE k # l
    BY <1>1, <1>8, <2>1, <2>2, <2>6, <2>7, ToldNext
  <2>8. CASE k = l
    <3>1. PICK m \in DownMsg :
            /\ m = Snapshot /\ m.type = "SNAPSHOT_RESPONSE"
            /\ m.view.host = hostId /\ m.view.vacant = vacant'
            /\ \A x \in Round : m.view.story[x] = IF story[x] = "pending" THEN "absent"
                                                                          ELSE story[x]
      BY <1>3, SnapshotTyped
    <3>2. PICK g : g = Folded(f, m)
      OBVIOUS
    <3>3. g = m.view /\ g \in View
      BY <2>2, <2>6, <3>1, <3>2, FoldedSnapshot
    <3>4. Agrees(g)'
      BY <1>1, <3>1, <3>3 DEF Agrees
    <3>5. Fair(k[1], g)'
      BY <1>1, <1>4, <3>1, <3>3 DEF Fair, Past
    <3>6. g \in T
      BY <2>2, <3>3, <3>5
    <3>7. down'[k] = Append(told[k], m)
      BY <1>8, <1>9, <2>1, <2>8, <3>1
    <3>8. told[k] \in Seq(DownMsg)
      BY <1>8, <2>1
    <3>9. Leads(T, view[k[1]], down'[k], g)
      BY <2>6, <3>2, <3>6, <3>7, <3>8, LeadsOn
    <3> QED  BY <1>1, <2>2, <3>3, <3>4, <3>9, ToldNext
  <2> QED  BY <2>7, <2>8
<1>10. PagesInv'
  <2>1. \A k \in Line \ bound' : status'[k] = "open" => view'[k[1]] = NoRoom
    BY <1>1 DEF Safe, PagesInv
  <2> QED  BY <1>1, <1>9, <2>1 DEF PagesInv
<1> QED  BY <1>5, <1>6, <1>10 DEF Safe

(* Each handler.                                                           *)
LEMMA ReceiveSafe ==
    ASSUME Base, Safe, NEW l \in Line, Receive(l)
    PROVE  Safe'
<1>1. Head(up[l]) = Join /\ ServeJoin(l) => Safe'
  BY JoinSafe
<1>2. l \in bound /\ Head(up[l]) = Claim /\ ServeClaim(l) => Safe'
  BY ClaimSafe
<1>3. l \in bound /\ Head(up[l]) = Add /\ ServeAdd(l) => Safe'
  BY AddSafe
<1>4. \A x \in Round, by \in {"effect", "click"} :
         l \in bound /\ Head(up[l]) = Open(x, by) /\ ServeOpen(l, x) => Safe'
  BY OpenSafe
<1>5. \A x \in Round : l \in bound /\ Head(up[l]) = Reveal(x) /\ ServeReveal(l, x) => Safe'
  BY RevealSafe
<1>6. l \in bound /\ UNCHANGED <<serverVars, down>> => Safe'
  BY ErrorSafe
<1> QED  BY <1>1, <1>2, <1>3, <1>4, <1>5, <1>6, ReceiveCases

-----------------------------------------------------------------------------
(* The invariant.                                                          *)

(* At the start.                                                           *)
LEMMA SafeInit == Init => Safe
<1> SUFFICES ASSUME Init PROVE Safe
  OBVIOUS
<1>1. vacant = FALSE /\ bound = {} /\ \A l \in Line : up[l] = <<>> /\ status[l] = "free"
  BY DEF Init
<1>2. \A l \in Line : 1..Len(up[l]) = {}
  BY <1>1
<1>3. \A l \in Line : \A n : ~Carries(l, n)
  BY <1>2 DEF Carries
<1> QED  BY <1>1, <1>3 DEF Safe, SeatInv, OpensInv, PagesInv

(* And with each step.                                                     *)
LEMMA SafeStep == Base /\ Safe /\ [Next]_vars => Safe'
<1> SUFFICES ASSUME Base, Safe, [Next]_vars PROVE Safe'
  OBVIOUS
<1>1. \A v \in Voter : Visit(v) => Safe'
  BY VisitSafe
<1>2. \A v \in Voter : Lose(v) => Safe'
  BY LoseSafe
<1>3. \A v \in Voter : Deliver(v) => Safe'
  BY DeliverSafe
<1>4. ASSUME NEW v \in Voter, AddRound(v)
      PROVE  Safe'
  <2>1. /\ Sends(v, Add) /\ page[v] = "on"
        /\ UNCHANGED <<vacant, hostId, story, bound, view, opened, status, down>>
    BY <1>4 DEF AddRound, IsHost, serverVars
  <2>2. Add \in UpMsg /\ \A x \in Round, by \in {"effect", "click"} : Add # Open(x, by)
    BY Messages, MessageTypes
  <2> QED  BY <2>1, <2>2, SendSafe
<1>5. \A v \in Voter : OpenRound(v) => Safe'
  BY OpenRoundSafe
<1>6. ASSUME NEW v \in Voter, RevealCards(v) \/ CloseVote(v) \/ ClaimHost(v)
      PROVE  Safe'
  <2>1. page[v] = "on" /\ UNCHANGED <<vacant, hostId, story, bound, view, opened, status, down>>
    BY <1>6, ButtonSends DEF serverVars, pageVars
  <2>2. PICK m \in UpMsg :
          /\ Sends(v, m)
          /\ \/ m = Claim
             \/ \E x \in Round : m = Reveal(x)
             \/ \E x \in Round : m = Open(x, "click") /\ view[v].story[x] = "revealed"
    BY <1>6, ButtonSends
  <2>3. \A x \in Round : m # Open(x, "effect")
    BY <2>2, MessageTypes
  <2>4. \A x \in Round : m = Open(x, "click") => view[v].story[x] = "revealed"
    BY <2>2, MessageTypes
  <2> QED  BY <2>1, <2>2, <2>3, <2>4, SendSafe
<1>7. \A l \in Line : Receive(l) => Safe'
  BY ReceiveSafe
<1>8. \A l \in Line : LineBreaks(l) \/ LineCloses(l) => Safe'
  BY BreakSafe
<1>9. Vacate => Safe'
  BY VacateSafe
<1>10. UNCHANGED vars => Safe'
  BY StutterSafe
<1> QED  BY <1>1, <1>2, <1>3, <1>4, <1>5, <1>6, <1>7, <1>8, <1>9, <1>10, NextCases

(* So it always holds.                                                     *)
LEMMA AutoAlways == Spec => [](Base /\ Safe)
<1>1. Init => Base /\ Safe
  BY BaseInit, SafeInit
<1>2. Base /\ Safe /\ [Next]_vars => (Base /\ Safe)'
  BY BaseStep, SafeStep
<1> QED  BY <1>1, <1>2, PTL DEF Spec

-----------------------------------------------------------------------------
(* What it gives.                                                          *)

(* The rows, the pages and the queues keep their types, and no line is     *)
(* ever fuller than its bound.                                             *)
THEOREM AutoTypeCorrect == Spec => []AutoTypeOK
<1>1. Base => AutoTypeOK
  BY DEF Base, TypeInv
<1> QED  BY <1>1, AutoAlways, PTL

(* A page that has taken all that was sent to it shows the host, the       *)
(* vacancy and the rounds it lists as the server has them, whatever lines  *)
(* were lost before and whatever an old one still brought (reducer.ts over *)
(* client.ts).                                                             *)
THEOREM SettledPagesAlwaysAgree == Spec => []SettledPagesAgree
<1>1. Base /\ Safe => SettledPagesAgree
  <2> SUFFICES ASSUME Base, Safe, NEW v \in Voter,
                      page[v] = "on", status[LineOf(v)] = "open", down[LineOf(v)] = <<>>
               PROVE  /\ view[v].host = hostId /\ view[v].vacant = vacant
                      /\ \A x \in Listed(v) : view[v].story[x] = story[x]
    BY DEF SettledPagesAgree
  <2>1. PICK l \in Line : l = LineOf(v) /\ l[1] = v
    BY OwnLine DEF Base
  <2>2. Told(l)
    BY <2>1, ShownFair
  <2>3. PICK S, e : /\ S = {w \in View : Fair(l[1], w)} /\ e \in View
                    /\ Leads(S, view[l[1]], down[l], e) /\ Agrees(e)
    BY <2>2, ToldNow
  <2>4. down[l] = <<>> /\ down[l] \in Seq(DownMsg)
    BY <2>1 DEF Base, TypeInv
  <2>5. view[l[1]] \in S
    BY <2>3, <2>4, LeadsWithin
  <2>6. view[v] = e
    BY <2>1, <2>3, <2>4, <2>5, LeadsNowhere
  <2> QED  BY <2>3, <2>6 DEF Agrees, Listed
<1> QED  BY <1>1, AutoAlways, PTL

(* A round whose cards lie open is opened again by a click on Close vote   *)
(* and by nothing else: not by the effect of a page that has come since,   *)
(* nor by a request that an old one left behind (RoomShell.tsx,            *)
(* AutoRoundController).                                                   *)
THEOREM AlwaysClearedByHand == Spec => ClearedByHand
<1> DEFINE Cleared == \A x \in Round : story[x] = "revealed" /\ story'[x] = "active" =>
                         \E l \in Line : /\ up[l] # <<>> /\ up'[l] = Tail(up[l])
                                         /\ Head(up[l]) = Open(x, "click")
<1>1. ASSUME Base, Safe, [Next]_vars
      PROVE  Cleared
  <2> SUFFICES ASSUME NEW x \in Round, story[x] = "revealed", story'[x] = "active"
               PROVE  \E l \in Line : /\ up[l] # <<>> /\ up'[l] = Tail(up[l])
                                      /\ Head(up[l]) = Open(x, "click")
    OBVIOUS
  <2>1. story' # story
    OBVIOUS
  <2>2. PICK l \in Line : Receive(l)
    <3> DEFINE Q == (\E l \in Line : Receive(l)) \/ UNCHANGED story
    <3>1. Q
      <4>1. \A v \in Voter : Visit(v) \/ Lose(v) \/ Deliver(v) => Q
        BY DEF Visit, Lose, Deliver, serverVars
      <4>2. \A v \in Voter : AddRound(v) \/ OpenRound(v) => Q
        BY DEF AddRound, OpenRound, serverVars
      <4>3. \A v \in Voter : RevealCards(v) \/ CloseVote(v) \/ ClaimHost(v) => Q
        BY DEF RevealCards, CloseVote, ClaimHost, serverVars
      <4>4. \A l \in Line : LineBreaks(l) \/ LineCloses(l) => Q
        BY DEF LineBreaks, LineCloses, serverVars
      <4>5. (Vacate => Q) /\ (UNCHANGED vars => Q)
        BY DEF Vacate, vars, serverVars
      <4>6. \A l \in Line : Receive(l) => Q
        OBVIOUS
      <4> HIDE DEF Q
      <4> QED  BY <1>1, <4>1, <4>2, <4>3, <4>4, <4>5, <4>6, NextCases
    <3> QED  BY <2>1, <3>1
  <2>3. up[l] # <<>> /\ up'[l] = Tail(up[l])
    BY <1>1, <2>2, Received DEF Base, TypeInv
  <2>4. \E by \in {"effect", "click"} : Head(up[l]) = Open(x, by)
    <3> DEFINE P == \E by \in {"effect", "click"} : Head(up[l]) = Open(x, by)
    <3>1. ServeJoin(l) \/ ServeClaim(l) \/ UNCHANGED <<serverVars, down>> => UNCHANGED story
      BY DEF ServeJoin, ServeClaim, serverVars
    <3>2. ASSUME NEW y \in Round, NEW to, story' = [story EXCEPT ![y] = to]
          PROVE  y = x /\ to = "active"
      BY <1>1, <2>1, <3>2 DEF Base, TypeInv, AutoTypeOK
    <3>3. ServeAdd(l) => P
      <4> SUFFICES ASSUME ServeAdd(l), NEW z, z = Min({y \in Round : story[y] = "absent"})
                   PROVE  FALSE
        OBVIOUS
      <4>1. story' = [story EXCEPT ![z] = "pending"]
        BY DEF ServeAdd
      <4> QED  BY <1>1, <4>1 DEF Base, TypeInv, AutoTypeOK
    <3>4. \A y \in Round, by \in {"effect", "click"} :
             Head(up[l]) = Open(y, by) /\ ServeOpen(l, y) => P
      BY <3>2 DEF ServeOpen
    <3>5. \A y \in Round : ServeReveal(l, y) => P
      BY <3>2 DEF ServeReveal
    <3> HIDE DEF P
    <3>6. P
      BY <1>1, <2>1, <2>2, <3>1, <3>3, <3>4, <3>5, ReceiveCases
    <3> QED  BY <3>6 DEF P
  <2>5. Head(up[l]) # Open(x, "effect")
    <3>1. \A n : n = Head(up[l]) => Carries(l, n)
      BY <1>1, <2>2, TakenUp
    <3> QED  BY <1>1, <3>1 DEF Safe, OpensInv
  <2> QED  BY <2>3, <2>4, <2>5
<1>2. Base /\ Safe /\ [Next]_vars => [Cleared]_vars
  BY <1>1
<1> QED  BY <1>2, AutoAlways, PTL DEF Spec, ClearedByHand

(* The server has a round for every ADD_STORY that reaches it: a page that *)
(* lists none asks for one only, and is a visit of its own.                *)
THEOREM RoundAlwaysLeft ==
    Spec => [](\A l \in Line : up[l] # <<>> /\ Head(up[l]) = Add =>
                  \E x \in Round : story[x] = "absent")
<1>1. Base => \A l \in Line : up[l] # <<>> /\ Head(up[l]) = Add =>
                 \E x \in Round : story[x] = "absent"
  BY FirstUp, RoundLeft
<1> QED  BY <1>1, AutoAlways, PTL
=============================================================================
