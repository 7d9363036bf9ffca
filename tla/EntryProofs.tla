------------------------------ MODULE EntryProofs ------------------------------
(***************************************************************************)
(* For any creations, lookups, slugs, limits and hours, and whatever the   *)
(* tab of Entry does meanwhile: a link that was handed out leads to its    *)
(* room while its slug lives, nobody is refused too early, and a page      *)
(* speaks of the room in its address or waits for word of it.              *)
(***************************************************************************)
EXTENDS Entry, TLAPS

-----------------------------------------------------------------------------
(* The counters.                                                           *)

(* A counter never runs ahead of the requests that were let through, nor   *)
(* does what a request has read of it.                                     *)
CountsAreLow ==
    /\ \A a \in Action, h \in 0..MaxHour : counter[a][h] <= admitted[a][h]
    /\ \A r \in Request : at[r] = "counting" =>
          seen[r] <= admitted[ActionOf(r)][bucket[r]]

-----------------------------------------------------------------------------
(* The slugs.                                                              *)

(* Its slug was written, and it has not given up since.                    *)
Wrote(r) == at[r] \in {"confirming", "opening", "answered"}

HasSlug ==
    /\ \A r \in Creation : Wrote(r) \/ at[r] = "writing" => slug[r] \in Slug
    /\ \A l \in Lookup : at[l] # "unsent" => slug[l] \in Slug

(* A lookup ends in one of four ways.                                      *)
LookupSteps ==
    \A l \in Lookup : at[l] \in {"unsent", "new", "counting", "asking", "reading",
                                 "answered", "limited", "notFound", "failed"}

(* Whom a slug leads to still holds it, or died of something else.         *)
Writers ==
    \A x \in Slug : slugs[x] # NoRoom =>
        at[slugs[x]] = "failed" \/ (Wrote(slugs[x]) /\ slug[slugs[x]] = x)

(* A creation whose slug was written, and has not come to its end.         *)
Lives(r) == Wrote(r) /\ Alive(r)

(* A slug that was free when a creation looked is written by rivals alone. *)
Contested ==
    \A q \in Creation : at[q] = "writing" =>
        /\ slugs[slug[q]] # NoRoom => rivals[q] # {}
        /\ \A r \in Creation : Lives(r) /\ slug[r] = slug[q] => r \in rivals[q]

(* The creation, or there is a rival, and the last one is known.           *)
Leads(r, to) == to = r \/ rivals[r] # {} \/ r \in rivals[slugs[slug[r]]]

(* Where a slug leads was written last, and so outlives the others.        *)
Held ==
    \A r \in Creation :
        /\ written[r] <= hour
        /\ Lives(r) =>
              /\ slugs[slug[r]] # NoRoom /\ Leads(r, slugs[slug[r]])
              /\ written[r] <= written[slugs[slug[r]]]

(* A lookup that waits for a room was led to the one whose link it has.    *)
Followed ==
    \A l \in Lookup : at[l] = "reading" /\ hour < lapse[l] =>
        /\ slugs[slug[l]] # NoRoom
        /\ lapse[l] <= written[slugs[slug[l]]] + SlugLife
        /\ \A r \in Creation : Lives(r) /\ slug[r] = slug[l] => Leads(r, found[l])

(* A room that was answered for is there.                                  *)
Initialised == \A r \in Creation : at[r] = "answered" => r \in created

SlugInv == Writers /\ Contested /\ Held /\ Followed /\ Initialised

WorkerInv ==
    /\ CreationTypeOK /\ HasSlug /\ LookupSteps
    /\ CountsAreLow /\ NoEarlyRefusal
    /\ SlugInv

-----------------------------------------------------------------------------
(* The page.                                                               *)

(* Credentials are in an entry or a join with the slug they came with.     *)
From(path, c) == c # NoRoom => c \in Creation /\ at[c] = "answered" /\ slug[c] = path

PageInv ==
    /\ address \in Entries /\ history \subseteq Entries
    /\ waiting \subseteq Mine
    /\ \A entry \in history \cup {address} : From(entry.path, entry.host)
    /\ From(join.slug, join.host)
    /\ probe \in {"loading", "found", "not_found", "probe_error"}
    /\ asking \in Lookup \cup {NoLookup}
    /\ address.path # Home =>
          IF asking = NoLookup
          THEN \E l \in Lookup : slug[l] = address.path /\ at[l] \in Says[probe]
          ELSE slug[asking] = address.path /\ at[asking] # "unsent"
-----------------------------------------------------------------------------
(* The steps of the Worker.                                                *)

LEMMA WorkerInit == Init => WorkerInv
  BY CreationAssumption
     DEF Init, WorkerInv, CreationTypeOK, HasSlug, LookupSteps, CountsAreLow,
         NoEarlyRefusal, SlugInv, Writers, Contested, Held, Followed, Initialised,
         Lives, Wrote,
         Step, Ended, Action, ActionOf, Request

(* The actions, one by one.                                                *)
LEMMA NextCases ==
    ASSUME [Next]_vars, NEW P,
           \A r \in Request : ReadCounter(r) \/ Refuse(r) \/ Admit(r) \/ Fail(r) => P,
           \A r \in Creation : ReadBody(r) \/ WriteSlug(r) \/ ConfirmSlug(r) => P,
           \A r \in Creation, x \in Slug : TrySlug(r, x) => P,
           \A r \in Creation : Exhausted(r) \/ OpenRoom(r) \/ Create(r) => P,
           \A l \in Lookup : AskSlug(l) \/ ReadState(l) => P,
           \A l \in Lookup, x \in Slug : Ask(l, x) => P,
           HourTurns => P,
           UNCHANGED vars => P
    PROVE  P
  BY Zenon DEF Next, Work, Serve, Create, Ask

(* One entry of a table of counters is replaced.                           *)
LEMMA Tallied ==
    ASSUME NEW A, NEW H, NEW f \in [A -> [H -> Nat]], NEW a \in A, NEW h \in H,
           NEW n \in Nat
    PROVE  [f EXCEPT ![a][h] = n] \in [A -> [H -> Nat]]
<1>1. [f[a] EXCEPT ![h] = n] \in [H -> Nat]
  OBVIOUS
<1>2. [f EXCEPT ![a][h] = n] = [f EXCEPT ![a] = [f[a] EXCEPT ![h] = n]]
  OBVIOUS
<1> QED  BY <1>1, <1>2

LEMMA TypesKept ==
    ASSUME CreationTypeOK, HasSlug, LookupSteps, [Next]_vars
    PROVE  CreationTypeOK' /\ HasSlug' /\ LookupSteps'
<1> USE CreationAssumption
    DEF CreationTypeOK, HasSlug, LookupSteps, Wrote, Goes, kvVars, historyVars,
        Step, Ended, Request
<1>1. ASSUME NEW r \in Request, ReadCounter(r)
      PROVE  CreationTypeOK' /\ HasSlug' /\ LookupSteps'
  <2>1. /\ Goes(r, "new", "counting")
        /\ bucket' = [bucket EXCEPT ![r] = hour]
        /\ seen' = [seen EXCEPT ![r] = counter[ActionOf(r)][hour]]
        /\ UNCHANGED <<kvVars, created, hour, slug, attempts, found, historyVars>>
    BY <1>1 DEF ReadCounter
  <2>3. ActionOf(r) \in Action
    BY DEF ActionOf, Action
  <2>4. counter[ActionOf(r)][hour] \in Nat
    BY <2>3
  <2>5. CreationTypeOK'
    BY <2>1, <2>4
  <2> QED  BY <2>1, <2>5
<1>2. ASSUME NEW r \in Request, Refuse(r)
      PROVE  CreationTypeOK' /\ HasSlug' /\ LookupSteps'
  BY <1>2 DEF Refuse
<1>3. ASSUME NEW r \in Request, Admit(r)
      PROVE  CreationTypeOK' /\ HasSlug' /\ LookupSteps'
  <2> DEFINE a == ActionOf(r)
             h == bucket[r]
  <2>0. /\ seen \in [Request -> Nat] /\ bucket \in [Request -> 0..MaxHour]
        /\ admitted \in [Action -> [0..MaxHour -> Nat]]
    OBVIOUS
  <2>1. /\ a \in Action /\ h \in 0..MaxHour
        /\ seen[r] + 1 \in Nat /\ admitted[a][h] + 1 \in Nat
    <3> HIDE DEF CreationTypeOK, HasSlug, LookupSteps
    <3>1. a \in Action
      BY DEF ActionOf, Action
    <3> QED  BY <2>0, <3>1
  <2>2. /\ counter' = [counter EXCEPT ![a][h] = seen[r] + 1]
        /\ admitted' = [admitted EXCEPT ![a][h] = admitted[a][h] + 1]
    BY <1>3 DEF Admit
  <2>3. counter' \in [Action -> [0..MaxHour -> Nat]]
    <3>1. counter \in [Action -> [0..MaxHour -> Nat]]
      OBVIOUS
    <3> HIDE DEF CreationTypeOK
    <3> QED  BY <3>1, <2>1, <2>2, Tallied
  <2>4. admitted' \in [Action -> [0..MaxHour -> Nat]]
    BY <2>1, <2>2, Tallied
  <2>5. at' \in [Request -> Step] /\ LookupSteps'
    <3>1. CASE r \in Creation /\ Goes(r, "counting", "parsing")
      BY <3>1
    <3>2. CASE r \in Lookup /\ Goes(r, "counting", "asking")
      BY <3>2
    <3> QED  BY <1>3, <3>1, <3>2 DEF Admit
  <2>6. HasSlug'
    BY <1>3 DEF Admit
  <2>7. /\ bucket' \in [Request -> 0..MaxHour] /\ seen' \in [Request -> Nat]
        /\ UNCHANGED <<slugs, written, created, hour, slug, attempts, found,
                        lapse, rivals>>
    BY <1>3 DEF Admit
  <2>8. CreationTypeOK'
    BY <2>3, <2>4, <2>5, <2>7
  <2> QED  BY <2>5, <2>6, <2>8
<1>4. ASSUME NEW r \in Request, Fail(r)
      PROVE  CreationTypeOK' /\ HasSlug' /\ LookupSteps'
  <2>1. at' \in [Request -> Step] /\ LookupSteps'
    BY <1>4 DEF Fail
  <2>2. HasSlug'
    BY <1>4 DEF Fail
  <2>3. /\ bucket' \in [Request -> 0..MaxHour] /\ seen' \in [Request -> Nat]
        /\ slug' \in [Request -> Slug \cup {NoSlug}]
    BY <1>4 DEF Fail
  <2>4. /\ attempts' \in [Creation -> 0..MaxRetries]
        /\ found' \in [Lookup -> Creation \cup {NoRoom}]
        /\ lapse' \in [Lookup -> Nat]
    BY <1>4 DEF Fail
  <2> QED  BY <1>4, <2>1, <2>2, <2>3, <2>4 DEF Fail
<1>5. ASSUME NEW r \in Creation, ReadBody(r)
      PROVE  CreationTypeOK' /\ HasSlug' /\ LookupSteps'
  BY <1>5 DEF ReadBody
<1>6. ASSUME NEW r \in Creation, WriteSlug(r)
      PROVE  CreationTypeOK' /\ HasSlug' /\ LookupSteps'
  BY <1>6 DEF WriteSlug
<1>7. ASSUME NEW r \in Creation, ConfirmSlug(r)
      PROVE  CreationTypeOK' /\ HasSlug' /\ LookupSteps'
  BY <1>7 DEF ConfirmSlug
<1>8. ASSUME NEW r \in Creation, NEW x \in Slug, TrySlug(r, x)
      PROVE  CreationTypeOK' /\ HasSlug' /\ LookupSteps'
  <2>1. at' \in [Request -> Step] /\ LookupSteps'
    BY <1>8 DEF TrySlug
  <2>2. HasSlug'
    BY <1>8 DEF TrySlug
  <2>3. /\ attempts' \in [Creation -> 0..MaxRetries]
        /\ rivals' \in [Creation -> SUBSET Creation]
        /\ slug' \in [Request -> Slug \cup {NoSlug}]
    BY <1>8 DEF TrySlug
  <2> QED  BY <1>8, <2>1, <2>2, <2>3 DEF TrySlug
<1>9. ASSUME NEW r \in Creation, Exhausted(r) \/ OpenRoom(r) \/ Create(r)
      PROVE  CreationTypeOK' /\ HasSlug' /\ LookupSteps'
  <2>1. CASE Exhausted(r)
    <3>1. at' \in [Request -> Step] /\ LookupSteps'
      BY <2>1 DEF Exhausted
    <3>2. HasSlug'
      BY <2>1 DEF Exhausted
    <3>3. /\ attempts' \in [Creation -> 0..MaxRetries]
          /\ slug' \in [Request -> Slug \cup {NoSlug}]
      BY <2>1 DEF Exhausted
    <3> QED  BY <2>1, <3>1, <3>2, <3>3 DEF Exhausted
  <2>2. CASE OpenRoom(r)
    <3>1. at' \in [Request -> Step] /\ LookupSteps'
      BY <2>2 DEF OpenRoom
    <3>2. HasSlug' /\ created' \subseteq Creation /\ attempts' \in [Creation -> 0..MaxRetries]
      BY <2>2 DEF OpenRoom
    <3> QED  BY <2>2, <3>1, <3>2 DEF OpenRoom
  <2>3. CASE Create(r)     BY <2>3 DEF Create
  <2> QED  BY <1>9, <2>1, <2>2, <2>3
<1>10. ASSUME NEW l \in Lookup, AskSlug(l) \/ ReadState(l)
       PROVE  CreationTypeOK' /\ HasSlug' /\ LookupSteps'
  <2>1. CASE AskSlug(l)
    <3>1. slug[l] \in Slug /\ slugs[slug[l]] \in Creation \cup {NoRoom}
      BY <2>1 DEF AskSlug
    <3>2. lapse' \in [Lookup -> Nat]
      <4>1. CASE UNCHANGED lapse
        BY <4>1
      <4>2. CASE /\ slugs[slug[l]] # NoRoom
                 /\ lapse' = [lapse EXCEPT ![l] = written[slugs[slug[l]]] + SlugLife]
        BY <3>1, <4>2
      <4> QED  BY <2>1, <4>1, <4>2 DEF AskSlug
    <3> QED  BY <2>1, <3>1, <3>2 DEF AskSlug
  <2>2. CASE ReadState(l)  BY <2>2 DEF ReadState
  <2> QED  BY <1>10, <2>1, <2>2
<1>11. ASSUME NEW l \in Lookup, NEW x \in Slug, Ask(l, x)
       PROVE  CreationTypeOK' /\ HasSlug' /\ LookupSteps'
  BY <1>11 DEF Ask
<1>12. ASSUME HourTurns
       PROVE  CreationTypeOK' /\ HasSlug' /\ LookupSteps'
  BY <1>12 DEF HourTurns
<1>13. ASSUME UNCHANGED vars
       PROVE  CreationTypeOK' /\ HasSlug' /\ LookupSteps'
  BY <1>13 DEF vars
<1> HIDE DEF CreationTypeOK, HasSlug, LookupSteps
<1> QED
  BY NextCases, <1>1, <1>2, <1>3, <1>4, <1>5, <1>6, <1>7, <1>8, <1>9, <1>10,
     <1>11, <1>12, <1>13, Zenon

-----------------------------------------------------------------------------
(* The counters.                                                           *)

LEMMA CountsKept ==
    ASSUME CreationTypeOK, CountsAreLow, NoEarlyRefusal, [Next]_vars
    PROVE  CountsAreLow' /\ NoEarlyRefusal'
<1> USE DEF CountsAreLow, NoEarlyRefusal, ActionOf, LimitOf
<1>0. /\ at \in [Request -> Step]
      /\ \A r \in Request : ActionOf(r) \in Action /\ LimitOf(r) \in Nat
      /\ \A a \in Action, h \in 0..MaxHour :
            counter[a][h] \in Nat /\ admitted[a][h] \in Nat
      /\ \A r \in Request : seen[r] \in Nat /\ bucket[r] \in 0..MaxHour
      /\ seen \in [Request -> Nat] /\ bucket \in [Request -> 0..MaxHour]
      /\ MaxHour \in Nat /\ hour \in 0..MaxHour
  <2>1. /\ counter \in [Action -> [0..MaxHour -> Nat]]
        /\ admitted \in [Action -> [0..MaxHour -> Nat]]
        /\ at \in [Request -> Step] /\ hour \in 0..MaxHour
        /\ seen \in [Request -> Nat] /\ bucket \in [Request -> 0..MaxHour]
    BY DEF CreationTypeOK
  <2>2. /\ MaxHour \in Nat
        /\ \A r \in Request : ActionOf(r) \in Action /\ LimitOf(r) \in Nat
    BY CreationAssumption DEF Action
  <2> QED  BY <2>1, <2>2
(* A step of one request that counts nothing.                              *)
<1>1. ASSUME NEW r \in Request, NEW to,
             at' = [at EXCEPT ![r] = to], to \notin {"counting", "limited"},
             UNCHANGED <<counter, admitted>>,
             \A q \in Request \ {r} : bucket'[q] = bucket[q] /\ seen'[q] = seen[q]
      PROVE  CountsAreLow' /\ NoEarlyRefusal'
  BY <1>0, <1>1
<1>2. ASSUME NEW r \in Request, ReadCounter(r)
      PROVE  CountsAreLow' /\ NoEarlyRefusal'
  <2>1. /\ at' = [at EXCEPT ![r] = "counting"]
        /\ bucket' = [bucket EXCEPT ![r] = hour]
        /\ seen' = [seen EXCEPT ![r] = counter[ActionOf(r)][hour]]
        /\ UNCHANGED <<counter, admitted>>
    BY <1>2 DEF ReadCounter, Goes, kvVars, historyVars
  <2> QED  BY <1>0, <2>1
<1>3. ASSUME NEW r \in Request, Refuse(r)
      PROVE  CountsAreLow' /\ NoEarlyRefusal'
  <2>1. /\ at' = [at EXCEPT ![r] = "limited"] /\ at[r] = "counting"
        /\ UNCHANGED <<counter, admitted, bucket, seen>>
        /\ seen[r] >= LimitOf(r)
    BY <1>3 DEF Refuse, Limited, Goes, kvVars, historyVars
  <2> QED  BY <1>0, <2>1
<1>4. ASSUME NEW r \in Request, Admit(r)
      PROVE  CountsAreLow' /\ NoEarlyRefusal'
  <2> DEFINE a == ActionOf(r)
             h == bucket[r]
  <2>1. /\ a \in Action /\ h \in 0..MaxHour /\ seen[r] \in Nat
        /\ admitted[a][h] \in Nat
    BY <1>0
  <2>2. /\ counter' = [counter EXCEPT ![a][h] = seen[r] + 1]
        /\ admitted' = [admitted EXCEPT ![a][h] = admitted[a][h] + 1]
        /\ bucket' = [bucket EXCEPT ![r] = 0] /\ seen' = [seen EXCEPT ![r] = 0]
        /\ at[r] = "counting"
        /\ \E to \in {"parsing", "asking"} : at' = [at EXCEPT ![r] = to]
    BY <1>4 DEF Admit, Goes
  <2>3. \A b \in Action, k \in 0..MaxHour :
           /\ counter'[b][k] = IF b = a /\ k = h THEN seen[r] + 1 ELSE counter[b][k]
           /\ admitted'[b][k] = IF b = a /\ k = h THEN admitted[a][h] + 1
                                ELSE admitted[b][k]
    <3>1. /\ counter \in [Action -> [0..MaxHour -> Nat]]
          /\ admitted \in [Action -> [0..MaxHour -> Nat]]
          /\ seen[r] + 1 \in Nat /\ admitted[a][h] + 1 \in Nat
      <4>1. /\ counter \in [Action -> [0..MaxHour -> Nat]]
            /\ admitted \in [Action -> [0..MaxHour -> Nat]]
        BY DEF CreationTypeOK
      <4> QED  BY <2>1, <4>1
    <3> HIDE DEF a, h
    <3>2. ASSUME NEW b \in Action, NEW k \in 0..MaxHour
          PROVE  counter'[b][k] = IF b = a /\ k = h THEN seen[r] + 1 ELSE counter[b][k]
      BY <3>1, <2>1, <2>2
    <3>3. ASSUME NEW b \in Action, NEW k \in 0..MaxHour
          PROVE  admitted'[b][k] = IF b = a /\ k = h THEN admitted[a][h] + 1
                                   ELSE admitted[b][k]
      BY <3>1, <2>1, <2>2
    <3> QED  BY <3>2, <3>3
  <2>4. \A b \in Action, k \in 0..MaxHour :
           counter'[b][k] <= admitted'[b][k] /\ admitted[b][k] <= admitted'[b][k]
    BY <1>0, <2>1, <2>2, <2>3
  <2>5. \A q \in Request : at'[q] \in {"counting", "limited"} =>
           /\ q # r /\ at[q] = at'[q]
           /\ bucket'[q] = bucket[q] /\ seen'[q] = seen[q]
    BY <1>0, <2>2
  <2>6. \A q \in Request :
           /\ ActionOf(q) \in Action /\ bucket[q] \in 0..MaxHour /\ seen[q] \in Nat
           /\ LimitOf(q) \in Nat
           /\ admitted[ActionOf(q)][bucket[q]] \in Nat
           /\ admitted'[ActionOf(q)][bucket[q]] \in Nat
           /\ admitted[ActionOf(q)][bucket[q]] <= admitted'[ActionOf(q)][bucket[q]]
    BY <1>0, <2>1, <2>3, <2>4
  <2>7. NoEarlyRefusal'
    BY <2>5, <2>6
  <2>8. CountsAreLow'
    BY <2>4, <2>5, <2>6
  <2> QED  BY <2>7, <2>8
<1>5. ASSUME NEW r \in Request, Fail(r)
      PROVE  CountsAreLow' /\ NoEarlyRefusal'
  BY <1>0, <1>1, <1>5 DEF Fail, kvVars, historyVars
<1>6. ASSUME NEW r \in Creation, ReadBody(r) \/ WriteSlug(r) \/ ConfirmSlug(r)
      PROVE  CountsAreLow' /\ NoEarlyRefusal'
  <2>1. CASE ReadBody(r)
    <3>1. /\ \E to \in {"reserving", "invalid"} : at' = [at EXCEPT ![r] = to]
          /\ r \in Request /\ UNCHANGED <<counter, admitted, bucket, seen>>
      BY <2>1 DEF ReadBody, Goes, kvVars, historyVars, Request
    <3> QED  BY <1>1, <3>1
  <2>2. CASE WriteSlug(r)
    <3>1. /\ at' = [at EXCEPT ![r] = "confirming"] /\ r \in Request
          /\ UNCHANGED <<counter, admitted, bucket, seen>>
      BY <2>2 DEF WriteSlug, Goes, Request
    <3> QED  BY <1>1, <3>1
  <2>3. CASE ConfirmSlug(r)
    <3>1. /\ \E to \in {"opening", "reserving"} : at' = [at EXCEPT ![r] = to]
          /\ r \in Request /\ UNCHANGED <<counter, admitted, bucket, seen>>
      BY <2>3 DEF ConfirmSlug, Goes, kvVars, historyVars, Request
    <3> QED  BY <1>1, <3>1
  <2> QED  BY <1>6, <2>1, <2>2, <2>3
<1>7. ASSUME NEW r \in Creation, NEW x \in Slug, TrySlug(r, x)
      PROVE  CountsAreLow' /\ NoEarlyRefusal'
  BY <1>1, <1>7 DEF TrySlug, Goes, kvVars, Request
<1>8. ASSUME NEW r \in Creation, Exhausted(r) \/ OpenRoom(r) \/ Create(r)
      PROVE  CountsAreLow' /\ NoEarlyRefusal'
  BY <1>1, <1>8 DEF Exhausted, OpenRoom, Create, Goes, kvVars, historyVars, Request
<1>9. ASSUME NEW l \in Lookup, AskSlug(l) \/ ReadState(l)
      PROVE  CountsAreLow' /\ NoEarlyRefusal'
  <2>1. CASE AskSlug(l)
    BY <1>1, <2>1 DEF AskSlug, Goes, kvVars, historyVars, Request
  <2>2. CASE ReadState(l)
    <3>1. /\ \E to \in {"answered", "notFound"} : at' = [at EXCEPT ![l] = to]
          /\ UNCHANGED <<counter, admitted, bucket, seen>> /\ l \in Request
      BY <2>2 DEF ReadState, Goes, kvVars, Request
    <3> QED  BY <1>1, <3>1
  <2> QED  BY <1>9, <2>1, <2>2
<1>10. ASSUME NEW l \in Lookup, NEW x \in Slug, Ask(l, x)
      PROVE  CountsAreLow' /\ NoEarlyRefusal'
  BY <1>1, <1>10 DEF Ask, Goes, kvVars, historyVars, Request
<1>11. ASSUME UNCHANGED vars
      PROVE  CountsAreLow' /\ NoEarlyRefusal'
  BY <1>11 DEF vars, kvVars, historyVars
<1>12. ASSUME HourTurns
      PROVE  CountsAreLow' /\ NoEarlyRefusal'
  BY <1>12 DEF HourTurns, historyVars
<1> HIDE DEF CountsAreLow, NoEarlyRefusal
<1> QED
  BY NextCases, <1>2, <1>3, <1>4, <1>5, <1>6, <1>7, <1>8, <1>9, <1>10, <1>11,
     <1>12, Zenon

-----------------------------------------------------------------------------
(* The slugs.                                                              *)

LEMMA SlugsKept ==
    ASSUME CreationTypeOK, HasSlug, LookupSteps, SlugInv, [Next]_vars
    PROVE  SlugInv'
<1> USE CreationAssumption
    DEF SlugInv, Writers, Contested, Held, Followed, Initialised, Wrote, Leads, Lives,
        Alive, AliveIn
<1>0. /\ at \in [Request -> Step] /\ slugs \in [Slug -> Creation \cup {NoRoom}]
      /\ slug \in [Request -> Slug \cup {NoSlug}]
      /\ rivals \in [Creation -> SUBSET Creation]
      /\ found \in [Lookup -> Creation \cup {NoRoom}]
      /\ written \in [Creation -> Nat] /\ lapse \in [Lookup -> Nat]
      /\ hour \in Nat /\ SlugLife \in Nat \ {0}
      /\ Request = Creation \cup Lookup
      /\ \A r \in Creation : Wrote(r) \/ at[r] = "writing" => slug[r] \in Slug
      /\ \A l \in Lookup : at[l] # "unsent" => slug[l] \in Slug
  BY DEF CreationTypeOK, HasSlug, Request
(* A step of one request that has to do with no slug, or the last it takes. *)
<1>1. ASSUME NEW r \in Request, NEW to, at' = [at EXCEPT ![r] = to],
             UNCHANGED <<slugs, written, hour, created, rivals>>,
             \A q \in Request \ {r} : slug'[q] = slug[q],
             \A q \in Lookup \ {r} : found'[q] = found[q] /\ lapse'[q] = lapse[q],
             r \in Creation =>
                 /\ to \notin {"writing", "confirming", "opening", "answered"}
                 /\ to = "failed" \/ ~(Wrote(r) \/ at[r] = "failed"),
             r \in Lookup => to # "reading"
      PROVE  SlugInv'
  <2>1. Writers'
    BY <1>0, <1>1
  <2>2. Contested'
    BY <1>0, <1>1
  <2>3. Held'
    BY <1>0, <1>1
  <2>4. Followed'
    BY <1>0, <1>1
  <2>5. Initialised'
    BY <1>0, <1>1
  <2> QED  BY <2>1, <2>2, <2>3, <2>4, <2>5
<1>2. ASSUME NEW r \in Request, ReadCounter(r) \/ Refuse(r) \/ Admit(r) \/ Fail(r)
      PROVE  SlugInv'
  <2>1. CASE ReadCounter(r)
    BY <1>0, <1>1, <2>1 DEF ReadCounter, Goes, kvVars, historyVars
  <2>2. CASE Refuse(r)
    BY <1>0, <1>1, <2>2 DEF Refuse, Goes, kvVars, historyVars
  <2>3. CASE Admit(r)
    BY <1>0, <1>1, <2>3 DEF Admit, Goes, kvVars, historyVars
  <2>4. CASE Fail(r)
    BY <1>0, <1>1, <2>4 DEF Fail, Goes, kvVars, historyVars
  <2> QED  BY <1>2, <2>1, <2>2, <2>3, <2>4
<1>3. ASSUME NEW r \in Creation, ReadBody(r)
      PROVE  SlugInv'
  BY <1>0, <1>1, <1>3 DEF ReadBody, Goes, kvVars, historyVars
<1>4. ASSUME NEW p \in Creation, WriteSlug(p)
      PROVE  SlugInv'
  <2> DEFINE x == slug[p]
  <2>1. /\ at[p] = "writing" /\ at' = [at EXCEPT ![p] = "confirming"]
        /\ x \in Slug /\ slugs' = [slugs EXCEPT ![x] = p]
        /\ rivals' = [q \in Creation |->
               IF q # p /\ at[q] = "writing" /\ slug[q] = x
               THEN rivals[q] \cup {p} ELSE rivals[q]]
        /\ written' = [written EXCEPT ![p] = hour]
        /\ UNCHANGED <<created, hour, slug, found, lapse>>
    BY <1>0, <1>4 DEF WriteSlug, Goes
  <2>2. Writers'
    BY <1>0, <2>1
  <2>3. Contested'
    <3> SUFFICES ASSUME NEW q \in Creation, at'[q] = "writing"
                 PROVE  /\ slugs'[slug[q]] # NoRoom => rivals'[q] # {}
                        /\ \A r \in Creation : Lives(r)' /\ slug[r] = slug[q] =>
                              r \in rivals'[q]
      BY <2>1 DEF Contested
    <3>1. q # p /\ at[q] = "writing" /\ slug[q] \in Slug
      BY <1>0, <2>1
    <3>2. slug[q] = x => rivals'[q] = rivals[q] \cup {p}
      BY <2>1, <3>1
    <3>3. slug[q] # x => rivals'[q] = rivals[q] /\ slugs'[slug[q]] = slugs[slug[q]]
      BY <1>0, <2>1, <3>1
    <3>4. \A r \in Creation \ {p} : Lives(r)' => Lives(r)
      BY <1>0, <2>1
    <3> QED  BY <3>1, <3>2, <3>3, <3>4
  <2>4. \A r \in Creation : rivals[r] \subseteq rivals'[r]
    BY <2>1
  <2>5. ASSUME NEW r \in Creation, Lives(r), slug[r] = x
        PROVE  r \in rivals'[slugs'[slug'[r]]]
    BY <1>0, <2>1, <2>4, <2>5
  <2>6. Held'
    <3> SUFFICES ASSUME NEW r \in Creation
                 PROVE  /\ written'[r] <= hour'
                        /\ Lives(r)' =>
                              /\ slugs'[slug'[r]] # NoRoom
                              /\ Leads(r, slugs[slug[r]])'
                              /\ written'[r] <= written'[slugs'[slug'[r]]]
      BY DEF Held
    <3>1. CASE r = p
      BY <1>0, <2>1, <3>1
    <3>2. CASE r # p /\ slug[r] = x
      <4>1. Lives(r)' => Lives(r)
        BY <1>0, <2>1, <3>2
      <4> QED  BY <1>0, <2>1, <2>5, <3>2, <4>1
    <3>3. CASE r # p /\ slug[r] # x
      <4>1. Lives(r)' => Lives(r) /\ slug[r] \in Slug
        BY <1>0, <2>1, <3>3
      <4>2. ASSUME Lives(r), slug[r] \in Slug
            PROVE  slugs'[slug[r]] = slugs[slug[r]] /\ slugs[slug[r]] # p
        BY <1>0, <2>1, <3>3, <4>2
      <4> QED  BY <1>0, <2>1, <2>4, <3>3, <4>1, <4>2
    <3> QED  BY <3>1, <3>2, <3>3
  <2>7. Followed'
    <3> SUFFICES ASSUME NEW l \in Lookup, at'[l] = "reading", hour < lapse[l]
                 PROVE  /\ slugs'[slug[l]] # NoRoom
                        /\ lapse[l] <= written'[slugs'[slug[l]]] + SlugLife
                        /\ \A r \in Creation :
                              Lives(r)' /\ slug[r] = slug[l] => Leads(r, found[l])'
      BY <2>1 DEF Followed
    <3>1. at[l] = "reading" /\ slug[l] \in Slug
      BY <1>0, <2>1
    <3>2. slugs[slug[l]] # NoRoom /\ lapse[l] <= written[slugs[slug[l]]] + SlugLife
      BY <3>1
    <3>3. slugs'[slug[l]] # NoRoom /\ lapse[l] <= written'[slugs'[slug[l]]] + SlugLife
      BY <1>0, <2>1, <3>1, <3>2
    <3>4. ASSUME NEW r \in Creation, Lives(r)', slug[r] = slug[l]
          PROVE  Leads(r, found[l])'
      <4>1. CASE r = p
        BY <1>0, <2>1, <3>2, <3>4, <4>1
      <4>2. CASE r # p
        <5>1. Lives(r) /\ Leads(r, found[l])
          BY <1>0, <2>1, <3>1, <3>4, <4>2
        <5>2. CASE slug[r] = x
          BY <1>0, <2>1, <2>5, <5>1, <5>2
        <5>3. CASE slug[r] # x
          BY <1>0, <2>1, <2>4, <3>1, <3>4, <5>1, <5>3
        <5> QED  BY <5>2, <5>3
      <4> QED  BY <4>1, <4>2
    <3> QED  BY <3>3, <3>4
  <2>8. Initialised'
    BY <1>0, <2>1
  <2> QED  BY <2>2, <2>3, <2>6, <2>7, <2>8
<1>5. ASSUME NEW p \in Creation, ConfirmSlug(p)
      PROVE  SlugInv'
  <2>1. CASE slugs[slug[p]] # p
    BY <1>0, <1>5, <2>1 DEF ConfirmSlug, Goes, kvVars, historyVars
  <2>2. CASE slugs[slug[p]] = p
    BY <1>0, <1>5, <2>2 DEF ConfirmSlug, Goes, kvVars, historyVars
  <2> QED  BY <2>1, <2>2
<1>6. ASSUME NEW p \in Creation, NEW x \in Slug, TrySlug(p, x)
      PROVE  SlugInv'
  <2>1. /\ at[p] = "reserving" /\ slug' = [slug EXCEPT ![p] = x]
        /\ rivals' = [rivals EXCEPT ![p] = {}]
        /\ \/ slugs[x] = NoRoom /\ at' = [at EXCEPT ![p] = "writing"]
           \/ at' = [at EXCEPT ![p] = "reserving"]
        /\ UNCHANGED <<slugs, written, created, hour, found, lapse>>
    BY <1>6 DEF TrySlug, Goes, kvVars
  <2>2. \A y \in Slug : slugs[y] # p
    BY <1>0, <2>1
  <2>3. Writers'
    BY <1>0, <2>1, <2>2
  <2>4. Contested'
    BY <1>0, <2>1, <2>2
  <2>5. Held'
    BY <1>0, <2>1, <2>2
  <2>6. Followed'
    BY <1>0, <2>1, <2>2
  <2>7. Initialised'
    BY <1>0, <2>1
  <2> QED  BY <2>3, <2>4, <2>5, <2>6, <2>7
<1>7. ASSUME NEW r \in Creation, Exhausted(r) \/ OpenRoom(r) \/ Create(r)
      PROVE  SlugInv'
  <2>1. CASE Exhausted(r)
    BY <1>0, <1>1, <2>1 DEF Exhausted, Goes, kvVars, historyVars
  <2>2. CASE OpenRoom(r)
    BY <1>0, <2>2 DEF OpenRoom, Goes, kvVars, historyVars
  <2>3. CASE Create(r)
    BY <1>0, <1>1, <2>3 DEF Create, Goes, kvVars, historyVars
  <2> QED  BY <1>7, <2>1, <2>2, <2>3
<1>8. ASSUME NEW l \in Lookup, AskSlug(l) \/ ReadState(l)
      PROVE  SlugInv'
  <2>1. CASE AskSlug(l) /\ slugs[slug[l]] = NoRoom
    BY <1>0, <1>1, <2>1 DEF AskSlug, Goes, kvVars, historyVars
  <2>2. CASE AskSlug(l) /\ slugs[slug[l]] # NoRoom
    BY <1>0, <2>2 DEF AskSlug, Goes, kvVars, historyVars
  <2>3. CASE ReadState(l)
    BY <1>0, <1>1, <2>3 DEF ReadState, Goes, kvVars, historyVars
  <2> QED  BY <1>8, <2>1, <2>2, <2>3
<1>9. ASSUME NEW l \in Lookup, NEW x \in Slug, Ask(l, x)
      PROVE  SlugInv'
  BY <1>0, <1>1, <1>9 DEF Ask, Goes, kvVars, historyVars
<1>10. ASSUME HourTurns
       PROVE  SlugInv'
  <2>1. /\ hour' = hour + 1
        /\ slugs' = [x \in Slug |->
               IF slugs[x] # NoRoom /\ ~AliveIn(hour + 1, slugs[x]) THEN NoRoom ELSE slugs[x]]
        /\ UNCHANGED <<written, created, at, slug, found, lapse, rivals>>
    BY <1>10 DEF HourTurns, historyVars
  <2>2. \A x \in Slug :
          /\ slugs'[x] # NoRoom => slugs'[x] = slugs[x]
          /\ slugs[x] # NoRoom /\ hour + 1 < written[slugs[x]] + SlugLife =>
                slugs'[x] = slugs[x]
    BY <2>1
  <2>3. \A r \in Creation : Lives(r)' => Lives(r) /\ slug[r] \in Slug
    BY <1>0, <2>1
  <2>4. Writers'
    BY <1>0, <2>1, <2>2
  <2>5. Contested'
    BY <1>0, <2>1, <2>2, <2>3
  <2>6. Held'
    <3> SUFFICES ASSUME NEW r \in Creation
                 PROVE  /\ written[r] <= hour'
                        /\ Lives(r)' =>
                              /\ slugs'[slug[r]] # NoRoom /\ Leads(r, slugs[slug[r]])'
                              /\ written[r] <= written[slugs'[slug[r]]]
      BY <2>1 DEF Held
    <3>1. written[r] <= hour'
      BY <1>0, <2>1
    <3>2. ASSUME Lives(r)'
          PROVE  /\ slug[r] \in Slug /\ slugs[slug[r]] \in Creation
                 /\ Leads(r, slugs[slug[r]])
                 /\ written[r] <= written[slugs[slug[r]]]
                 /\ slugs'[slug[r]] = slugs[slug[r]]
      <4>1. /\ slug[r] \in Slug /\ slugs[slug[r]] \in Creation
            /\ Leads(r, slugs[slug[r]]) /\ written[r] <= written[slugs[slug[r]]]
        BY <1>0, <2>3, <3>2
      <4>2. hour + 1 < written[r] + SlugLife
        BY <2>1, <3>2
      <4>3. hour + 1 < written[slugs[slug[r]]] + SlugLife
        BY <1>0, <4>1, <4>2
      <4> QED  BY <1>0, <2>2, <4>1, <4>3, CreationAssumption
    <3> QED  BY <1>0, <2>1, <3>1, <3>2
  <2>7. Followed'
    <3> SUFFICES ASSUME NEW l \in Lookup, at[l] = "reading", hour + 1 < lapse[l]
                 PROVE  /\ slugs'[slug[l]] = slugs[slug[l]]
                        /\ slugs[slug[l]] # NoRoom
                        /\ lapse[l] <= written[slugs[slug[l]]] + SlugLife
                        /\ \A r \in Creation : Lives(r) /\ slug[r] = slug[l] =>
                              Leads(r, found[l])
      BY <1>0, <2>1, <2>3 DEF Followed
    <3>1. /\ slug[l] \in Slug /\ slugs[slug[l]] # NoRoom
          /\ lapse[l] <= written[slugs[slug[l]]] + SlugLife
          /\ \A r \in Creation : Lives(r) /\ slug[r] = slug[l] => Leads(r, found[l])
      BY <1>0
    <3>2. slugs[slug[l]] \in Creation
      BY <1>0, <3>1
    <3>3. hour + 1 < written[slugs[slug[l]]] + SlugLife
      BY <1>0, <3>1, <3>2
    <3> QED  BY <2>2, <3>1, <3>3
  <2>8. Initialised'
    BY <2>1
  <2> QED  BY <2>4, <2>5, <2>6, <2>7, <2>8
<1>11. ASSUME UNCHANGED vars
       PROVE  SlugInv'
  <2>1. UNCHANGED <<slugs, written, created, hour, at, slug, found, lapse, rivals>>
    BY <1>11 DEF vars, kvVars, historyVars
  <2> QED  BY <2>1
<1> HIDE DEF SlugInv
<1> QED
  BY NextCases, <1>2, <1>3, <1>4, <1>5, <1>6, <1>7, <1>8, <1>9, <1>10, <1>11,
     Zenon

LEMMA WorkerNext == WorkerInv /\ [Next]_vars => WorkerInv'
  BY TypesKept, CountsKept, SlugsKept, Zenon DEF WorkerInv

(* What has ended stays as it is, and a lookup keeps its slug.             *)
LEMMA EndedStays ==
    ASSUME CreationTypeOK, [Next]_vars
    PROVE  /\ \A r \in Request : at[r] \in Ended => at'[r] = at[r] /\ slug'[r] = slug[r]
           /\ \A l \in Lookup : at[l] # "unsent" => at'[l] # "unsent" /\ slug'[l] = slug[l]
<1> DEFINE P ==
       /\ \A r \in Request : at[r] \in Ended => at'[r] = at[r] /\ slug'[r] = slug[r]
       /\ \A l \in Lookup : at[l] # "unsent" => at'[l] # "unsent" /\ slug'[l] = slug[l]
<1>0. /\ at \in [Request -> Step] /\ slug \in [Request -> Slug \cup {NoSlug}]
      /\ Request = Creation \cup Lookup /\ Creation \cap Lookup = {}
  BY CreationAssumption DEF CreationTypeOK, Request
<1> USE DEF Ended, Goes, kvVars, historyVars
<1>1. ASSUME NEW r \in Request, NEW to, at[r] \notin Ended, to # "unsent",
             at' = [at EXCEPT ![r] = to],
             \A q \in Request \ {r} : slug'[q] = slug[q],
             r \in Lookup /\ at[r] # "unsent" => slug'[r] = slug[r]
      PROVE  P
  BY <1>0, <1>1
<1>2. ASSUME NEW r \in Request, ReadCounter(r) \/ Refuse(r) \/ Admit(r) \/ Fail(r)
      PROVE  P
  <2>1. CASE ReadCounter(r)  BY <1>0, <1>1, <2>1 DEF ReadCounter
  <2>2. CASE Refuse(r)       BY <1>0, <1>1, <2>2 DEF Refuse
  <2>3. CASE Admit(r)        BY <1>0, <1>1, <2>3 DEF Admit
  <2>4. CASE Fail(r)         BY <1>0, <1>1, <2>4 DEF Fail
  <2> QED  BY <1>2, <2>1, <2>2, <2>3, <2>4
<1>3. ASSUME NEW r \in Creation, ReadBody(r) \/ WriteSlug(r) \/ ConfirmSlug(r)
      PROVE  P
  <2>1. CASE ReadBody(r)     BY <1>0, <1>1, <2>1 DEF ReadBody
  <2>2. CASE WriteSlug(r)    BY <1>0, <1>1, <2>2 DEF WriteSlug
  <2>3. CASE ConfirmSlug(r)  BY <1>0, <1>1, <2>3 DEF ConfirmSlug
  <2> QED  BY <1>3, <2>1, <2>2, <2>3
<1>4. ASSUME NEW r \in Creation, NEW x \in Slug, TrySlug(r, x)
      PROVE  P
  BY <1>0, <1>1, <1>4 DEF TrySlug
<1>5. ASSUME NEW r \in Creation, Exhausted(r) \/ OpenRoom(r) \/ Create(r)
      PROVE  P
  <2>1. CASE Exhausted(r)    BY <1>0, <1>1, <2>1 DEF Exhausted
  <2>2. CASE OpenRoom(r)     BY <1>0, <1>1, <2>2 DEF OpenRoom
  <2>3. CASE Create(r)       BY <1>0, <1>1, <2>3 DEF Create
  <2> QED  BY <1>5, <2>1, <2>2, <2>3
<1>6. ASSUME NEW l \in Lookup, AskSlug(l) \/ ReadState(l)
      PROVE  P
  <2>1. CASE AskSlug(l)      BY <1>0, <1>1, <2>1 DEF AskSlug
  <2>2. CASE ReadState(l)    BY <1>0, <1>1, <2>2 DEF ReadState
  <2> QED  BY <1>6, <2>1, <2>2
<1>7. ASSUME NEW l \in Lookup, NEW x \in Slug, Ask(l, x)
      PROVE  P
  BY <1>0, <1>1, <1>7 DEF Ask
<1>8. ASSUME HourTurns
      PROVE  P
  BY <1>8 DEF HourTurns
<1>9. ASSUME UNCHANGED vars
      PROVE  P
  BY <1>9 DEF vars
<1> HIDE DEF P
<1>10. P
  BY NextCases, <1>2, <1>3, <1>4, <1>5, <1>6, <1>7, <1>8, <1>9, Zenon
<1> QED  BY <1>10 DEF P

-----------------------------------------------------------------------------
(* The steps of the tab.                                                   *)

LEMMA PageInit == EntryInit => PageInv
  BY DEF EntryInit, PageInv, Entries, At, From, NoJoin

(* A step of the Worker alone.                                             *)
LEMMA PageWaits ==
    ASSUME WorkerInv, PageInv, [Next]_vars,
           UNCHANGED <<address, history, probe, asking, join>>, waiting' \subseteq Mine
    PROVE  PageInv'
<1>1. /\ \A r \in Request : at[r] \in Ended => at'[r] = at[r] /\ slug'[r] = slug[r]
      /\ \A l \in Lookup : at[l] # "unsent" => at'[l] # "unsent" /\ slug'[l] = slug[l]
  BY EndedStays DEF WorkerInv
<1>2. \A path, c : From(path, c) => From(path, c)'
  BY <1>1 DEF From, Ended, Request
<1>3. \A l \in Lookup : at[l] \in Says[probe] =>
          at'[l] \in Says[probe] /\ slug'[l] = slug[l]
  BY <1>1 DEF PageInv, Says, Ended, Request
<1> QED  BY <1>1, <1>2, <1>3 DEF PageInv

(* Another entry is shown.                                                 *)
LEMMA PageShows ==
    ASSUME WorkerInv, PageInv, NEW entry \in Entries, Shows(entry),
           From(entry.path, entry.host),
           history' \subseteq history \cup {entry}, waiting' \subseteq Mine
    PROVE  [Next]_vars /\ PageInv'
<1>1. [Next]_vars
  <2>1. CASE UNCHANGED vars
    BY <2>1
  <2>2. CASE \E l \in Lookup : entry.path # Home /\ Ask(l, entry.path)
    <3>1. entry.path \in Slug
      BY <2>2 DEF Entries
    <3> QED  BY <2>2, <3>1 DEF Next, Request
  <2> QED  BY <2>1, <2>2 DEF Shows
<1>2. /\ \A r \in Request : at[r] \in Ended => at'[r] = at[r] /\ slug'[r] = slug[r]
      /\ \A l \in Lookup : at[l] # "unsent" => at'[l] # "unsent" /\ slug'[l] = slug[l]
  BY <1>1, EndedStays DEF WorkerInv
<1>3. \A path, c : From(path, c) => From(path, c)'
  BY <1>2 DEF From, Ended, Request
<1>4. address' = entry
  BY DEF Shows
<1>5. From(join'.slug, join'.host)
  BY DEF Shows, Settled, NoJoin, PageInv, From
<1>6. /\ probe' \in {"loading", "found", "not_found", "probe_error"}
      /\ asking' \in Lookup \cup {NoLookup}
  BY DEF Shows, PageInv
<1>7. entry.path # Home =>
        IF asking' = NoLookup
        THEN \E l \in Lookup : slug'[l] = entry.path /\ at'[l] \in Says[probe']
        ELSE slug'[asking'] = entry.path /\ at'[asking'] # "unsent"
  <2> SUFFICES ASSUME entry.path # Home
               PROVE  IF asking' = NoLookup
                      THEN \E l \in Lookup : slug'[l] = entry.path /\ at'[l] \in Says[probe']
                      ELSE slug'[asking'] = entry.path /\ at'[asking'] # "unsent"
    OBVIOUS
  <2>1. CASE entry.path = address.path /\ UNCHANGED <<probe, asking, vars>>
    BY <2>1 DEF PageInv, vars
  <2>2. ASSUME NEW l \in Lookup, Ask(l, entry.path), asking' = l
        PROVE  asking' # NoLookup /\ slug'[asking'] = entry.path /\ at'[asking'] = "new"
    BY <2>2, EntryAssumption DEF Ask, Goes, WorkerInv, CreationTypeOK, Request
  <2> QED  BY <2>1, <2>2 DEF Shows
<1> QED
  BY <1>1, <1>3, <1>4, <1>5, <1>6, <1>7 DEF PageInv

(* A step of the tab is one of the Worker, or leaves it alone.             *)
LEMMA EntryStep ==
    ASSUME WorkerInv, PageInv, [EntryNext]_entryVars
    PROVE  [Next]_vars /\ PageInv'
<1> DEFINE P == [Next]_vars /\ PageInv'
<1>1. CASE (Work \/ \E c \in Creation \ Mine : Create(c)) /\ UNCHANGED pageVars
  <2>1. [Next]_vars
    BY <1>1 DEF Next, Request
  <2> QED  BY <1>1, <2>1, PageWaits DEF pageVars, PageInv
<1>2. ASSUME NEW c \in Mine, Submit(c)
      PROVE  P
  <2>1. [Next]_vars
    BY <1>2, EntryAssumption DEF Submit, Next, Request
  <2> QED  BY <1>2, <2>1, PageWaits DEF Submit, PageInv
<1>3. ASSUME NEW c \in Mine, Created(c)
      PROVE  P
  <2>0. c \in Creation /\ waiting' \subseteq Mine
    BY <1>3, EntryAssumption DEF Created, PageInv
  <2>1. CASE at[c] = "answered" /\ Pushes([path |-> slug[c], host |-> c])
    <3> DEFINE entry == [path |-> slug[c], host |-> c]
    <3>1. slug[c] \in Slug
      BY <2>0, <2>1 DEF WorkerInv, HasSlug, Wrote
    <3>2. entry \in Entries /\ From(entry.path, entry.host)
      BY <2>0, <2>1, <3>1 DEF Entries, From
    <3>3. Shows(entry) /\ history' \subseteq history \cup {entry}
      BY <2>1 DEF Pushes
    <3> HIDE DEF entry
    <3> QED  BY <2>0, <3>2, <3>3, PageShows
  <2>2. CASE UNCHANGED <<vars, address, history, probe, asking, join>>
    BY <2>0, <2>2, PageWaits
  <2> QED  BY <1>3, <2>1, <2>2 DEF Created
<1>4. ASSUME NEW path \in Slug \cup {Home}, Pushes(At(path)), UNCHANGED waiting
      PROVE  P
  <2> DEFINE entry == At(path)
  <2>1. entry \in Entries /\ From(entry.path, entry.host)
    BY DEF At, Entries, From
  <2>2. Shows(entry) /\ history' \subseteq history \cup {entry}
    BY <1>4 DEF Pushes
  <2>3. waiting' \subseteq Mine
    BY <1>4 DEF PageInv
  <2> HIDE DEF entry
  <2> QED  BY <2>1, <2>2, <2>3, PageShows
<1>5. ASSUME NEW entry \in Entries, Traverse(entry)
      PROVE  P
  <2>1. /\ From(entry.path, entry.host) /\ Shows(entry)
        /\ history' \subseteq history \cup {entry} /\ waiting' \subseteq Mine
    BY <1>5 DEF Traverse, PageInv
  <2> QED  BY <2>1, PageShows
<1>6. ASSUME NEW l \in Lookup, Probed(l)
      PROVE  P
  <2>1. /\ l = asking /\ at[l] \in Ended /\ asking' = NoLookup
        /\ probe' = CASE at[l] = "answered" -> "found"
                      [] at[l] = "notFound" -> "not_found"
                      [] OTHER -> "probe_error"
        /\ join' = Settled(address, probe', join)
        /\ UNCHANGED <<vars, address, history, waiting>>
    BY <1>6 DEF Probed, Reads
  <2>2. at[l] \in {"answered", "limited", "notFound", "failed"}
    BY <2>1 DEF WorkerInv, LookupSteps, Ended
  <2>3. at[l] \in Says[probe'] /\ probe' \in {"found", "not_found", "probe_error"}
    BY <2>1, <2>2 DEF Says
  <2>4. From(join'.slug, join'.host)
    BY <2>1 DEF Settled, PageInv, From
  <2>5. address.path # Home => slug[l] = address.path
    BY <2>1, EntryAssumption DEF PageInv
  <2>6. PageInv'
    BY <2>1, <2>3, <2>4, <2>5 DEF PageInv, From, vars
  <2> QED  BY <2>1, <2>6
<1>7. CASE JoinAsGuest
  BY <1>7 DEF JoinAsGuest, PageInv, From, vars
<1>8. CASE UNCHANGED entryVars
  BY <1>8, PageWaits DEF entryVars, pageVars, PageInv
<1>9. ASSUME NEW x \in Slug, Follow(x)
      PROVE  P
  BY <1>4, <1>9 DEF Follow
<1>10. CASE GoHome
  BY <1>4, <1>10 DEF GoHome
<1> HIDE DEF P
<1>11. P
  BY <1>1, <1>2, <1>3, <1>5, <1>6, <1>7, <1>8, <1>9, <1>10 DEF EntryNext, P
<1> QED  BY <1>11 DEF P

LEMMA InvAlways == EntrySpec => [](WorkerInv /\ PageInv)
<1>1. EntryInit => WorkerInv /\ PageInv
  BY WorkerInit, PageInit DEF EntryInit
<1>2. WorkerInv /\ PageInv /\ [EntryNext]_entryVars => WorkerInv' /\ PageInv'
  BY EntryStep, WorkerNext
<1> QED  BY <1>1, <1>2, PTL DEF EntrySpec

-----------------------------------------------------------------------------
(* The state of the Worker is well typed, whatever the tab does.           *)
THEOREM CreationTypeCorrect == EntrySpec => []CreationTypeOK
<1>1. WorkerInv => CreationTypeOK
  BY DEF WorkerInv
<1> QED  BY <1>1, InvAlways, PTL

(* Nobody is refused who is below the limit (rateLimit.ts).                *)
THEOREM NeverRefusedEarly == EntrySpec => []NoEarlyRefusal
<1>1. WorkerInv => NoEarlyRefusal
  BY DEF WorkerInv
<1> QED  BY <1>1, InvAlways, PTL

LEMMA LinksLead == WorkerInv => LinkWorks
  BY DEF WorkerInv, SlugInv, Held, Initialised, Leads, Shared, LinkWorks, Wrote,
         Lives, HasSlug, CreationTypeOK

(* A link leads to its own room, which has its row, for as long as its     *)
(* slug lives, unless two creations were given one slug (worker.ts,        *)
(* slug.ts).                                                               *)
THEOREM LinkAlwaysWorks == EntrySpec => []LinkWorks
  BY LinksLead, InvAlways, PTL

LEMMA FollowersArrive ==
    ASSUME WorkerInv, [Next]_vars,
           NEW l \in Lookup, at'[l] = "notFound", at[l] # "notFound",
           ~Lapsed(l),
           NEW r \in Creation, at[r] = "answered", Alive(r), ~Shared(r),
           slug[r] = slug[l]
    PROVE  FALSE
<1>0. /\ at \in [Request -> Step] /\ Request = Creation \cup Lookup
      /\ Creation \cap Lookup = {}
  BY CreationAssumption DEF WorkerInv, CreationTypeOK, Request
<1>1. slugs[slug[l]] = r /\ r \in created
  BY LinksLead DEF LinkWorks
<1>2. ASSUME NEW q \in Request, NEW to, at' = [at EXCEPT ![q] = to],
             to # "notFound" \/ q # l
      PROVE  FALSE
  BY <1>0, <1>2
<1> USE DEF Goes
<1>3. ASSUME NEW q \in Request, ReadCounter(q) \/ Refuse(q) \/ Admit(q) \/ Fail(q)
      PROVE  FALSE
  <2>1. CASE ReadCounter(q)  BY <1>2, <2>1 DEF ReadCounter
  <2>2. CASE Refuse(q)       BY <1>2, <2>2 DEF Refuse
  <2>3. CASE Admit(q)        BY <1>2, <2>3 DEF Admit
  <2>4. CASE Fail(q)         BY <1>2, <2>4 DEF Fail
  <2> QED  BY <1>3, <2>1, <2>2, <2>3, <2>4
<1>4. ASSUME NEW q \in Creation, ReadBody(q) \/ WriteSlug(q) \/ ConfirmSlug(q)
      PROVE  FALSE
  BY <1>0, <1>2, <1>4 DEF ReadBody, WriteSlug, ConfirmSlug
<1>5. ASSUME NEW q \in Creation, NEW x \in Slug, TrySlug(q, x)
      PROVE  FALSE
  BY <1>0, <1>2, <1>5 DEF TrySlug
<1>6. ASSUME NEW q \in Creation, Exhausted(q) \/ OpenRoom(q) \/ Create(q)
      PROVE  FALSE
  BY <1>0, <1>2, <1>6 DEF Exhausted, OpenRoom, Create
<1>7. ASSUME NEW k \in Lookup, AskSlug(k) \/ ReadState(k)
      PROVE  FALSE
  <2>1. k = l
    BY <1>0, <1>2, <1>7 DEF AskSlug, ReadState
  <2>2. CASE AskSlug(k)
    BY <1>0, <1>1, <2>1, <2>2, CreationAssumption DEF AskSlug
  <2>3. CASE ReadState(k)
    <3>1. at[l] = "reading" /\ found[l] \notin created
      BY <1>0, <2>1, <2>3 DEF ReadState
    <3>2. Leads(r, found[l])
      <4>1. hour < lapse[l]
        BY <3>1, CreationAssumption DEF Lapsed, WorkerInv, CreationTypeOK
      <4>2. Lives(r)
        BY DEF Lives, Wrote
      <4> QED  BY <3>1, <4>1, <4>2 DEF WorkerInv, SlugInv, Followed
    <3>3. found[l] = r
      BY <3>2, <1>1 DEF Leads, Shared
    <3> QED  BY <1>1, <3>1, <3>3
  <2> QED  BY <1>7, <2>2, <2>3
<1>8. ASSUME NEW k \in Lookup, NEW x \in Slug, Ask(k, x)
      PROVE  FALSE
  BY <1>0, <1>2, <1>8 DEF Ask
<1>9. ASSUME HourTurns
      PROVE  FALSE
  BY <1>9 DEF HourTurns
<1>10. ASSUME UNCHANGED vars
      PROVE  FALSE
  BY <1>10 DEF vars
<1> QED
  BY NextCases, <1>3, <1>4, <1>5, <1>6, <1>7, <1>8, <1>9, <1>10, Zenon

(* Nobody who follows a link whose slug lives is told that there is no     *)
(* room, but for a lookup whose slug expired in its hands (worker.ts).     *)
THEOREM NeverADeadLink == EntrySpec => NoDeadLink
<1>1. WorkerInv /\ PageInv /\ [EntryNext]_entryVars =>
        [\A l \in Lookup : at'[l] = "notFound" /\ at[l] # "notFound" /\ ~Lapsed(l) =>
           ~ \E r \in Creation :
               /\ at[r] = "answered" /\ Alive(r) /\ ~Shared(r)
               /\ slug[r] = slug[l]]_vars
  BY EntryStep, FollowersArrive
<1> QED  BY <1>1, InvAlways, PTL DEF EntrySpec, NoDeadLink

(* What the page says of a room was answered for the slug in its address,  *)
(* or the answer it waits for is one about that slug (RoomPage.tsx).       *)
THEOREM ProbeAlwaysOfThisRoom == EntrySpec => []ProbeOfThisRoom
<1>1. PageInv => ProbeOfThisRoom
  BY DEF PageInv, ProbeOfThisRoom, SaidOf
<1> QED  BY <1>1, InvAlways, PTL

(* The host's credentials are used in the room that gave them out          *)
(* (CreatePage.tsx, RoomPage.tsx).                                         *)
THEOREM HostRowAlwaysGoesHome == EntrySpec => []HostRowGoesHome
<1>1. WorkerInv /\ PageInv => HostRowGoesHome
  BY LinksLead DEF PageInv, From, LinkWorks, HostRowGoesHome, WorkerInv, SlugInv,
                   Initialised
<1> QED  BY <1>1, InvAlways, PTL
=============================================================================
