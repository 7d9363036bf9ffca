----------------------------- MODULE RoomCreation -----------------------------
(***************************************************************************)
(* The Worker in front of the rooms: POST /api/rooms and GET               *)
(* /api/rooms/:slug of worker.ts, the hourly counters of rateLimit.ts and  *)
(* the slug reservation of slug.ts.  Every await on KV or on a room is a   *)
(* point where other requests run, and where a request may die.            *)
(*                                                                         *)
(* KV is taken at its best, one consistent map; a room is named by the     *)
(* request that made its id, and a slug leads to a request's room.  The    *)
(* requests are those of one address: counters of others never meet.  What *)
(* a request remembers is forgotten when it has no more use for it.        *)
(***************************************************************************)
EXTENDS Integers, FiniteSetsExt

CONSTANTS
    Creation,    \* POST /api/rooms requests
    Lookup,      \* GET /api/rooms/:slug requests
    Slug,        \* what generateSlug may return
    NoRoom,      \* KV's null
    NoSlug,      \* a request that has no slug yet
    CreateLimit, \* RL_CREATE_PER_HOUR
    LookupLimit, \* RL_LOOKUP_PER_HOUR
    MaxRetries,  \* maxRetries of reserveSlug
    SlugLife,    \* expirationTtl of a slug, in hours
    MaxHour      \* bound: the last hour of an instance

ASSUME CreationAssumption ==
    /\ Creation \cap Lookup = {} /\ NoRoom \notin Creation
    /\ NoSlug \notin Slug
    /\ CreateLimit \in Nat \ {0} /\ LookupLimit \in Nat \ {0}
    /\ MaxRetries \in Nat \ {0} /\ SlugLife \in Nat \ {0} /\ MaxHour \in Nat

VARIABLES
    slugs,    \* KV: slug -> room
    written,  \* KV: the hour in which a room's slug was put
    counter,  \* KV: rl:<action>:<ip>:<bucket>
    created,  \* rooms whose Durable Object has a room row
    hour,     \* Math.floor(Date.now() / HOUR_MS)
    at,       \* where each request stands
    bucket,   \* the hour a request started its count in
    seen,     \* the count it read
    slug,     \* the slug it is trying, was given or asks for
    attempts, \* attempts of reserveSlug so far
    found,    \* the room a lookup was led to
    admitted, \* history: requests let through, by action and bucket
    lapse,    \* history: the hour in which the entry a lookup has read expires
    rivals    \* history: creations that wrote a slug after this one, which
              \* was about to write the same, had found it free

kvVars == <<slugs, written, counter>>
historyVars == <<admitted, lapse, rivals>>
vars == <<kvVars, created, hour, at, bucket, seen, slug, attempts, found,
          historyVars>>

Request == Creation \cup Lookup
Action  == {"create", "lookup"}
ActionOf(r) == IF r \in Creation THEN "create" ELSE "lookup"
LimitOf(r)  == IF r \in Creation THEN CreateLimit ELSE LookupLimit

Ended == {"answered", "limited", "invalid", "exhausted", "notFound", "failed"}
Step  == Ended \cup {"unsent", "new", "counting", "parsing", "reserving", "writing",
                     "confirming", "opening", "asking", "reading"}

Init ==
    /\ slugs = [x \in Slug |-> NoRoom]
    /\ written = [r \in Creation |-> 0]
    /\ counter = [a \in Action |-> [h \in 0..MaxHour |-> 0]]
    /\ created = {}
    /\ hour = 0
    /\ at = [r \in Request |-> "unsent"]
    /\ bucket = [r \in Request |-> 0]
    /\ seen = [r \in Request |-> 0]
    /\ slug = [r \in Request |-> NoSlug]
    /\ attempts = [r \in Creation |-> 0]
    /\ found = [r \in Lookup |-> NoRoom]
    /\ admitted = [a \in Action |-> [h \in 0..MaxHour |-> 0]]
    /\ lapse = [r \in Lookup |-> 0]
    /\ rivals = [r \in Creation |-> {}]

Goes(r, from, to) ==
    /\ at[r] = from
    /\ at' = [at EXCEPT ![r] = to]

(* A request comes; a lookup names its slug.                               *)
Create(r) ==
    /\ r \in Creation
    /\ Goes(r, "unsent", "new")
    /\ UNCHANGED <<kvVars, created, hour, bucket, seen, slug, attempts,
                   found, historyVars>>

Ask(r, x) ==
    /\ r \in Lookup
    /\ Goes(r, "unsent", "new")
    /\ slug' = [slug EXCEPT ![r] = x]
    /\ UNCHANGED <<kvVars, created, hour, bucket, seen, attempts,
                   found, historyVars>>

-----------------------------------------------------------------------------
(* checkWindowedIpLimit: a read, then a write of what was read plus one.   *)

ReadCounter(r) ==
    /\ Goes(r, "new", "counting")
    /\ bucket' = [bucket EXCEPT ![r] = hour]
    /\ seen' = [seen EXCEPT ![r] = counter[ActionOf(r)][hour]]
    /\ UNCHANGED <<kvVars, created, hour, slug, attempts, found, historyVars>>

(* Mutant: the count of another hour decides.                              *)
Limited_LastHour(r) ==
    \E h \in 0..bucket[r] : counter[ActionOf(r)][h] >= LimitOf(r)

Limited(r) == seen[r] >= LimitOf(r)

Refuse(r) ==
    /\ Limited(r)
    /\ Goes(r, "counting", "limited")
    /\ UNCHANGED <<kvVars, created, hour, bucket, seen, slug, attempts,
                   found, historyVars>>

(* Then a creation turns to its body and a lookup to the slug.             *)
Admit(r) ==
    LET a == ActionOf(r) IN
    /\ ~Limited(r)
    /\ \/ r \in Creation /\ Goes(r, "counting", "parsing")
       \/ r \in Lookup /\ Goes(r, "counting", "asking")
    /\ counter' = [counter EXCEPT ![a][bucket[r]] = seen[r] + 1]
    /\ admitted' = [admitted EXCEPT ![a][bucket[r]] = @ + 1]
    /\ bucket' = [bucket EXCEPT ![r] = 0]
    /\ seen' = [seen EXCEPT ![r] = 0]
    /\ UNCHANGED <<slugs, written, created, hour, slug, attempts, found, lapse, rivals>>

(* readJsonBody and validateCreateRoomRequest: a body that is too large,   *)
(* no JSON, or no request for a room is answered with its error.           *)
ReadBody(r) ==
    /\ \/ Goes(r, "parsing", "reserving")
       \/ Goes(r, "parsing", "invalid")
    /\ UNCHANGED <<kvVars, created, hour, bucket, seen, slug, attempts,
                   found, historyVars>>

-----------------------------------------------------------------------------
(* reserveSlug: get, put, get.                                             *)

(* Mutant: the slug is not looked up before it is written.                 *)
TrySlug_Unseen(r, x) ==
    /\ attempts[r] < MaxRetries
    /\ slug' = [slug EXCEPT ![r] = x]
    /\ attempts' = [attempts EXCEPT ![r] = @ + 1]
    /\ rivals' = [rivals EXCEPT ![r] = {}]
    /\ Goes(r, "reserving", "writing")
    /\ UNCHANGED <<kvVars, created, hour, bucket, seen, found, admitted, lapse>>

TrySlug(r, x) ==
    /\ attempts[r] < MaxRetries
    /\ \/ slugs[x] = NoRoom /\ Goes(r, "reserving", "writing")
       \/ slugs[x] # NoRoom /\ Goes(r, "reserving", "reserving")
    /\ slug' = [slug EXCEPT ![r] = x]
    /\ attempts' = [attempts EXCEPT ![r] = @ + 1]
    /\ rivals' = [rivals EXCEPT ![r] = {}]
    /\ UNCHANGED <<kvVars, created, hour, bucket, seen, found, admitted, lapse>>

WriteSlug(r) ==
    /\ Goes(r, "writing", "confirming")
    /\ slugs' = [slugs EXCEPT ![slug[r]] = r]
    /\ written' = [written EXCEPT ![r] = hour]
    /\ rivals' = [q \in Creation |->
            IF q # r /\ at[q] = "writing" /\ slug[q] = slug[r]
            THEN rivals[q] \cup {r} ELSE rivals[q]]
    /\ UNCHANGED <<counter, created, hour, bucket, seen, slug, attempts, found,
                   admitted, lapse>>

ConfirmSlug(r) ==
    /\ \/ Goes(r, "confirming", "opening") /\ slugs[slug[r]] = r
       \/ Goes(r, "confirming", "reserving") /\ slugs[slug[r]] # r
    /\ UNCHANGED <<kvVars, created, hour, bucket, seen, slug, attempts,
                   found, historyVars>>

(* SLUG_GENERATION_EXHAUSTED, a 500.                                       *)
Exhausted(r) ==
    /\ attempts[r] = MaxRetries
    /\ Goes(r, "reserving", "exhausted")
    /\ attempts' = [attempts EXCEPT ![r] = 0]
    /\ slug' = [slug EXCEPT ![r] = NoSlug]
    /\ UNCHANGED <<kvVars, created, hour, bucket, seen, found, historyVars>>

-----------------------------------------------------------------------------
(* The room.                                                               *)

(* Mutant: the answer does not wait for /init.                             *)
OpenRoom_NoWait(r) ==
    /\ Goes(r, "opening", "answered")
    /\ attempts' = [attempts EXCEPT ![r] = 0]
    /\ UNCHANGED <<created, kvVars, hour, bucket, seen, slug, found, historyVars>>

(* POST /init, then the 201 with the slug and the host's id and token.     *)
OpenRoom(r) ==
    /\ Goes(r, "opening", "answered")
    /\ created' = created \cup {r}
    /\ attempts' = [attempts EXCEPT ![r] = 0]
    /\ UNCHANGED <<kvVars, hour, bucket, seen, slug, found, historyVars>>

-----------------------------------------------------------------------------
(* A lookup.                                                               *)

(* lookupSlug.                                                             *)
AskSlug(r) ==
    /\ \/ Goes(r, "asking", "notFound") /\ slugs[slug[r]] = NoRoom /\ UNCHANGED lapse
       \/ /\ Goes(r, "asking", "reading") /\ slugs[slug[r]] # NoRoom
          /\ lapse' = [lapse EXCEPT ![r] = written[slugs[slug[r]]] + SlugLife]
    /\ found' = [found EXCEPT ![r] = slugs[slug[r]]]
    /\ UNCHANGED <<kvVars, created, hour, bucket, seen, slug, attempts,
                   admitted, rivals>>

(* GET /state: a room without a row answers ROOM_NOT_FOUND.                *)
ReadState(r) ==
    /\ \/ found[r] \in created /\ Goes(r, "reading", "answered")
       \/ found[r] \notin created /\ Goes(r, "reading", "notFound")
    /\ found' = [found EXCEPT ![r] = NoRoom]
    /\ lapse' = [lapse EXCEPT ![r] = 0]
    /\ UNCHANGED <<kvVars, created, hour, bucket, seen, slug, attempts,
                   admitted, rivals>>

(* A request may die at any await: the client goes, KV or a room throws.   *)
Fail(r) ==
    /\ at[r] \notin Ended \cup {"unsent"}
    /\ at' = [at EXCEPT ![r] = "failed"]
    /\ bucket' = [bucket EXCEPT ![r] = 0]
    /\ seen' = [seen EXCEPT ![r] = 0]
    /\ attempts' = [q \in Creation |-> IF q = r THEN 0 ELSE attempts[q]]
    /\ found' = [q \in Lookup |-> IF q = r THEN NoRoom ELSE found[q]]
    /\ lapse' = [q \in Lookup |-> IF q = r THEN 0 ELSE lapse[q]]
    /\ slug' = [q \in Request |-> IF q = r /\ r \in Creation THEN NoSlug ELSE slug[q]]
    /\ UNCHANGED <<kvVars, created, hour, admitted, rivals>>

Serve(r) ==
    \/ ReadCounter(r) \/ Refuse(r) \/ Admit(r)
    \/ /\ r \in Creation
       /\ \/ ReadBody(r)
          \/ \E x \in Slug : TrySlug(r, x)
          \/ WriteSlug(r) \/ ConfirmSlug(r) \/ Exhausted(r) \/ OpenRoom(r)
    \/ /\ r \in Lookup
       /\ AskSlug(r) \/ ReadState(r)

(* The slug of a creation has not come to the end of its expirationTtl,    *)
(* which is counted in whole hours.  Nothing renews it.                    *)
AliveIn(h, r) == h < written[r] + SlugLife
Alive(r) == AliveIn(hour, r)

(* The hour turns when it will, and KV drops the slugs whose life is over. *)
HourTurns ==
    /\ hour < MaxHour
    /\ hour' = hour + 1
    /\ slugs' = [x \in Slug |->
            IF slugs[x] # NoRoom /\ ~AliveIn(hour + 1, slugs[x]) THEN NoRoom ELSE slugs[x]]
    /\ UNCHANGED <<written, counter, created, at, bucket, seen, slug, attempts,
                   found, historyVars>>

(* What goes on in the Worker of its own accord.                           *)
Work == HourTurns \/ \E r \in Request : Serve(r) \/ Fail(r)

Next == Work \/ \E r \in Request : Create(r) \/ \E x \in Slug : Ask(r, x)

Spec == Init /\ [][Next]_vars

(* A request that has come is served until it ends.                        *)
LiveSpec == Spec /\ \A r \in Request : WF_vars(Serve(r))

-----------------------------------------------------------------------------
(* Properties.                                                             *)

CreationTypeOK ==
    /\ slugs \in [Slug -> Creation \cup {NoRoom}]
    /\ written \in [Creation -> 0..MaxHour]
    /\ counter \in [Action -> [0..MaxHour -> Nat]]
    /\ created \subseteq Creation
    /\ hour \in 0..MaxHour
    /\ at \in [Request -> Step]
    /\ bucket \in [Request -> 0..MaxHour]
    /\ seen \in [Request -> Nat]
    /\ slug \in [Request -> Slug \cup {NoSlug}]
    /\ attempts \in [Creation -> 0..MaxRetries]
    /\ found \in [Lookup -> Creation \cup {NoRoom}]
    /\ admitted \in [Action -> [0..MaxHour -> Nat]]
    /\ lapse \in [Lookup -> Nat]
    /\ rivals \in [Creation -> SUBSET Creation]

(* Two creations about to write one slug that both had found free.         *)
Shared(r) == rivals[r] # {} \/ \E q \in Creation : r \in rivals[q]

(* The link in a 201 leads to the room of that request, which has its host *)
(* row, for as long as its slug lives, whatever other requests draw, retry *)
(* or die of; but for the window between the get and the put of slug.ts    *)
(* reserveSlug.                                                            *)
LinkWorks ==
    \A r \in Creation : at[r] = "answered" /\ Alive(r) /\ ~Shared(r) =>
        slugs[slug[r]] = r /\ r \in created

(* The slug a lookup has read for another room expired before it could ask *)
(* that room.                                                              *)
Lapsed(l) == at[l] = "reading" /\ hour >= lapse[l]

(* Nobody who follows such a link is told that there is no room            *)
(* (worker.ts getRoomEndpoint).                                            *)
NoDeadLink ==
    [][\A l \in Lookup : at'[l] = "notFound" /\ at[l] # "notFound" /\ ~Lapsed(l) =>
         ~ \E r \in Creation :
             /\ at[r] = "answered" /\ Alive(r) /\ ~Shared(r)
             /\ slug[r] = slug[l]]_vars

(* The counters of KV lose updates and may let too many through; they      *)
(* never turn an address away before its limit in that hour (rateLimit.ts  *)
(* checkWindowedIpLimit).                                                  *)
NoEarlyRefusal ==
    \A r \in Request : at[r] = "limited" =>
        admitted[ActionOf(r)][bucket[r]] >= LimitOf(r)

(* Every request ends, however the slugs collide: maxRetries bounds it.    *)
EveryRequestEnds ==
    \A r \in Request : at[r] # "unsent" ~> at[r] \in Ended

(* What raceConditions.workers.test.ts says of a slug collision on         *)
(* creation: "retry <=5, then SLUG_GENERATION_EXHAUSTED", so that no slug  *)
(* that lives is given to two.                                             *)
SlugGivenOnce ==
    \A r, q \in {c \in Creation : at[c] = "answered" /\ Alive(c)} :
        slug[r] = slug[q] => r = q
=============================================================================
