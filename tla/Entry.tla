--------------------------------- MODULE Entry ---------------------------------
(***************************************************************************)
(* The way of one browser tab into a room: the form of CreatePage that     *)
(* makes one or follows a code, and RoomPage, which asks whether there is  *)
(* a room under the address and then joins.  Both wait for the Worker of   *)
(* RoomCreation while the tab's address may change under them.  RoomPage   *)
(* stays mounted when one room's address replaces another's.               *)
(*                                                                         *)
(* The Worker's other requests are those of other tabs at one IP address.  *)
(* A page that is loaded anew is a tab of its own.                         *)
(***************************************************************************)
EXTENDS RoomCreation

CONSTANTS
    Mine,       \* the creations of this tab
    Home,       \* the address of CreatePage
    NoLookup

ASSUME EntryAssumption ==
    Mine \subseteq Creation /\ Home \notin Slug /\ NoLookup \notin Lookup

VARIABLES
    address,    \* the entry shown: its path, and location.state if that
                \* holds the host's credentials: the creation they are from
    history,    \* the entries the tab can go back or forward to
    waiting,    \* the creations whose answer the tab has still to hear
    submitting, \* the creation CreatePage is submitting
    probe,      \* RoomPage.probe
    asking,     \* the lookup the effect of RoomPage waits for
    join        \* RoomPage.joinParams: the slug, and the host's credentials

pageVars == <<address, history, waiting, submitting, probe, asking, join>>
entryVars == <<vars, pageVars>>

Entries == [path : Slug \cup {Home}, host : Creation \cup {NoRoom}]
At(path) == [path |-> path, host |-> NoRoom]
NoJoin == [slug |-> NoSlug, host |-> NoRoom]

EntryInit ==
    /\ Init
    /\ address = At(Home)
    /\ history = {At(Home)}
    /\ waiting = {} /\ submitting = NoRoom
    /\ probe = "loading" /\ asking = NoLookup /\ join = NoJoin

-----------------------------------------------------------------------------
(* The effect of RoomPage that joins, once a room is found: as its host    *)
(* when the entry says so.                                                 *)
Settled(entry, found_, joined) ==
    IF found_ = "found" /\ joined = NoJoin /\ entry.host # NoRoom
    THEN [slug |-> entry.path, host |-> entry.host]
    ELSE joined

(* The tab shows another entry.  CreatePage and RoomPage replace each      *)
(* other and start anew; from one room to another RoomPage stays and only  *)
(* asks about the new slug.                                                *)
Shows(entry) ==
    /\ address' = entry
    /\ submitting' = NoRoom
    /\ \/ /\ entry.path = Home
          /\ probe' = "loading" /\ asking' = NoLookup /\ join' = NoJoin
          /\ UNCHANGED vars
       \/ /\ entry.path = address.path
          /\ join' = Settled(entry, probe, join)
          /\ UNCHANGED <<probe, asking, vars>>
       \/ /\ entry.path \notin {Home, address.path}
          /\ \E l \in Lookup : Ask(l, entry.path) /\ asking' = l
          /\ probe' = IF address.path = Home THEN "loading" ELSE probe
          /\ join' = IF address.path = Home THEN NoJoin ELSE Settled(entry, probe, join)

Pushes(entry) ==
    /\ history' = history \cup {entry}
    /\ Shows(entry)

(* CreatePage.onSubmit, up to its await.                                   *)
Submit(c) ==
    /\ c \in Mine
    /\ address.path = Home /\ submitting = NoRoom
    /\ Create(c)
    /\ waiting' = waiting \cup {c}
    /\ submitting' = c
    /\ UNCHANGED <<address, history, probe, asking, join>>

(* The rest of onSubmit runs wherever the tab is by then.  When the fetch  *)
(* itself fails nothing runs.                                              *)
Created(c) ==
    /\ c \in waiting /\ at[c] \in Ended
    /\ waiting' = waiting \ {c}
    /\ \/ /\ at[c] = "answered"
          /\ Pushes([path |-> slug[c], host |-> c])
       \/ /\ at[c] # "answered"
          /\ \/ submitting' = IF submitting = c THEN NoRoom ELSE submitting
             \/ at[c] = "failed" /\ UNCHANGED submitting
          /\ UNCHANGED <<vars, address, history, probe, asking, join>>

(* CreatePage.onJoin: a code or a link from somewhere.                     *)
Follow(x) ==
    /\ address.path = Home
    /\ Pushes(At(x))
    /\ UNCHANGED waiting

GoHome ==
    /\ address.path # Home
    /\ Pushes(At(Home))
    /\ UNCHANGED waiting

(* Back or forward, by any number of entries.                              *)
Traverse(entry) ==
    /\ entry \in history \ {address}
    /\ Shows(entry)
    /\ UNCHANGED <<history, waiting>>

Reads(l) ==
    /\ at[l] \in Ended
    /\ probe' = CASE at[l] = "answered" -> "found"
                  [] at[l] = "notFound" -> "not_found"
                  [] OTHER -> "probe_error"
    /\ asking' = NoLookup
    /\ join' = Settled(address, probe', join)
    /\ UNCHANGED <<vars, address, history, waiting, submitting>>

(* Mutant: the answer about an address the tab has left is read, too.      *)
Probed_Late(l) ==
    /\ address.path # Home
    /\ Reads(l)

(* The answer to the lookup the effect waits for: alive is false in those  *)
(* that were cleaned up.  A fetch that fails leaves the page waiting.      *)
Probed(l) ==
    /\ l = asking
    /\ Reads(l)

(* JoinForm.submit, or the effect with a session saved under the slug.     *)
JoinAsGuest ==
    /\ address.path # Home /\ address.host = NoRoom
    /\ probe = "found" /\ join = NoJoin
    /\ join' = [slug |-> address.path, host |-> NoRoom]
    /\ UNCHANGED <<vars, address, history, waiting, submitting, probe, asking>>

EntryNext ==
    \/ Work /\ UNCHANGED pageVars
    \/ \E c \in Creation \ Mine : Create(c) /\ UNCHANGED pageVars
    \/ \E c \in Mine : Submit(c) \/ Created(c)
    \/ \E x \in Slug : Follow(x)
    \/ GoHome
    \/ \E entry \in Entries : Traverse(entry)
    \/ \E l \in Lookup : Probed(l)
    \/ JoinAsGuest

EntrySpec == EntryInit /\ [][EntryNext]_entryVars

(* The Worker ends what it began, and what it answers is read.             *)
EntryLiveSpec ==
    /\ EntrySpec
    /\ \A r \in Request : WF_entryVars(Serve(r) /\ UNCHANGED pageVars)
    /\ \A c \in Mine : WF_entryVars(Created(c))
    /\ \A l \in Lookup : WF_entryVars(Probed(l))

-----------------------------------------------------------------------------
Says == [loading |-> {}, found |-> {"answered"},
         not_found |-> {"notFound"}, probe_error |-> {"limited", "failed"}]

(* What the page says was answered to a lookup of this slug.               *)
SaidOf(x) == \E l \in Lookup : slug[l] = x /\ at[l] \in Says[probe]

(* RoomPage says of the room in its address what was answered for that     *)
(* room, or the answer it waits for is one about that room: what it still  *)
(* says of the room before is replaced by nothing else.  No order in which *)
(* addresses change and answers come in makes it take one room's answer    *)
(* for another's and be done (RoomPage.tsx, alive).                        *)
ProbeOfThisRoom ==
    address.path # Home =>
        \/ SaidOf(address.path)
        \/ asking # NoLookup /\ slug[asking] = address.path

(* "<slug> does not match an active room" (RoomPage.tsx): said of a slug   *)
(* that was not found.  A slug whose lookup is still to be answered, or    *)
(* failed to be fetched, is given the answer of the slug before it.        *)
NotFoundIsOfThisRoom ==
    address.path # Home /\ probe = "not_found" => SaidOf(address.path)

(* The host's credentials are sent to the room that gave them out, which   *)
(* has its row by then, unless two creations were given one slug.  When    *)
(* the life of the slug is over it may lead nowhere, or to its next room.  *)
HostRowGoesHome ==
    join.host # NoRoom =>
        /\ join.host \in created
        /\ Alive(join.host) /\ ~Shared(join.host) => slugs[join.slug] = join.host

(* useRoomClient.ts: "ws URL + join payload are room-scoped and don't      *)
(* change mid-session": the room on the page is the one in the address.    *)
RoomOfThisAddress ==
    (probe = "found" /\ join # NoJoin) => join.slug = address.path

(* "Could not create a room. Try again." (CreatePage.tsx): a form that is  *)
(* being submitted can be used again in the end.                           *)
SubmitEnds == submitting # NoRoom ~> submitting = NoRoom
=============================================================================
