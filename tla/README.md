# Pointe: models and proofs of the estimation room

Pointe is a planning-poker service.  A room is one Cloudflare Durable Object
(`src/apps/worker/src/room.ts`) with an SQLite store; browsers talk to it over
WebSockets; the object's single alarm runs its delayed tasks.  A stateless
worker creates rooms and hands out links to them.  This directory holds TLA+
modules for the room, its intake, its creation and its web client, TLC
instances of them, and TLAPS proofs.

Paths below are relative to `src/apps/worker/src/` unless they say otherwise;
`web/` stands for `src/apps/web/src/`.

## 1. Inventory

| Component | Source | State | Operations | What is hard | What makes it correct |
|---|---|---|---|---|---|
| Host seat and presence | `dispatcher.ts`, `operations.ts`, `room.ts` | `room.state`, `host_voter_id`, `host_vacant_since`; `voter` rows; one attachment per socket | JOIN_ROOM, CLAIM_HOST, TRANSFER_HOST, socket close, host_vacant task | races of return, claim, transfer and timer; several tabs; rows that outlive sockets | one host; a vacancy only of a host who is gone; an absence never forgotten |
| Task scheduler | `scheduler.ts`, `room.ts` | `scheduled_task`, the one alarm | schedule, cancel by type, run due tasks | one alarm for every task | no task is stranded |
| Story queue | `operations.ts`, `dispatcher.ts` | `story` (with its `order_index`), `vote` rows, `room.state` | ADD, EDIT, OPEN, REVEAL, COMMIT, ACCEPT, SKIP, SPLIT, VOTE_CAST | long sequences of legal calls; re-votes; splits that move the tail of the queue | one live round; nothing changes places |
| Async window | same | `room.async_window`, close task, `needs_discussion` | OPEN_ASYNC, async_close task, OPEN_DISCUSSION | window, close task and room state must agree while hosts come and go | the close belongs to the window that is open |
| AI suggestions | `ai.ts`, `dispatcher.ts`, `room.ts` | `ai_suggestion`, `ai_cache`, `ai_rate_limit`, calls in flight | REQUEST_AI, SHARE_AI, completion | a call outlives the state it was made in; who may see what and when | one call per story; an answer stays; no trace before it is shared |
| Projection and snapshots | `broadcast.ts`, `dispatcher.ts` | none | per-recipient deltas, SNAPSHOT_RESPONSE | what a joiner is told and what it must deduce | browsers agree with the server |
| Message intake | `dispatcher.ts`, `room.ts`, `rateLimit.ts` | `processed_message`, `ws_handshake_rate`, the budget in the attachment | handshake, message, close for a violation | retries; a flood; closes the room starts itself | applied once; floods stop; no ghosts |
| Room creation and lookup | `worker.ts`, `slug.ts`, `rateLimit.ts`, `security.ts`; `web/pages/CreatePage.tsx`, `web/pages/RoomPage.tsx`, `web/lib/api.ts` | KV entries; the tab's address, probe and join parameters | POST and GET of a room; submit, follow, go back, join | KV has no transactions; a request may end at any await; the address changes while an answer is under way | a link leads to its room while its slug lives; a page speaks of the room in its address or waits for word of it |
| Client socket | `web/ws/client.ts`, `web/hooks/useRoomClient.ts`, `web/pages/RoomPage.tsx` | connection state, timers, queue, saved session | connect, close, reconnect, keepalive | stale timers and events, a second socket | one line per page; a page on Joining comes to show its room |
| Client store | `web/store/reducer.ts` | the browser's copy of the room | one case per message | tracks the server through messages only; sorts by stale copies | agrees with the server |
| The vote that runs by itself | `web/components/room/RoomShell.tsx`, `VotingStage.tsx`, `HostVacantBanner.tsx` | two refs of an effect | add, open, reveal, close, claim | acts on a list that may be behind | a host who stays gets the room a vote |
| Reveal statistics | `src/packages/shared/src/stats.ts`; `RevealStats`, `ConsensusStamp`, `VarianceBanner` in `web/components/room` | none | median, outliers, low confidence; tags, stamp, banner | half-way medians, cards outside the deck, verdicts worked out twice | the verdicts do not contradict each other |
| The stage | `CastPanel`, `CommitPanel`, `VotingStage`, `ParticipantRoster` in `web/components/room` | the card in the hand, the final pick | select, cast, commit | a panel stays while the story in it is exchanged | a card goes to the round it was picked in |
| Metrics, dev entry, other components | `metrics.ts`, `worker.dev.ts`, the rest of `web/components` | write-only or presentational | | | not modelled |

Clients send commands; the object handles one event at a time, writes SQL,
then broadcasts deltas to the bound sockets.  The web client folds them into a
store.  The room schedules tasks for itself through the alarm.  A call to the
AI provider is the only handler that continues after its event has ended.

## 2. Modules

| Module | Models | Uses |
|---|---|---|
| `RoomTables` | the tables, the clock, the scheduler, `setRoomHost`, `createRoom` | |
| `HostHandlers` | joins, closes, claims, transfers, the vacancy task | `RoomTables` |
| `StoryRows`, `StoryHandlers` | what `operations.ts` writes to stories; the dispatcher's handlers over it, VOTE_CAST, the close task | `RoomTables` |
| `Room` | the next-state relation of a room, its properties, its refinement of `HostAuthority` | the four above |
| `HostAuthority` | what a room promises about its host: a seat, held, vacated, claimed, handed over | |
| `RoomHistory` | `Room` with two history variables | `Room` |
| `RoomAi` | `Room` with suggestions, calls in flight, and who has been sent what | `Room` |
| `RoomClients` | `Room` with the store of every bound browser, message by message | `Room` |
| `Intake` | one socket message or handshake from arrival to being applied, refused or closed | |
| `RoomCreation` | requests to create and to look up rooms, one KV operation at a time | |
| `Entry` | one tab that makes, follows and leaves rooms while it waits for `RoomCreation` | `RoomCreation` |
| `StoryQueue` | what the queue promises: a total order that stories only join | |
| `StoryOrder` | `order_index` and its gaps, on the server; its refinement of `StoryQueue` | `StoryQueue` |
| `StoryLists` | the lists browsers sort by the copies they were sent | `StoryOrder` |
| `RevealStatistics` | `stats.ts` and the panels' own verdicts, as functions of the cards | |
| `Stage` | the panels of one page and what they keep, over the votes of two stories | `RevealStatistics` |
| `WsClient` | one tab, its visits, sockets, timers and saved session | |
| `AutoRound` | the page's effect and buttons against the part of the server they meet | |
| `RoomProofs`, `AroundRoomProofs` | the theorems of section 6 about the room, and about the AI calls and the browsers around it, which rest on them | `Room`; `RoomAi` and `RoomClients` |
| `IntakeProofs`, `StoryOrderProofs`, `StageProofs`, `EntryProofs`, `WsClientProofs`, `AutoRoundProofs` | the other theorems of section 6 | `Intake`; `StoryLists`; `Stage`; `Entry`; `WsClient`; `AutoRound` |
| `MC*` | instances for TLC: model values, symmetry | one each |

A definition ending in `_Something` under the comment "Mutant" is a plausible
bug in the definition it is named after.  No specification uses it; each shows
that a property notices that bug.

### How the state corresponds to the code

* **Rows.**  `RoomTables` has one variable per column the handlers read or
  write.  `role[v] = "none"` and `story[st] = "absent"` say that there is no
  such row.  `boundTo[s]` is the voter in a socket's attachment.
* **Time.**  `now` counts in units in which `Grace` is the 30 s of
  `HOST_VACANT_GRACE_MS` and `Windows` the lengths OPEN_ASYNC may ask for.
  `MaxTime` bounds the clock, and is the only bound on time.
* **One event at a time.**  A Durable Object lets no other event in while it
  waits for its own storage, so a message, a close or a task is one step.  The
  alarm is not: `runDueTasks` awaits a dispatch per task, and is modelled as
  `AlarmFires`, one `DispatchTask` per task and `AlarmDone`, between which
  `draining` keeps the clock and messages out, as the object does.
* **AI calls** are awaited outside any event; `RoomAi` has them as records that
  live across steps.
* **Messages to browsers** arrive in order and are folded in at once in
  `RoomClients`; what a line that breaks or lags does to a page is the subject
  of `WsClient` and `AutoRound`, where they wait in queues.
* **Votes** of a story, in `Room`, are the class that `computeRevealStats` puts them in:
  none, agreed, or disputed (`Ballot`).  `RoomClients` adds who has voted, and
  `Stage` has the cards themselves, as positions in the deck.
* **The tab's address.**  `address` in `Entry` is the history entry on the
  screen: its path and, for the host, the credentials CreatePage put into
  `location.state`.  CreatePage and RoomPage replace each other; from one room's
  address to another's the same RoomPage stays, as React Router keeps it.
* **Panels.**  `hand` and `pick` in `Stage` are the states of `CastPanel` and
  `CommitPanel`; each records also the story (and round) its card was picked
  for.  `Settle`, a part of every step, is what their initial states and effects
  do after a render.
* **A snapshot's history** is a set of the newest `HistoryLimit` revealed
  stories; which ones is left open, since reveal times are not kept.
* **KV** is taken as one consistent store, the most it can promise; each get
  and put is a step of its own, and a request may end before any of them.  A slug
  lives for `SlugLife` hours, the 30 days of its `expirationTtl` (`slug.ts:64`);
  `HourTurns` drops the entries whose hours are over, and `written` is the hour
  of a room's put.  The counters' entries outlive their hour and are not dropped.
* **What browsers were told.**  `told` in `StoryLists` records, for each story in
  a browser's list, how many moves there had been when the browser was last told
  its index, and `unsorted` the stories whose index an edit has exchanged since
  the list was last sorted.  Both are histories and guard nothing.

### What is abstracted

Texts, names, decks, estimates and votes are model values or left out.  A
resume token is held by the owner of its row only, so that only an owner
resumes.  The AI key is assumed set.  `Room` leaves the order of the stories out,
which no guard reads; it is the subject of `StoryOrder`.  `edited`, audit events
and metrics are read by nothing and are left out.

## 3. Runs

Each run is `tlc -config <Name>.cfg <MC module>`.

| Run | Module | Instance | Shows |
|---|---|---|---|
| `ClientsSync` | `MCRoomClients` | 2 voters, 2 sockets, 1 story, grace 1 | the seat, presence, the alarm and the refinement; browsers agree on roster and round |
| `ClientsQueue` | `MCRoomClients` | 2 voters, 1 socket, 3 stories | lists agree through splits and re-votes |
| `ClientsAsync` | `MCRoomClients` | 2 voters, 1 socket, 2 stories, async | one re-vote at a time, the close task's owner, the room's state and window |
| `AsyncLiveness` | `MCRoom` | 2 voters, 1 socket, 1 story, grace 2, window 3, clock to 4, async | types; due tasks settle; an absent host is replaceable or returns |
| `AiCalls` | `MCRoomAi` | 2 voters, 2 sockets, 1 story, 2 texts, budget 2 | one call, the answer kept, no trace before it is shared |
| `StoryOrder` | `MCStoryLists` | 5 stories, distance 3, splits into 2 or 3, 1 browser | the indices are a queue; what a list was told of together, or has current copies of, stands as on the server |
| `Stage` | `MCStage` | 3 voters, 2 stories (2 rounds and 1), cards of 4 and one outside | the hand is of this round; everyone in; verdicts agree |
| `WsTab` | `MCWsClient` | 1 tab, 2 visits, 2 failures, 1 command | one line, honest status, attribution, identity; a page comes to show its room |
| `Intake` | `MCIntake` | 2 people, 2 sockets, 1 address, 2 messages, limits of 2 | applied once, floods, ghosts, the handshake count |
| `Entry` | `MCEntry` | 2 creations (1 of this tab), 2 lookups, 2 slugs that live 1 hour, 1 attempt, limits of 1, 2 hours | links work while their slugs live, no early refusal; the page speaks of its room or waits for word of it; the host's row goes home |
| `AutoRound` | `MCAutoRound` | 2 people, 3 visits, 2 lines each | pages agree, cards cleared by hand only, a vote runs |
| `StuckHost` | `MCAutoRound` | 2 people, 2 visits | a violation, section 7 |

### Why the bounds are enough to be of interest

* Two voters are a host and a claimer; two sockets let a voter have two tabs or
  two voters be there together.  A grace of 1 lets a vacancy task fall due
  beside a return and a new departure; a grace of 2 with a clock to 4
  (`AsyncLiveness`, `HostSync.cfg`) lets two vacancy tasks fall due at different
  times, and a third voter (`HostSync.cfg`) is a rival in a claim.  The proofs
  of section 6 have none of these bounds.
* Five stories in `StoryOrder` are a parent, the story behind it and three
  children.  A distance of 3 is used up by one split, so that the next has to
  move the tail, which the 100 of the code would reach only after several.
* In `Stage` each voter can cast one or two cards, chosen so that the three can
  be unanimous, near, far apart, or outside the deck; story `a` is voted on
  twice, and `b` can be shown before it or after it.
* In `Entry` a limit of 1 makes the second request of an hour a
  refusal, and a slug that lives for one hour of two expires and is given out
  again.  Two slugs are the least in which a draw can collide or not, and two
  lookups the least in which an answer about one address can arrive at another.
  A creation draws once: that retries do links no harm is checked with
  `Creations.cfg`, and proved for any number of them.
* Three stories let a split have two children, and a re-vote start while a
  child waits.  Two stories and one window unit let a window close with one
  story agreed and one to discuss, and a second window open after it.
* Two texts and a budget of two are the least in which an edited text misses
  the cache and the budget runs out; the hour may turn at any time.
* In `WsTab` two visits and two failures reach a page that was left while its
  last socket is still closing, and a reconnect that fails again.
* In `AutoRound` three visits are two people and one return, which a claim, a
  return of the old host and a round added twice need.  A line holds at most
  one message up and two down; every order of the pages and of old and new
  lines remains.
* In `Intake` a clock of 4 ticks spans two minutes of 2 ticks and a memory of 3,
  so that windows, minutes and memories end at different moments.
* Symmetry is used only in runs without fairness (`Clients*`, `AiCalls`,
  `Intake`, `Entry`, `StoryOrder`): voters, sockets, stories, people, addresses,
  slugs, lookups and texts, with the creator of the room left out.

### Deadlock

`CHECK_DEADLOCK FALSE` is set where the modelled world may end: every request
answered and the tab at rest (`Entry`, `Creations`), the clock at its bound
(`Intake`), no visits left (`WsTab`, `AutoRound`, `StuckHost`), every story finished (`StoryOrder`,
`Stage`).

### Other configurations

`HostSync.cfg` (`MCRoom`) is the larger instance of the seat: three voters, two
sockets, a grace of 2 and `HostHandedOver`.  `Creations.cfg`
(`MCRoomCreation`) is an instance of the Worker alone, whose creations draw
twice: `LinkWorks`, `NoDeadLink` and `NoEarlyRefusal` hold, the state is well
typed, and every request ends.  On the instances of runs these hold, too, and can be put in the
place of the runs' properties: `RoomAgrees` of `ClientsSync`, where the room is a
live one, `StoriesAgree` and `ClientsTypeOK` of
`ClientsAsync`, `AiTypeOK` of `AiCalls`, `WsTypeOK` of `WsTab`, `IntakeTypeOK`
of `Intake`, `AutoTypeOK` of `AutoRound`.  The remaining
configurations are those of section 7.

## 4. Fairness

* `Room`, `LiveSpec`: the clock moves, and the platform runs an armed alarm at
  or after its time and until its handler has returned (Durable Object alarms
  are retried).  No user is ever assumed to act.  The clock of an instance
  ends, so `HostAbsenceResolved` speaks of absences with a grace left.
* `WsClient`: an open socket delivers its events, a timer that is set fires, the
  server takes what arrives, and a broken connection is noticed by the keepalive,
  which runs from the first snapshot on a socket to its close (`PingLost`).  The
  browser may notice a broken connection at any time (`Noticed`), but need not:
  no timer runs between the JOIN and its answer (`client.ts:175`).  Nothing makes
  a user stay; failures are bounded.
* `RoomCreation`: a request that has come is served until it ends, or dies.  The
  hour turns when it will.
* `AutoRound`: pages run their effects and take their messages, the server takes
  its own, and both sides notice a broken line at some time.  Nobody has to
  click, come or stay; `VoteRuns` is about a host who stays.
* `RoomAi`: only the 20 s timer is fair; nothing makes the provider finish.
* `Entry`, `EntryLiveSpec` (for `SubmitEnds` alone): the Worker ends what it
  began and what it answers is read; a fetch may still fail.

## 5. Properties

The properties are stated in the modules, each with the code it is about.  The
hardest, and the reason they are worth a run:

* `HostAbsenceCovered`: a host who left is covered by a pending vacancy task or
  a declared vacancy, though every join, claim and transfer may cancel or spend
  tasks, the close task of a window may overwrite the room's state, and one
  voter may close one of two tabs.  In an asynchronous room it ends where a
  close has overwritten a declared vacancy (section 7, `VacantSinceCleared`).
* `AlarmCoversTasks`: one alarm stands for every task.
* `ImplementsHostAuthority`: whatever the tables do, the room is a seat that is
  left, vacated, claimed and handed over.
* `OneCallPerStory`, `AnswerKept`, `NoTraceBeforeShare`: a call that outlives the
  state it was made in spoils neither the row nor the secret.
* `RosterAgrees`, `RoundAgrees`, `StoriesAgree`, `RoomAgrees`: browsers that are
  told by deltas agree with the server, though the two are written separately.
  `RoomAgrees` is stated for the open window and for vacancies, and in full for
  synchronous rooms, because of `ReclaimMirrored` and `CloseAnnounced` below;
  `StoriesAgree` of the stories that are listed, because of `LiveVoteShown`.
* `OneLinePerPage`, `CommandsAttributed`, `EventuallyJoins`: stale timers and
  events of sockets that are gone.  `EventuallyJoins` asks for what the page asks
  for (`Shows`: connected and with a room, `RoomPage.tsx:262`) and names the two
  cases in which the code does not give it: the connection breaks between a JOIN
  and its answer (`Deaf`), or the close event of the page before comes after the
  answer (`Overtaken`; `QuietAfterDisconnect` below).
* `AppliedOnce`, `FloodStopped`, `NoGhosts`: retries across sockets, budgets in
  an attachment that a JOIN rewrites, sockets the room closes itself.
* `ImplementsQueue`: a split divides what room there is by the number of its
  children plus one and moves the tail when the quotient would be nothing; an
  index that is off by one puts two stories in one place or a child behind its
  successor.  `ListsInOrder` says how far a browser that is not told of moves can
  be trusted: two stories it was told of with no move in between stand right,
  however many moves came after, and so do two whose copies are current, among
  them a moved story whose new index an edit has brought.  A story to which an
  edit gave another index stands where it stood until the next sort, and pairs
  told before and after a move may stand wrong (`SameOrder` below).
* `HandOfThisRound`: five ways a story can leave the page under a hand that
  stays on it.  `EveryoneInAgrees`: who has voted is pieced together from
  messages, a snapshot and the roster.  `VerdictsAgree`: the worker's statistics
  and four panels judge the same cards each in its own way.
* `ProbeOfThisRoom`, `HostRowGoesHome`: answers that are late for an address the
  tab has left, and credentials that travel in a history entry.  RoomPage does
  not reset its probe when the address changes from one room to another, so that
  the first cannot say that what is on the page is of the room in the address
  (`NotFoundIsOfThisRoom` below); it says that it is, or that the lookup whose
  answer will replace it is under way and is of that room.
* `LinkWorks`, `NoDeadLink`: a slug is written before its room exists, expires,
  and may be given out again.  Two creations that draw one slug between the get
  and the put are left out of both and are the subject of `SlugGivenOnce` below.
  The second also leaves out a lookup whose entry expires between KV's answer and
  the room's (`Lapsed`).
* `ClearedByHand`, `VoteRuns`: an effect that remembers what it tried, on a list
  that may be behind.

## 6. Proofs

`tlapm` on `RoomProofs`, `AroundRoomProofs`, `IntakeProofs`, `StoryOrderProofs`,
`StageProofs`, `EntryProofs`, `WsClientProofs` and `AutoRoundProofs` checks
everything below, for all values of the constants that satisfy the assumptions
in the modules:

* `RoomTables`: the creator is a voter, `NoVoter` is not, the mode is one of
  two, the grace and the windows are positive.  Sets need not be finite.
* `RoomAi`: there is a text, and the hourly limit is a natural.  `RoomClients`:
  so is the limit of a snapshot's history.
* `StoryOrder`: the distance between stories and the least number of children
  are positive.
* `Stage`: the browser's voter is a voter, the queue is a sequence, and cards are
  integers, as positions in the deck are.
* `RoomCreation`, `Entry`: creations and lookups are different requests, the
  limits, the number of retries and the life of a slug are positive, the null values are no slugs,
  rooms or lookups, and the home page is no room.
* `Intake`: the limits, the minute and the memory are positive, and the two
  kinds of messages are disjoint.
* `WsClient`: visits and failures are naturals and no command is a JOIN.
* `AutoRound`: the creator is a voter, `NoVoter` is not, a line holds a message,
  and there are three visits at most, by any number of voters: a snapshot has
  the last three revealed rounds (`REVEALED_HISTORY_LIMIT`), and the model has
  one for each visit.

| Theorem | Property | Inductive invariant |
|---|---|---|
| `TypeCorrect` | `TypeOK` | `TypeInv`: also, a vacancy task is due no earlier than a grace after the epoch, without which `t.at - Grace` would be no time |
| `OneHostAlways`, `VacancyIsReal`, `PresenceIsBacked`, `HostAlwaysHandedOver` | `ExactlyOneHost`, `VacantMeansHostGone`, `PresenceBacked`, `HostHandedOver` | `SeatInv` |
| `AlarmAlwaysCovers` | `AlarmCoversTasks` | with `TypeInv` |
| `OneRoundAlways`, `CloseTaskAlwaysOwnsWindow` | `OneLiveRound`, `CloseTaskOwnsWindow` | `RoundInv` |
| `HostAbsenceAlwaysCovered` | `HostAbsenceCovered` | `CoverInv` |
| `SyncRoomImplementsHostAuthority` | `ImplementsHostAuthority` | `CoverInv`, in synchronous rooms |
| `AiKeepsRoom`, `ClientsKeepRoom` | `Spec` of `Room` | none: every step is one of the room or leaves it alone |
| `AiTypeCorrect`, `OneCallAlways` | `AiTypeOK`, `OneCallPerStory` | `AiInv`, the two together |
| `AnswerAlwaysKept` | `AnswerKept` | with `AiInv` |
| `NoTraceEverBeforeShare` | `NoTraceBeforeShare` | with `AiInv` and `TypeInv` |
| `ClientsTypeCorrect`, `RosterAlwaysAgrees`, `StoriesAlwaysAgree`, `RoundAlwaysAgrees`, `RoomAlwaysAgrees` | `ClientsTypeOK`, `RosterAgrees`, `StoriesAgree`, `RoundAgrees`, `RoomAgrees` | `ClientsInv`, over `CoverInv` |
| `IntakeTypeCorrect` | `IntakeTypeOK` | itself |
| `HandshakesAlwaysExact` | `HandshakesExact` | `RowCounts` |
| `CommandsAppliedOnce` | `AppliedOnce` | `ReplayInv` |
| `NeverAGhost` | `NoGhosts` | itself, over types |
| `FloodsAlwaysStopped` | `FloodStopped` | `FloodInv` |
| `OrderImplementsQueue` | `ImplementsQueue` | `OrderOK`: indices are naturals and no two stories share one |
| `ListsAlwaysInOrder` | `ListsInOrder` | `ListsInv`, over `OrderOK` |
| `HandAlwaysOfThisRound` | `HandOfThisRound` | `HandInv` |
| `EveryoneInAlwaysAgrees` | `EveryoneInAgrees` | `SeatInv` of `StageProofs` |
| `VerdictsAlwaysAgree` | `VerdictsAgree` | `CardsInv` |
| `CreationTypeCorrect` | `CreationTypeOK` | with `HasSlug` and `LookupSteps` |
| `NeverRefusedEarly` | `NoEarlyRefusal` | `CountsAreLow` |
| `LinkAlwaysWorks`, `NeverADeadLink` | `LinkWorks`, `NoDeadLink` | `SlugInv` |
| `ProbeAlwaysOfThisRoom`, `HostRowAlwaysGoesHome` | `ProbeOfThisRoom`, `HostRowGoesHome` | `PageInv`, over `SlugInv` |
| `OneLineAlways` | `OneLinePerPage` | `LineInv`, over `Wires` |
| `ConnectedAlwaysHonest`, `CommandsAlwaysAttributed`, `IdentityAlwaysKept` | `ConnectedIsHonest`, `CommandsAttributed`, `IdentityKept` | `TabInv` |
| `AutoTypeCorrect`, `RoundAlwaysLeft` | `AutoTypeOK` | `Base`: types, lines, counts |
| `SettledPagesAlwaysAgree`, `AlwaysClearedByHand` | `SettledPagesAgree`, `ClearedByHand` | `Safe`, over `Base` |

Along which argument:

* `SeatInv`.  "One host" needs that a row with a role exists for every bound
  socket (`RowsExist`), or a claim could seat somebody without a row.  "A vacant
  room's host is gone" and "a connected row is backed by a socket" need each
  other and `NoTaskForGhost`: the one row that may say connected without a
  socket is the creator's before the first visit, and no vacancy task can name
  that voter, for a task is made by a close.  A transfer trusts a row;
  `TransferTargetIsLive` turns it into a socket.
* `AlarmCoversTasks` rests on `EarliestOfBounds`, that the minimum of the times
  is a lower bound, which follows from the well-foundedness of the naturals.
* `RoundInv`.  A close task names no voter and is at the time of the window, so
  there is only one; the task that fires was it, and after it no window is open
  and no story of it is active.
* `CoverInv` adds that a synchronous room has vacancy tasks only, so that a
  vacancy is never overwritten there.
* `AiInv`.  `AiStepIsRoomStep` shows that each event with AI is an event of the
  room or leaves it alone.  One call per story and the types need each other:
  an answer may be written only because the call it comes from finds its row
  pending, and only an answer may be shared because a row that is pending has
  been unshared.  That an answer stays follows: the two ways to write a row are
  a request, which finds none or a failure, and a call's end, which finds it
  pending.
* `NoTraceBeforeShare` asks of each of the four ways a browser hears of a
  suggestion (a snapshot, a reveal, a message to the host, sharing) whose eyes
  `Projected` lets it reach, in the state after the step.
* `ClientsInv`.  The agreement of one kind rests on the others and on three facts
  that no property names.  `FreshStories`: a story that is absent or pending
  carries no discuss flag and no vote row, and no browser keeps cards or an own
  vote of it; without it a browser could list a story, when it is added or
  opened in a window, with what an earlier one left behind.  `SyncUnflagged`: the
  flag is only set by the close of a window, so that a delta that says nothing of
  it is right in synchronous rooms.  `CoverInv` of `RoomProofs`: a synchronous
  room's tasks are all vacancies.  There is a lemma per event (`JoinEventShown` to
  `TaskEventShown`), which looks at one watcher and one story at a time
  (`WatcherShows`, `WatcherStories`, `StoryByStory`); the reducers are known to it
  only by what they change (`ReclaimedFields` and those that follow) and what
  they leave alone (`SameRoster`, `SameStories`, `SameRoom`).
* `RowCounts` says what a row of the handshake table stands for: the row of the
  running minute is the exact count, an older one stands for nothing yet.
* `ReplayInv` relates the table of processed ids to what was applied and when:
  what was applied within the memory is in the table, with its last time or a
  later one: ACCEPT_AGREED records its id also when it finds no story to commit
  (`dispatcher.ts:515`), so that a row in the table does not say that the room
  was changed.
  `PruningIsSafe` shows that dropping old rows keeps this.
* `FloodInv`.  That no minute has twice the limit in it is not inductive: a new
  window may start in the middle of one.  `WindowTells` says what a budget knows:
  its count covers every message since its window began, nothing was handed on
  after the window's minute, and what lies before the window within a minute of
  it is *less* than the limit, because the window before began with a message
  that lies before that.  Hence a minute across the start of a window has at most
  one less than the limit before it and the limit after it (`CalmByWindow`); the
  bound of twice the limit is met exactly, less one.  Messages are counted as a
  set of pairs, each its time and its number, so that one more message is one
  more element (`GivenOneMore`) and no induction over a sum is needed.

* `OrderImplementsQueue`.  Both cases of a split come down to the same three
  facts (`PlacedAtTheEnd`, `PlacedInTheMiddle`): what was there keeps its order,
  the children lie between the parent and what was behind it, and they lie in the
  order of their ranks.  The arithmetic is in four lemmas on shares of a
  distance; `SplitIsSplice` turns the facts into the pairs of the abstract queue.
* `ListsInv`.  A list has each story once (`Lists`); what it was told since the
  last move is current (`Fresh`); and two stories it was told of since one and
  the same move are in the order of their copies, stale as these may be (`Alike`),
  because a split leaves the order of what was there as it was
  (`SplitKeepsOrder`).  The copies ascend along the list, but for what an edit
  has exchanged since the last sort (`Ascends`, `ExtendedIsSorted`,
  `EditListed`).  Hence two such stories, or two whose copies are current, stand as
  on the server, where no two share an index (`OrderOK`).  A sort
  is `InRow`: each element stands behind as many as are before it.  That every
  place is taken (`InRowSorts`) is the pigeonhole: no two elements of a total
  order have the same number before them.  A split has finitely many children, for
  they have different ranks, so the rows of a message are finitely many.
* `HandInv` drops from `HandOfThisRound` what the hand holds: the hand belongs to
  the story and round in focus whenever the panel is on the page
  (`HandSettles`).  The focus is the first shown story of a sequence, which exists
  by the well-foundedness of the naturals (`FocusIsShown`).
* `SeatInv` of `StageProofs`: the browser knows of no card that is not down
  (`KnownAreDown`), and of every card in a round it saw from its start
  (`DownAreKnown`); a window opens stories that nobody has voted on
  (`PendingIsBlank`), which is why it need not clear anything.
* `VerdictsOfCards` is about any finite set of cards.  The k-th smallest exists:
  it is the least position up to which there are k cards, by the well-foundedness
  of the naturals (`RankedFound`).  The median therefore lies between two of the
  cards, and at most half of the cards lie on either side of it
  (`MedianInTheMiddle`), from which the verdicts follow.  `CardsInv` says that the
  cards of a story stay what this asks for: finitely many, integers, with a
  largest (`Counted`).

* `SlugInv` of `EntryProofs`.  Whoever a slug leads to still holds it or is dead
  (`Writers`), so that a retry never wipes out the memory of a rival that matters;
  a slug a creation found free and has not written yet can only have been taken
  by rivals it will know (`Contested`); hence a creation whose slug lives
  (`Lives`) is where the slug leads, or has a rival and the last one is known, and
  the one the slug leads to wrote last, so that its entry outlives the others
  (`Held`); and a lookup on its way to a room, before its entry lapses, was led to
  the one whose link it has (`Followed`).
* `PageInv`: the credentials in every entry of the history came with the slug in
  its path, and the lookup the page waits for, if there is one, is of the slug
  in the address, and otherwise what the page says was answered to one of it.  `EntryStep` shows that each step of the tab is a step of the
  Worker or leaves it alone, so that what is proved of the Worker holds with it.
* `LineInv` of `WsClientProofs`: sockets have one owner each (`Owners`), only the
  page that was left has been disconnected (`Leavings`), and there is a number
  left for every next socket: a page that lost one owes an attempt, and the
  failure that cost it was counted (`LinksSuffice`).
* `TabInv` adds what is on the wires.  A socket carries one JOIN, first, and
  commands for the one row it binds (`Wires`); the JOIN of the page's own socket
  is for the row the page knows (`Belongs`).  Hence the row a snapshot brings is
  the one that was known, if one was (`SnapshotRow`), from which the tab's row
  never changes and what was queued stays the same person's (`Queued`).
* `Base` of `AutoRoundProofs` counts: a page that may still add a round, or whose
  ADD_STORY is on its way, owes one, and what is owed and what is queued are no
  more than the visits (`AddsInv`).  A line the server has not bound carries a
  JOIN at most (`LinesInv`).
* `Safe`.  That a settled page agrees is not inductive: what is on its line has
  to make it so.  `Told` says that the messages on a line lead the page's store
  to one that agrees with the server.  Between the two, every store it passes
  through has to be `Fair`, for the page may act on each of them: it shows a round
  as voted on only if it was, and shows its voter as the host only if that is
  so, and then a round it shows as pending, and has not asked for, is pending
  and has not been asked for.  Hence what an effect asks for is pending, on a
  line of the host and the only request for its round until it is served
  (`OpensInv`), also when the page is gone by then; the seat moves only when
  nobody is bound to it (`SeatInv`), so no request outlives its host.  The
  stores of a page are a function on the places of its line (`Leads`), and four
  lemmas say what a message more or less does to it.  TLC had checked `Base` and
  `Safe` as invariants of `AutoRound`, the stores computed along the line.

Left to TLC: all liveness (`DueTasksSettle`, `HostAbsenceResolved`,
`EventuallyJoins`, `VoteRuns`, `EveryRequestEnds`), which needs fairness.

## 7. Where the code and what is said of it differ

Checked by the run that expects a violation:

* **StuckHost** (`HostGetsVote`).  A page whose snapshot was taken while a round
  was pending does not list that round.  If the page is, or becomes, the host's,
  it adds a round of its own; when the first is running by then, opening the
  second is refused (ANOTHER_STORY_ACTIVE), `openedIds` keeps the effect from
  trying again, and the page shows "Opening the vote…" until it is reloaded.
  `web/components/room/RoomShell.tsx:110`: "Your card hand will appear
  automatically. There is nothing else to set up."

Further divergences.  Each has a property, a statement of a comment, a document
or a test, that TLC refutes on the instance named.  Where that is the instance of
a run, the property takes the place of the run's own in its configuration; the
others have a configuration of that name.

| Property (module, configuration) | The code | What is said |
|---|---|---|
| `OpenWindowWillClose` (`Room`, `StuckWindow`) | a room can be in review with a second window open (opened while a story of the first was still to be discussed, its own stories revealed and committed by hand); `closeAsyncWindow` then returns early (`operations.ts:516`), its task is spent, the window stays and OPEN_ASYNC is refused from then on | `operations.ts:535` "Drop async_window alongside the state flip. The window is over" |
| `SameOrder` (`StoryLists`, `StoryOrder`) | a split that finds no room moves the tail of the queue (`operations.ts:746`) and names only its children; browsers sort by the copies they have, and an edit that brings a story's new index does not sort (`reducer.ts:245`) | `reducer.ts`, `story_split`: sorted "so children appear in the parent's slot" |
| `PreselectsMedian` (`Stage`, `Stage`) | `picked` of `CommitPanel.tsx` is set when the panel appears and is not keyed by the story: when a second revealed story takes the place of the one just committed, it is offered the first one's pick | `CommitPanel.tsx:14` "Commit pre-selects `stats.median` so the common case is one click" |
| `StampIsUnanimous` (`Stage`, `Stage`) | the stamp compares the number of cards with the seats taken now: a voter who left a card and a newcomer without one balance | `src/DESIGN_SPEC.md:309` "when all non-observer participants share the exact same value" |
| `RoomOfThisAddress` (`Entry`, `Entry`) | a page that has joined stays with its client when the address changes to another room's (a creation answered late, or back and forward) | `web/hooks/useRoomClient.ts:54` "ws URL + join payload are room-scoped and don't change mid-session" |
| `NotFoundIsOfThisRoom` (`Entry`, `Entry`) | the effect that looks a slug up does not reset `probe` (`RoomPage.tsx:31-41`): when the address changes from one room to another, the page goes on saying of the new one what was said of the old until the new lookup is answered, and for good if its fetch rejects; a found one is joined on that word | `RoomPage.tsx:140` "does not match an active room" |
| `SubmitEnds` (`Entry`, `StuckSubmit`) | a fetch that rejects is not caught (`CreatePage.tsx:61`), and the form stays submitting; a lookup that rejects leaves "Opening…" | `CreatePage.tsx:64` "Could not create a room. Try again." |
| `VacantSinceCleared` (`Room`, `AsyncLiveness`) | `operations.ts:533` overwrites `host_vacant` with `review` and leaves `host_vacant_since`; the seat of the absent host can then not be claimed | `src/packages/shared/src/types.ts:61` "Set when the host disconnects; cleared on reclaim."; `web/components/room/HostVacantBanner.tsx:28` "Anyone can take over." |
| `FlagOnlyWhenRevealed` (`Room`, `AsyncLiveness`) | `operations.ts:588` reopens a story for a live vote with its discuss flag | `types.ts:97` the flag is absent "on unrevealed stories" |
| `LiveMeansConnected` (`Room`, `ClientsSync`) | `room.ts:519` marks a voter left on the close of any one of their sockets | `src/spec/security.md:79` "a JOINed socket has `connection_state='connected'`" |
| `ReviewResumed` (`RoomHistory`, `RoomHistory`) | `operations.ts:252` derives the state from the stories; a review in which every story was agreed comes back as active | `operations.ts:231` "a host who left during `review` should return to `review`" |
| `GraceHonoured` (`RoomHistory`, `RoomHistory`, the second to be refuted) | a vacancy task that outlived the host's return in lobby or review (`dispatcher.ts:687`) fires within the grace of the next departure | `room.ts:29` "Grace window between host-disconnect and the host_vacant transition." |
| `AnswerRechecked` (`RoomAi`, `AiCalls`) | `room.ts:283` writes an answer whatever became of the story | `dispatcher.ts:907` "Re-read SQL on settle" |
| `RevealCarriesUnshared` (`RoomAi`, `AiCalls`) | a story reopened and revealed again carries its shared suggestion | `broadcast.ts:73` "`shared` is always false here" |
| `CallSettles` (`RoomAi`, `AiStalled`) | `ai.ts:419` clears the timer when the headers are there, so a stalled body is not capped | `ai.ts:291` "Wall-clock cap for the Anthropic call." |
| `ReclaimMirrored` (`RoomClients`, `ReclaimedView`) | `web/store/reducer.ts:163` makes the room active when the server returned to review | `reducer.ts:124` "Mirrors the worker's setRoomHost" |
| `CloseAnnounced` (`RoomClients`, `SilentClose`) | a close that reveals no story changes state and window and broadcasts nothing (`room.ts:414`) | the comment there, "already closed; idempotent no-op" |
| `LiveVoteShown` (`RoomClients`, `ClientsSync`) | snapshots leave pending stories out, and the delta that opens one names only its id | `RoomShell.tsx:110`, as above |
| `DiscussionShown` (`RoomClients`, `ClientsAsync`) | a review with more stories than `REVEALED_HISTORY_LIMIT` reaches a joiner incomplete (`dispatcher.ts:1045`) | `reducer.ts:42` "full state on JOIN / reconnect" |
| `OneRowPerTab` (`WsClient`, `WsTab`) | a first JOIN whose answer is lost is repeated without a row | `web/ws/client.ts:64` "the server rebinds the same voter" |
| `QuietAfterDisconnect` (`WsClient`, `WsTab`) | the close event of a page that was left writes to the store of the next (`client.ts:208`) | `client.ts:112` "no further state changes" |
| `SeatMovedOnce` (`Intake`, `Intake`) | CLAIM_HOST and TRANSFER_HOST record their id and never look it up (`dispatcher.ts:717`, `759`) | `dispatcher.ts:88` "to dedupe future replays" |
| `SlugGivenOnce` (`RoomCreation`, `Creations`) | two creations may both read a slug as free; the confirming get of the first may come before the put of the second (`slug.ts:62-66`) | `src/apps/worker/test/raceConditions.workers.test.ts:11` "Slug collision on creation → retry ≤5" |

Two behaviours that the code states and the models reach: the KV limiter lets a
racing burst through (`rateLimit.ts:30`), and the snapshot of a joiner shows
fewer stories than the room has.

Seen while reading and not in a model: `SplitForm` and its open state are not
keyed by the story either; the "Asking…" of `HostAiSection` is not cleared by an
ERROR; VOTE_CAST names a story and no round, so that a card sent before a re-vote
and received after it counts in the new round.

## 8. What is not modelled

* `metrics.ts` is write-only, `worker.dev.ts` is for development, the migrations
  of `schema.ts` are straight-line DDL, `src/scripts` drives a deployed service.
* The origin and header checks and the upgrade route of `worker.ts` keep no
  state: a refused handshake is a socket that fails, which `WsClient` has.
* The panels for suggestions, splits, results and sharing, animation, and what
  only shows the store.  The average estimate and its wording.
* In `Stage` the host's page is the only one with panels, and voters are not
  spectators; the store is the server's state at the last message, so that what a
  late message does to a hand is left to `AutoRound`.
* In `StoryLists` the browsers' history is any of the newest size, and only
  synchronous rooms open votes.
* A slug's life is counted in whole hours, and ends as the hour turns in which the
  code's 30 days are over: up to an hour early.  The link theorems speak of the
  hours before that.
* The lookup of a slug by the upgrade route (`worker.ts:181`).  A page that has
  no socket when its slug has expired is refused every handshake from then on;
  `WsClient` bounds the refusals, and `EventuallyJoins` is about pages that are let
  in again at some time.
* The back-off's length, a session storage that fails, and
  INVALID_RESUME_TOKEN, which a tab that resumes its own row does not meet.

## 9. Plan

Done, in this order: the room and its seat (`RoomTables` to `Room`), its
abstract specification and proofs, the story queue and the window, AI calls,
browsers' stores, the tab's socket, the intake and its proofs, creation, the
vote that runs by itself, the order of stories with its abstract queue and
proof, the reveal statistics and the stage with its proofs, the tab's way into a
room and the proofs of creation, the proofs of the tab's socket, and those of AI
calls, of the browsers' stores, of the vote that runs by itself, of the verdicts,
of the socket's budget and of the browsers' lists.

Next:

1. An abstract specification of a room as its voters see it (who is host, which
   round is open, whose cards lie open), implemented by `Room`.
2. The upgrade route and the object's `fetch` composed with `WsClient`, so that
   a refused handshake has its cause in the model.
3. `Stage` with two pages and messages that are late.
