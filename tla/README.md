# A verification of the live events of rsn-pod-engine

RSN Pod Engine runs speed-networking events: people join an event, are paired
into short video conversations round after round, rate each other, and keep in
touch afterwards. This directory models the parts of the server in which
something is decided over several steps, checks them with TLC on small
instances, and proves what matters most of them with TLAPS for all sizes.

## 1. The system

### Parts

Paths are under `server/src/services/` unless they start with another directory.

| part | state it keeps | operations | modelled |
|---|---|---|---|
| event lifecycle, `orchestration/handlers/round-lifecycle.ts`, `state/session-fsm.ts` | `ActiveSession.status`, `currentRound`, `config.numberOfRounds` | start and end a round, close the rating window, complete, empty-round end, no-shows, recovery | yes |
| segment timers, `handlers/timer-manager.ts` | `timer`, `timerEndsAt` | start, clear, choose the callback for a status | yes |
| guard, locks and persisted state, `state/session-state.ts` | the `activeSessions` map, two maps of promises, Redis and `active_state` copies | `withSessionGuard`, `withMatchGenerationLock`, persist, restore | partly |
| match preview, `handlers/matching-flow.ts` | `pendingRoundNumber`, the `matches` rows of rounds to come | Match People, confirm, swap, exclude, re-match, cancel, replan | partly |
| matching service and engine, `matching/` | `matches` rows | plan an event, generate a round, repair later rounds | partly |
| host actions, `handlers/host-actions.ts` | pause, `endRequested`, kicks | start, pause, resume, extend, force-close, end, kick; the REST twins | partly |
| participant flow, `handlers/participant-flow.ts` | `presenceMap`, `disconnectTimeouts`, the repair throttle | join, leave, drop, heartbeat, grace, stale sweep, early close | partly |
| participant state machine, `state/participant-state-machine.ts` | `participantStates`, `session_participants`, unsaved removals | the chokepoint of every move, the reconciler | yes |
| session service, event access, requests, invites, `session/`, `invite/`, sign-up in `identity/` | `sessions`, `session_participants`, `invites`, `event_join_requests` | status, register, accept, withdraw, ask, approve, decline | partly |
| the send after an event, `post-event-message/` | jobs and a row per person, the worker's Redis key | request, pick, drain, finish, recover | partly |
| meetings and calls, `meetings/`, `dm/meeting-*` | availability, the conversation, `meetings`, `call_requests` | book, move, cancel, remind, enter the room, ring, answer | partly |
| the rest | rows, scores and screens | | no, see section 7 |

### How they interact, and what is hard

Node runs one callback at a time, so the unit of interleaving is the code
between two `await`s. Three things arrange the awaits of an event:

* `withSessionGuard` is a lock of promises per event. Most host and
  participant handlers run under it, and so do the timer callbacks.
* `withMatchGenerationLock` is a second one, taken by Match People, Re-match,
  the repair of the plan and (outside the guard) by Confirm.
* Everything else runs beside both: REST pause, resume and end, the reapers, the
  reconciler, socket closes and heartbeats, invite accepts, swap and exclude, and
  the reopening of the closing lobby by Another Round.

The same facts are kept in several places: a participant is in memory, in a
row, in the canonical document and in the persisted copy; a meeting is in its
row and in the conversation; the pairs are in the plan and in the preview. A
handler reads, awaits and writes, so what it read can be stale. A timer fires
while the handler that makes it pointless waits. A statement fails half way,
a server stops between two commits, another one carries on.
`PROJECT.json` lists each hazard at its line with the properties about it.

### What makes each part correct

* lifecycle: rounds in order, each end of the round it was asked for, each phase
  ended by its own timer, one recap, no way back from completed;
* locks: exclusion, and everyone who waits gets in; every arrival is planned for;
* pairs: nobody in two rooms, no repeat that could be avoided, a re-match that
  differs, excluded pairs apart;
* people: a removal stands and is carried through, memory and row agree in the
  end, a grace ends only the conversation of someone gone, and a partner is
  never left waiting;
* doors: nobody gets in by an invite that is used up, except those who asked at once
  with its last use; no decision overwritten, a yes means in;
* sends and meetings: nobody written or reminded twice, nobody forgotten, one
  meeting per call, calls unlocked by meetings only.

## 2. The modules

| module | what it models |
|---|---|
| `EventState` | constants, the eight variables of the lifecycle, their types, and the helpers its handlers share |
| `RoundLifecycle` | the handlers that hold the guard from Go Live to the recap, the timers, the REST completion, the skip check, the no-show detection |
| `MatchPreview` | the holder of the generation lock, and Cancel, Swap and Exclude, which hold nothing |
| `ProcessFailures` | a throwing await, the delayed Redis copy, the three kinds of restart, the recovery at a join |
| `EventLifecycle` | the abstract event: phase, rounds played, rounds planned |
| `LiveEvent` | the composition of the five above, fairness, properties, and the refinement to `EventLifecycle` |
| `SessionLocks` | the two promise locks as they run, microtask by microtask, and the throttled repair behind one of them |
| `MatchingEngine` | the engine and the ladder around it, as operators: the set of rounds a call may return; the search, the greedy choice and the exchanges are recursive functions |
| `MatchPlan` | the plan, the preview, Re-match, edits and the unlocked replanning after each, the repair after a join or a leave and the rounds played, over those operators |
| `ParticipantRecord` | the legal moves, their projections to the row and the document; shared by the next two |
| `Removal` | one person through kicks, invites, joins, failures, restarts and the reconciler |
| `Presence` | the people of one conversation: sockets, presence, graces, sweeps, the end of the round |
| `Admission` | the five ways into an event that asks for approval |
| `Broadcast` | the send to everyone after an event and the workers that drain it |
| `Meetings` | the meetings of a pair, their reminders, the door of the room, and calls |
| `MCLiveEvent`, `MCMatching`, `MCServices` | what TLC checks: symmetry, parameter values, and the instances below that explore one component per behaviour |
| `LiveEventProofs`, `RemovalProofs`, `PresenceProofs`, `SessionLocksProofs`, `AdmissionProofs`, `BroadcastProofs`, `MeetingsProofs`, `MatchingProofs` | the proofs |

Where two modules describe one handler, each keeps what its questions need. Leave
is the end of a conversation in `RoundLifecycle`, presence and the grace in
`Presence`, a status write that can fail in `Removal`, and a change of the roster
in `SessionLocks`. `SessionLocks` justifies what the others assume of
the guard (`task`, `waiting`, `job`) and of the generation lock (single steps in
`MatchPlan`): exclusion and service are checked and proved there once.

### State and code: the lifecycle

| variable | code |
|---|---|
| `mem` | the `ActiveSession`. `live`: it is in `activeSessions`. `timer` names the callback of the armed timeout (`cleared`: a cancelled handle that was not set to null; `grace`: the 3 s early close), `timerRound` the round it was armed for (0: read when it fires). `leftover`: `pausedTimeRemaining > 0` |
| `db` | `sessions.status`, `current_round`, `config.numberOfRounds`, and how many recap mailings went out |
| `rows` | `matches`, as a status per slot of a round. Who is in a pair does not matter to the lifecycle. A slot whose row is deleted or cancelled may hold a new row |
| `saved` | `sessions.active_state` and the Redis entry |
| `task` | who holds the guard, and before which await it stands (`pc`) |
| `waiting` | the guard's queue |
| `side` | the tasks beside the guard: a REST completion, the holder of the generation lock, a skip check, a no-show detection |
| `budget` | failures and restarts spent |

An action is what a handler does between two awaits that matter, named after the
handler or the step of it (`transitionToRound` is `LoadRound`, `CreateRooms`,
`Activate`, `Flip`, `StatusRead`, `StatusWrite`, `RoundSave`, `RoundArm`).
Awaits with nothing shared before and after are merged: name lookups, broadcasts
and LiveKit evictions, and the two steps of a Re-match (delete, then generate).
`updateSessionStatus` is a procedure, because the gap between its read and its
write matters. It may throw anywhere (`Throw`). What the model says of time is
only that an armed timer may fire; 0 ms left is the one instant it tells apart
(`pauseAtExpiry`). Host checks, eligibility counts and generated pairs are
nondeterministic here. Formats other than `rounds` and the status `cancelled` of
an event, which no handler of the orchestration writes, are left out.

### State and code: the other modules

* `SessionLocks`: `holder` is what each map of promises holds, `waiters` who
  awaits it, `ready` the microtask queue. The code's lock is a loop (while there
  is a promise, await it), so a release wakes every waiter and a later
  call may overtake them; both are in the model. `roster` and `planned` count the
  changes of who takes part and the one last planned for, `failed` the last one a
  failed repair knew of; `throttle` is the 5 s window of `maybeRepairFutureRounds`
  and its trailing call.
* `MatchPlan`: `plan` holds the rooms (a pair and perhaps a third) of every
  round, `shown` the preview with what it was made from, `edit` the row writes a
  swap or an exclude still has to do, `replan` how far the replanning after it has
  come: the people it read, the round it is at, the rooms generated for it and the
  rows its transaction deletes. `torn` names the rounds into which two
  transactions that did not see each other inserted. A score is real-valued and depends on
  profiles; the model keeps the tier it breaks ties in, and returns the set
  of rounds any scores could produce.
* `Removal`: `mem`, `row`, `canon` and `saved` are the four places a person is
  kept. `at`, `leftAt` and `unsaved` are moments; kicks and invites take fresh
  ones. `job` is a handler's status write: memory, the mark, the
  guarded UPDATE, the legacy UPDATE, each on its own; `recon` is the
  reconciler with what it read.
* `Presence`: `room` and `presence` are a person's sockets and the one they are
  present by, `grace` and `due` the 15 s timer before and after it
  fires, `task` the guard's holder, the reconciler's escalation and each
  person's drop.
* `Admission`: `place`, `invite` and `request` are the rows, `call` what each
  HTTP request has read and does next. An accept is three commits, an approval
  holds the request's row while another connection registers.
* `Broadcast`: `job` and `row` are the tables, `cycle` what a worker keeps in
  memory (the job when picked, the batch it read), `lock` the Redis key that any
  cycle deletes, `silent` the five minutes without a sign of life.
* `Meetings`: transactions that lock the conversation's row are one step; the
  reminder run, the door and the answer of a ring are split between what they
  read and what they write. The clock counts in slots. A server of before the
  `meetings` table may write the conversation alone (`Deploying`), since the
  code repairs what it leaves.

### Who acts: `Env`, `Actors`, `explored`

`Env` (lifecycle) and `Actors` (`Removal`, `Presence`) name the requests and
faults an instance has, so that a run puts together the actors whose
interleavings it is about. The theorems quantify over all of them. `MCMatching`
and `MCServices` join components that share no state; `explored` is chosen in
the initial state and says which of them the behaviour is about, so that TLC adds
their state spaces instead of multiplying them. Calls that lapse are explored
apart from the room for the same reason.

## 3. The runs

Deadlock is not checked: an event that is over, or one nobody acts on, has no
next step by design.

| run | properties | actors and bounds | distinct states |
|---|---|---|---|
| `LiveEvent_rounds` | `MemoryAgreesWithDb`, `RoundKeepsItsTime` | host rounds, both kinds of pause, extension, end; 3 rounds of which 2 planned, 2 slots | 154 k |
| `LiveEvent_edits` | `ActiveMatchNeverWiped` | confirm, re-match, swap, Another Round, REST end; 2 rounds, 2 slots | 646 k |
| `LiveEvent_empty` | `ActiveRoundHasRoom` | leave, no-shows, skips, failing rooms; 2 rounds, 2 slots | 1.6 M |
| `LiveEvent_recovery` | `CompletionInv`, `OneRecap`, `TerminalIsFinal` | one throw, one restart, pause, end; 1 round | 874 k |
| `LiveEvent_liveness` | `TypeOK`, `PhaseTimers`, `NoStrayConversation`, `EndsItsOwnRound`, `ImplementsLifecycle`, `RoundEnds`, `RatingEnds`, `ClosingEnds` | preview, cancel, exclude, leave, end, ratings under `FairSpec`; 3 rounds, 1 slot | 102 k |
| `Removal_reconcile` | `RemovalStands`, `KickLands`, `Converges` | all actors; a kick, an invite, a move, one failure or restart | 192 k |
| `Presence_graces` | `NobodyStranded`, `GraceEndsOnlyForAbsent`, `SurvivorReleased` | all actors; two people, two sockets each, two moves | 175 k |
| `Matching_all` | `MutualExclusion`, `Served`, `RosterIsPlanned`, `PlanNeverGoesBack`; `NobodyInTwoRooms`, `FewestRepeats`, `RematchRotates`, `RematchRespectsBlocks` | 2 callers with 3 calls, 2 repairs, 2 roster changes; 4 people, 2 rounds and a bonus round, 1 edit with its replanning, 1 move, 2 settings | 143 k |
| `Services_all` | `BeyondOnlyAtOnce`, `YesMeansIn`, `WithdrawnStays`, `DecisionStands`; `NobodyWrittenTwice`, `CompletedMissedNobody`, `EverySendEnds`; `RemindedOnce`, `NoReminderSkipped`, `UnlockNeedsMeeting`, `OneMeetingPerCall` | per service: 2 people, 2 requests, 2 invites; 1 job, 2 cycles, 2 faults; 2 slots, 2 rows, 2 overlapping runs; 2 devices, 2 rings | 555 k |

Each property has a mutated definition, kept next to the original, that
breaks it under the same run: a plausible slip in the code it translates.

Three runs are expected to fail; section 5 says what they show.

### Bounds, and why they are enough

Lifecycle. Two rounds are the least where one end can hit another's round, where
a plan of later rounds exists, and where the transition and the closing lobby
both occur; the third of `LiveEvent_rounds` is a bonus round, and the three of
`LiveEvent_liveness` put two transitions before the closing lobby. Two slots are the
least where some rooms fail and others do not, and where one conversation ends
and the round goes on. Two waiting callbacks let a timer and an empty-round check
queue in either order (one suffices in `LiveEvent_edits`). One failure and one
restart put either before, between or after the steps of each handler. `MaxRound`
bounds Start Round and the round a timer names; `MaxWaiting` makes a request wait
for a place; the no-show detection keeps the latest round it was armed for;
`JoinRecover` is taken only when no task still holds the object that left the
map. Slots are interchangeable, so the safety runs with two permute them.

`SessionLocks`. Three calls are the least where one holds, one waits and one
overtakes; two roster changes the least where the second falls into the throttled
window; two repairs the least where one overtakes another. The run also passes
with three changes (188 k states, twice the time).

`MatchPlan`. Four people have three arrangements, so two rounds and a bonus round
exhaust the fresh ones, and an arrival or a departure makes a trio or a bye. One
setting has a blocked pair under the default policy; the other has one under the
policy that looks at all events, and two pairs that met in earlier ones. An editor
is one edit to the end of its replanning, so with one editor a replanning meets the
generations under the lock, with two another edit as well. What needs two
hosts, two moves or six people is in section 5.

`Removal`. One kick, one newer invite, one own move and one failure are what the
longest of its races needs: a failed kick, the reconciler's stale read, an
accept in between.

`Presence`. Two people: the one who goes and the one left. Two sockets each, so
that an old one can close after a new one joined. A trio adds the branch of
`Demote` that keeps the room for the two that remain; there `NobodyStranded`
fails (section 5), and `RowReleased`, proved for any number of people, is what
is left of it. Two moves are the least where a departure meets a return.

Services. Two of each competing party; a limit of one use, so that two accepts
compete for it; one job, with as many faults as there are cycles; a batch of
one, so that a job takes more than one; three ticks, so that a meeting is
booked, moved, reminded and held.

### Fairness

* `LiveEvent!FairSpec`: the holder of the guard goes on (a promise that is ready
  is run): weak fairness of `GuardStep`. A timeout that stays due fires: weak
  fairness of `TimerFire`. The guard serves the oldest waiter: strong fairness
  of `Dispatch`, because requests that find the guard free may take it in
  between. No failures: the code retries nothing that failed.
* `Removal!FairSpec`, `Presence!FairSpec`: handlers run on, timers fire, the
  reconciler's 30 s interval ticks. What waits for the guard gets it (strong
  fairness of `GraceExpires` and `maybeAutoEndEmptyRound`), which is `Served` of
  `SessionLocks`.
* `LockFairness`: microtasks run, handlers end, the 5 s window opens. There is no
  fairness between waiters: `Served` holds by the loop itself, as far as calls are
  finitely many.
* `SendFairness`: the worker's 10 s interval ticks in some server, statements
  return, five minutes pass, a Redis key expires.

In all of them no request of a host or a participant is assumed.

## 4. The proofs

Nothing is assumed but the named assumptions on the constants, and each theorem
is about the specification the runs check. A theorem of the lifecycle carries in
its hypothesis the requests and faults that must stay away from `Env`. Each
excludes only what is known to break the property (section 5 has the
counterexamples) or would need a second argument, and leaves the rest of `Env`,
the rounds, the rooms and the queue arbitrary.

### The lifecycle

`LiveEventProofs!TypeCorrect` is `Spec => []TypeOK`, by one step per action and the
lemmas that each helper returns what its type says. The rest is `LiveEventProofs`.

| hypothesis | who stays away | theorems |
|---|---|---|
| `GuardsCompletion` | the unguarded status writers: REST end, Another Round | `CompletionCorrect`, `RecapSentOnce`, `CompletedForGood` |
| `LockedStarts` | Start Round, pauses, restarts; for the theorem Exclude too | `RunningMatchKept` |
| `Undisturbed` | the unguarded writers, throws, restarts | `UndCorrect`, `MemoryFollowsRow` |
| `Timed` | those, skips, a pause at 0 ms, previews | `RoundHasItsTimer` |
| `Unpreviewed` | those of `Undisturbed`, preview, re-match, exclude | `RoundIsInhabited` |
| `Orderly` | those of `Undisturbed`, preview, re-match, pauses | `LifecycleImplemented` |
| `Hosted` | those of `Undisturbed`, Start Round, pauses, re-match, skips | `HostCorrect`, `PhaseHasItsTimer`, `NoConversationStrays`, `RoundEndsItself`, `HostedLifecycle` |

* `CompletionCorrect`. `OneRecap` is not inductive: a completion at its last step has
  already claimed the row. The invariant adds that a row not completed has no recap,
  and that one whose recap is about to be sent has none yet. That in turn needs that no
  status write that read a live row lands after the claim, since both run under the
  guard. The hypothesis cannot be dropped (`LiveEvent_completed_reopened` is a run
  without it).
* `RunningMatchKept`. A re-match reads that nobody talks in its round and deletes
  later. What keeps a conversation from starting in between is the generation lock:
  whoever sets up a round does it for a confirmation (`LockTask`), at most one
  confirmation waits (`LockQueue`), and both hold the lock. So the reading is still
  true at the deletion (`LockRows`).
* `MemoryFollowsRow`. Memory and row are written by different steps, so they agree
  only when things settle. `UndInv` says what each label of a handler may find:
  which status `updateSessionStatus` is about to write and from which
  (`UWrite`), that a round being started is not shown yet (`UStart`), and how far a
  completion has come (`UEnd`). The other hypotheses but `GuardsCompletion` and
  `LockedStarts` imply `Undisturbed`, and their proofs use `UndInv`.
* `RoundHasItsTimer`. Between the status and the timer of a round there are four
  steps, and the time may run out while an end of the round waits for the guard:
  `TimeInv` lists those places beside the armed timer and the pause.
* `RoundIsInhabited`. A round may become empty at any step. The invariant is that
  from the activation on somebody talks in it or the check that ends it is on its
  way: about to be queued, queued, or in the guard (`RoomInv`, `Coming`).
* `PhaseHasItsTimer`, `NoConversationStrays`, `RoundEndsItself`: the parts
  of `HostInv`. An end of the phase is armed, under way or queued (`HEnds`); a timer
  and a queued end name the round shown (`HTimer`, `HQueue`), which is only true as
  no end can wait behind the confirmation of the next round; rows are active in
  the round shown, or between activation and display of the next (`HRows`).

The refinement. `ImplementsLifecycle` is proved for both ways in which a round
starts: by Start Round (`LifecycleImplemented`) and by a confirmed preview
(`HostedLifecycle`). Every step of the code is one of the abstract event or a
stutter; the step that shows a round is the one that needs an invariant, for the
abstract event starts round `round + 1` only. `OrderInv` gives it as Start Round
computes the number under the guard and keeps it; with previews it is `HNext`: what
is pending, being generated, or set up is the round after the last one shown,
since cancelling, excluding and previewing again never carry a number over a round.
With a pause the property fails (section 5).

### The other modules

* `RemovalProofs`: `TypeCorrect` and `RemovalIsFinal`. Types need two
  facts more: enough moments are left for the kicks and invites to come
  (`MomentsLeft`), and what an accept follows is a row it read
  (`FollowsHeldRow`). A removed row is then written by none but the accept's
  UPDATE, since every other writer carries the guard in its WHERE clause.
* `PresenceProofs`, for any number of people and sockets: `TypeCorrect`,
  `RowIsReleased`, `GraceForAbsent`, and `PairReleased` (`NobodyStranded`) for two.
  Nobody whom presence forgot and a grace or a drop concerns was heard since
  (`AbsentOK`), which is why a grace ends no conversation of someone back. Whom a
  conversation that is over still holds in memory is still to be moved by the
  holder, or is away while the round lasts (`ReleaseOK`): the to-do list of the end
  of a round must be an invariant of its own, as joins and drops write in
  between its steps. The row of a pair keeps both, so `RowIsReleased` is
  `NobodyStranded` there; of three it is not.
* `SessionLocksProofs`: `TypeCorrect`, `LocksExclude` and `PlanMovesForward`, for
  any number of tasks. The invariant says that nobody is queued twice or while not waiting
  (`QueuesOK`, `WaitingOnly`), how far a call has come by what it holds (`CallsOK`),
  and that the map names exactly the task inside (`HoldersOK`); only with the
  first two does a resumption that finds the map empty enter alone. The plan never
  goes back because a repair that holds a roster read it inside the generation
  lock and after the roster planned last was read (`Fresh`).
* `AdmissionProofs`: `BeyondStaysAtOnce`, `YesIsIn`, `DecisionIsFinal`,
  `WithdrawalIsFinal`. An accept asks whether the invite is good and counts it two
  commits later, so what can go beyond the limit is under way when the last use is
  counted: `BeyondOK` weighs the uses and those let in beyond them together with the
  accepts still to be counted. `YesIsIn` needs what each call knows from what it has read
  (`Knows`, per step) and that `lost` is set by whatever takes the place away
  (`RowsOK`); `DecisionIsFinal` that an approval under way still holds
  the row's lock (`LockOK`).
* `BroadcastProofs`, for any number of jobs, cycles and people. `CompletedReachedAll`:
  a cycle that goes on to finish found nobody waiting, and nobody waits again
  (`DrainInv`). `OwnWordsOnce` assumes `~Stalls`: then a job in hand is in one hand
  (`LeaseOK`), for a second cycle picks it only once it is silent, and of a job
  not resumed who still waits has no message but the one just written (`WrittenOK`).
  The Redis key plays no part in the argument: any cycle deletes it.
* `MeetingsProofs`: `ReminderSentOnce`, `ReminderNotSkipped`, `UnlockedByBoth`,
  `CallIsOneMeeting`, for any number of meetings, runs and devices (the runs of the
  worker are finite in number, `PairBoundsAssumption`). A reminder is sent once
  because the stamp of a claim is held by nobody else, which a pigeonhole argument
  over the runs gives: while a row bears a run's stamp, that run alone holds the
  row and no bell has rung for the row's present time (`RunsOK`, `BellsOK`). A run
  may fail at any point after its claim: the claim then stays and nobody tries
  again, as the worker says of itself (meeting-reminder.worker.ts:5-7). Those are the
  only reminders missing, because a slot before the start the row is unclaimed,
  rung for, failed at (`lost`), or in the hands of a run that will ring, give it
  back or fail (`NoticeInv`). An unlocked
  conversation has both people in its window (`RoomInv`), and a ring answered on two
  devices has one row (`RingInv`).

### The matching

`MatchingProofs`, for any number of people, rounds, editors, edits and moves, any
setting and any limit `Exact` of the search.

The search, the greedy choice and the exchanges are recursive functions. Each runs
down a well-founded order (fewer people free, fewer pairs open, fewer repeats), and
`Recursion` shows, by a minimal counterexample, that a function satisfying such an
equation exists; so the chosen one does. What such a function returns is again
shown by a minimal counterexample. From there, bottom up:

* the search returns perfect matchings only (`CompleteIsPerfect`) and finds one
  wherever there is one (`CompleteFound`); the greedy pairs share nobody
  (`GreedyIsMatching`);
* a round of the engine keeps people apart (`EngineSound`), and exchanges keep that,
  who is placed, and whom `never` separates (`ReduceSound`);
* the ladder, on every level, keeps blocked pairs and those of the old arrangement
  apart (`ServiceSound`), places everybody where they let it (`ServiceFull`), repeats
  nobody where it need not (`ServiceFresh`), and ends with no exchange that would
  help (`ServiceSettled`).

| theorem | property | hypothesis |
|---|---|---|
| `TypeCorrect` | `PlanTypeOK` | |
| `NobodyTwice` | `NobodyInTwoRooms` | `OneEditor` |
| `BlocksRespected` | `RematchRespectsBlocks` | |
| `RematchRotatesUnlessFewer` | `RotatesUnlessFewer` | |
| `Rotates` | `RematchRotates` | at most one arrival or departure |
| `MatchIsFresh` | `FreshWherePossible` | |
| `MatchSettles` | `NoExchangeHelps` | |
| `MatchRepeatsFewest` | `FewestOfFew` | |
| `Fewest` | `FewestRepeats` | at most five participants |

* `NobodyTwice`. While an edit is under way its round may hold somebody twice, between
  the two writes of a swap. The invariant `RoomsInv` is that the round keeps people
  apart once the writes still to do are done (`After`); a regeneration in between
  forgets the rows, and the writes left then find none. The replanning that follows
  holds no lock. What it inserts keeps people apart by itself, and a commit that
  finds rows beside its own marks the round as `torn`, which the property excepts
  until the round is made anew (section 5 has what happens in it). So what is proved is
  that nothing else puts anybody in two rooms: no regeneration between two writes, no
  wipe or commit of a replanning while its round is edited, nothing that is left of
  an edit whose rows are gone. With two editors it fails.
* `BlocksRespected` and the others about a preview rest on `ShownStays`: a preview
  that no edit, no repair and no replanning touched is the one Match Participants or Re-match made,
  in a round none has written since.
* `RematchRotatesUnlessFewer`. Without the old pairs every round of the ladder is
  perfect, so it has as many rooms as the old one could, and shares no room with it:
  the code never takes it for "no other arrangement". The condition it names, that
  the people are enough for the old rooms, fails only after two departures (section
  5); `RoomEnough` says so (no edit adds a room), which gives `Rotates`.
* `FewestRepeats` is a minimum over all arrangements, which a search for exchanges
  need not reach. Of four people each arrangement is one exchange from every other
  (`RoundsOfFour`), so it does; for six it may not (section 5). What holds
  for any number is `MatchSettles`, and `MatchIsFresh`: no repeat at all where none is needed.

The invariants the proofs add (`PlanTypeOK`, `RoomsInv`, `RoomEnough`) and the
properties stated with them hold in the instance of `Matching_all`, too.

### What is not proved

Only model-checked: all liveness (`RoundEnds`, `RatingEnds`, `ClosingEnds`, `Served`,
`RosterIsPlanned`, `KickLands`, `Converges`, `SurvivorReleased`, `EverySendEnds`), which is leads-to
under fairness and beyond the prover, and so is everything about `ENABLED`. Every
invariant and action property of the runs is a theorem, under the hypotheses above.

## 5. Where the code and its comments disagree

Three disagreements have a run of their own, whose counterexample is the argument.

| run | what happens |
|---|---|
| `LiveEvent_completed_reopened` | Another Round, beside the guard, reads a live row and writes `round_transition` after the event was completed. |
| `Matching_blocked_pair` | The plan of an event is generated with no hard constraints and shown as the preview: two people of whom one blocked the other share a room. A single round's generation and Re-match keep them apart. |
| `Presence_left_walked_back` | The end of a round sends everyone named in its rows to the main room, a person who left in the middle of it included. |

The others are stated in the modules, under "what a comment says and the code
does not keep". Each is found violated by putting it into a configuration as
described.

| property | what happens | instance |
|---|---|---|
| `NoAutoStart` | The rating window is paused, then closed by the host. Resume finds time left and arms the timer of the status of now, which starts the next round; only the host should (round-lifecycle.ts:953). | `Env` preview, pause, end |
| `CancelledStaysCancelled` | Cancel Preview while the rooms of the confirmed round are created: the activation by id revives the rows (round-lifecycle.ts:265). | `Env` preview, cancel |
| `ActiveMatchNeverWiped` | Exclude, with no lock, deletes a row that Confirm has just activated (matching-flow.ts:814). | `Env` preview, exclude |
| `ClosingEnds` | Start Round in the closing lobby is accepted, clears the 10 min timer, and is refused by `session-fsm.ts`: nothing ends the event (round-lifecycle.ts:981). | `Env` startRound, startAfterLast; 1 round planned |
| `EndsItsOwnRound` | An empty round ends by the check queued before the timer's own `endRound`; with Start Round in between, the late call ends the next round (session-fsm.ts:5). | `Env` startRound, leave |
| `OneRecap` | REST end between the read and the write of a round start: two recaps. | `Env` startRound, restEnd, end |
| `RoundKeepsItsTime` | A pause at 0 ms leaves a round without a timer (host-actions.ts:656). | `Env` startRound, pause, pauseAtExpiry |
| `RoundKeepsItsTime` | The 3 s grace of a skip check of round 1 replaces round 2's timer. | `Env` startRound, skips |
| `RoundKeepsItsTime` | Start Round leaves the preview pending. Confirm, pressed again in the round, clears its timer (matching-flow.ts:616) before the transition refuses it. | `Env` startRound, preview |
| `ImplementsLifecycle` | The time left of a pause makes Resume arm the start of the next round in the transition. It fires behind a Start Round and its end, and plays that round again. | `Env` startRound, pause, other, end; 3 rounds planned |
| `RestartFinishesKick` | The recovery after a restart is not awaited; a join or a tick that comes first rebuilds the session without the unsaved kick (session-state.ts:238). | `Actors` join, restart |
| `LapseReleasesSurvivor` | The sweep forgets someone whose socket is open; when it drops, no grace is armed, and the partner waits for the round. | `Actors` drop, lapse |
| `NobodyStranded` | Of three, one drops while a late join still has its mark to write: in memory they are `in_breakout` again. Their grace takes them off the row and the other two go on, so the end of the round moves those two only. Rejoining in the rating window is refused from `in_breakout`, and memory keeps it (participant-flow.ts:625, round-lifecycle.ts:786). | `Actors` drop, with three people |
| `TemplateOnce` | The older template send reaches a person twice over two jobs. | `Services_all` with `MaxJobs = 2` |
| `UnlockedByMeetingBothAttended` | Calls unlock for two who came in the windows of different meetings. | `Services_all` |
| `NobodyEverInTwoRooms` | The replanning after a swap or an exclude takes no lock. It has wiped and generated the next round when Match Participants or a repair, which do take it, write that round too; both transactions delete before the other commits, and both insert. Somebody is in two rooms of the next round, which is the race the lock of the repair is there to prevent (participant-flow.ts:135-141). The validator is not asked, and the unique index refuses the same pair only. | `Matching_all` |
| `AdmittedWithinMax` | Two accepts read the last use of an invite, both register, and the one that loses the count gets in as well (invite.service.ts:1086-1098: "the user IS already registered"). A Google sign-up that writes back the count it read (identity.service.ts:893-897) hides even that. | `Services_all` |
| `NobodyInTwoRooms` | Two hosts swap at once, each checked against the same rows; swap and exclude take no lock (matching-flow.ts:649). Somebody ends in two rooms. | `Matching_all` with two `Editors`, `MaxEdits = 2` |
| `RematchRotates` | Two leave after the preview. The rotated round has fewer rooms than the old one, is taken for "a single possible pairing" (matching-flow.ts:910), and is replaced by one made without the exclusion, which may bring the same pairs back. | six `Participants`, `MaxArrivals = 2`, `MaxEdits = 0`, `PlannedTotal = 1` |
| `FewestRepeats` | Of six, only a-e, e-f and f-c are fresh. `ServiceRounds` may return {ef, ad, bc}, with two repeats, where {ae, cf, bd} has one: no exchange of two rooms has fewer, though the exchanges are there because an event "produced 2 repeats where 1 was forced" (matching.service.ts:671). | `ServiceRounds` of six people with these inputs |
| `PlannedRoundsDiffer` | The rounds to come are planned one by one against played rounds only (matching.service.ts:490) and may repeat each other. | `Matching_all` |

## 6. What a reader should know of the abstractions

* A generation under the lock (Match Participants, Re-match, a repair) is one step,
  though rounds are generated and written one after the other. Other holders of
  the lock cannot come in between, and each round is generated from the rounds
  played and the people read at its start alone, so a replanning that runs meanwhile
  leaves of each round what it leaves when it runs before or after. Its 60 s timeout, after
  which the code gives up the lock while the engine goes on, is left out.
* The replanning after a swap (matching-flow.ts:730) or an exclude (:823) is split at
  the reading of who is there, the DELETE of the later rounds, and for each round the
  DELETE and the commit of `persistMatches`. Those of Match Participants (:451, :562)
  and Re-match (:953) run inside the lock and are part of their steps. A DELETE waits for rows
  that another transaction has deleted (`Free`); rows inserted and not yet committed it
  does not see. Where a pair is in both inserts the unique index fails the second;
  the model takes the replanning to be second, so a repair that loses a round to the
  index is not modelled, nor one round of a repair that fails while the
  others go on ("continuing"). No round is started while it is still being replanned.
* `RematchRotates` says nothing of a Re-match that replaces a torn round: it has more
  rooms than any arrangement, which Re-match takes for "no other arrangement".
* `RosterIsPlanned` is about the repairs. One that fails is not tried again
  (participant-flow.ts:184), and the property says so: an arrival is planned for, or
  a repair that knew of it failed. The replanning after an edit plans as well; it
  is in `MatchPlan`, not among the writers of `planned`.
* A reminder is claimed before it is sent, and a claim is given back only if the
  meeting was moved or cancelled. What fails after it (a closed account, a block, a
  statement, the server) costs that reminder: `NoReminderSkipped` excepts it by name.
* An accept that is cut off between its registration and its count lets its person
  in and counts nothing. Nobody was answered yes, so `BeyondOnlyAtOnce` does not
  count it either.
* `CreateRooms` aborts when the rooms of all rows still there failed; the code compares
  with the rows it loaded (round-lifecycle.ts:340), so it goes on with an empty round
  if a row deleted meanwhile had got its room. That needs Exclude, or Cancel, in the
  midst of the start, which the runs and theorems about inhabited rounds leave out.
* `warmParticipantState` lifts the row and overlays the canonical document in one
  step; the code awaits `readCanonical` in between (participant-state-machine.ts:773),
  where another handler may write memory first.
* `RoundKeepsItsTime` is checked and proved without `skips`, `pauseAtExpiry` and
  `preview`, `ActiveMatchNeverWiped` without Exclude, `ImplementsLifecycle` without
  a pause, `NobodyStranded` for two people, `NobodyInTwoRooms` for one editor,
  `RematchRotates` for one move and `FewestRepeats` for up to five people, for the
  reasons above.
* `NobodyWrittenTwice` has `Stalls = FALSE`: no cycle stands still for five minutes
  and wakes. The code has no fence against one that does.
* The number of places of an event is not counted in `Admission`: a registration
  finds it full or it does not. `WithdrawnStays` excepts a Google sign-up, which
  writes back the status it read.
* A Redis call answers or fails; `Broadcast` lets the key expire at any time.
* `Presence` has a session that lives and statements that succeed; failures and
  restarts of the same writes are in `Removal`.

## 7. Not modelled, and why

The repository has over 130 000 lines in 658 files of implementation. More than
half is the web client, and most of the server is validation, listings, single-row
CRUD, mail texts, prompts and scores. What is modelled is about 8 000 lines: the
handlers, services and workers in which a property spans several steps or actors.

* The client renders what the server sends and asks again when in doubt; it keeps
  no state the server trusts.
* Routes, middleware, realtime fan-out: validation, dispatch, and invalidations
  whose loss costs a refresh.
* Pods, circles, people, entities, direct messages, event chat, notifications,
  reports, blocks, profiles: single statements over rows. Nothing is read before
  an await and used after it that another call changes.
* Onboarding, agents, platform matching: language-model calls and real-valued
  scores.
* Ratings: one upsert per rated pair and counters recomputed from the rows; the
  lifecycle models that they may fail and that they close a window early.
* Manual breakout rooms: each has a timer that ends that room alone. They meet the
  rounds only through `is_manual`: what counts as played leaves manual rows out
  (matching.service.ts:491, matching-flow.ts:149), so the rows of `MatchPlan` are
  those of the algorithm.
* LiveKit: an external server; only success or failure reaches the handlers.
* Canonical snapshots and the shadow comparison: read paths.
