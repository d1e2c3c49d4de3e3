# Veratown: TLA+ models and proofs

Veratown (repository *Ropeybot*) is a bot that runs a role-play room of the Bondage Club: a casino, a dare game, a
kidnapping game, and a town of rooms with cages, doors and punishments. It is one Node.js process with a MongoDB
database, a socket to the chat server, and many timers. Nothing in it runs in parallel; everything in it
*interleaves*: each `await` lets other handlers run, timers and room events arrive at any moment, the process
restarts, and database calls fail or lose their acknowledgement. That is what these modules are about.

All source paths below are relative to the repository; `bin/` is `src/bin/` where the sources are kept as `src/`.

## Inventory

| Component | State it keeps | Operations | What is hard |
|---|---|---|---|
| Action scheduler (`bin/action-layer/scheduler.ts`) | queues by character, operations by key, closed flag | `schedule`, `close` | promise chains, objects dropped and recreated, duplicates, limits, hanging work |
| Action services and adapters (`bin/action-layer/*-service.ts`, `adapters/`) | pending confirmations, recent operations | apply, remove, move, send | server answers late, never, or for another request; retries |
| Workflow and journal (`bin/action-layer/workflow.ts`, `bin/games/shared/*Journal*.ts`, `veratown/shared/veratownWorkflowRecovery.ts`) | one versioned document per operation | start, advance, resume, complete, fail, restore | concurrent instances, lost acknowledgements, crash and restore |
| Release workflow (`bin/games/veratown/releaseWorkflowSystem.ts`) | session and parole flag in the profile; runs, timers, confirmations in memory | request, answer, run, strip, cooldown, resume | restarts, absence, stale reads, whole-field overwrites |
| Character store and mutation service (`bin/games/shared/unifiedCharacterStore.ts`, `gameStateMutationService.ts`) | one profile document per character, an event log | some hundred updates | read-modify-write without transactions, retries of non-idempotent work |
| Event bus (`bin/games/shared/eventBus.ts`) | listeners, queues and delivered sets by delivery id | subscribe, unsubscribe, publish, publishReliable | a repeated delivery, listeners that reject, hang, or come and go meanwhile |
| Cross-system subscribers (`crossSystemSubscribers.ts`) | none of their own | lock and unlock chips on bondage events | two subscribers whose awaits overlap, a rejection after a partial effect |
| Casino tables and purchases (`bin/games/casino.ts`, `casino/`) | bets, round, phase and timers in memory; chips in the profile | bet, cancel, spin, settle, close, end, deal, buy | a bet is checked before an await and placed after it; a loop that awaits over an array others push onto; a spin that fails |
| Dare game (`bin/games/dare.ts`, `dare/`) | lobby, games, turn order, timers, snapshots | join, draw, pass, forfeit, leave, restart | timers against answers, leaving mid-turn, snapshots out of order |
| Kidnappers game, its rules (`kidnappersGameStateMachine.ts`, `...Outcome.ts`) | phase, roles, votes, the capture turn, progressions | some thirty commands | captures cut short by answers, timeouts and departures; votes of another day |
| Kidnappers game, its capture service (`kidnappersGameCaptureService.ts`) | none of its own; bondage and effects in the profiles | mark and bind, tighten, free | done after the command, outside any queue: awaited calls that overlap later ones, are retried, reject, or are lost |
| Kidnappers game, its session (`kidnappersGameSession.ts`, `...Persistence.ts`, `...LifecycleService.ts`) | versioned document, audits, queue and memory of each session object | dispatch, recover, close | repeated and lost answers, an object replaced while operations run |
| Bunny park (`bin/games/veratown/bunny*.ts`) | artifact, queues, timers | punish, release, recover | partial application, restart |
| Removal journal (`unifiedCharacterStore.ts` 2221-2560) | removal operation in the profile | begin, attempt, complete | compare-and-set with a version others overwrite |
| Location events, monitors, tile triggers | executions by delivery id | execute, monitor | crash between record and effect |
| Timers and monitors (`veratown/shared/timerManager.ts`, `idempotentMonitor.ts`) | handles by key | set, clear, run | an old `finally` removing a newer entry |
| Keypads, cages, kennel, shower and the other rooms | access lists, occupancy | enter, leave, lock | mostly sequential rules |
| Connector, start-up, Discord, hub games, migrations | - | I/O, wiring | not on the plan |

What makes each correct: the *scheduler* is a fair first-in first-out worker per character and never runs one
operation twice at a time; the *journal* is one history of legal transitions; a *release* needs consent, is run once,
puts on parole only who was stripped, spares owner locks, and ends; *chips* are locked only out of what there is, and
the events explain the balance; a *turn* is ended once and the game goes on; a *delivery* reaches each listener once
and tells of each; a *session* is one sequence of operations, each recorded once; a *night* captures one player at
most, and who is captured, and only who is, is bound in the end; a *bet* is played once or given back, and comes up.
`PROJECT.json` lists every component with what is modelled of it, and every hazard at its line.

## Modules

| Module | Models | |
|---|---|---|
| `CharacterWork` | abstract: what the action layer promises its callers | state machine |
| `ActionScheduler` | `scheduler.ts` | state machine |
| `WorkflowHistory` | abstract: what the journal promises of one operation (the transition table of `workflow.ts`) | state machine |
| `WorkflowJournal` | `workflow.ts`, `durableWorkflowJournal.ts`, `mongoWorkflowJournalStorage.ts`, `executeWithRetry.ts`, `veratownWorkflowRecovery.ts` | composed: clients, journal, storage |
| `ActionLayer_proofs` | | theorems about `ActionScheduler` and `WorkflowJournal` |
| `ReleaseWorkflow` | `releaseWorkflowSystem.ts`, with the room, the process and the database around it | state machine |
| `ReleaseWorkflow_proofs` | | theorems |
| `ChipLedger` | the chip operations of the store, the mutation service, the bondage subscribers and the casino purchases | composed |
| `ChipLedger_proofs` | | theorems |
| `DareTurns` | one game of `dare.ts` with `dare/gameManager.ts` and `dare/turnTimerManager.ts`, the room, the process and its snapshots | state machine |
| `DareTurns_proofs` | | theorems |
| `EventDelivery` | `publishReliable`, `subscribe` and `unsubscribe` of `eventBus.ts` | state machine |
| `EventDelivery_proofs` | | theorems |
| `SessionHistory` | abstract: what the persistence promises of one session | state machine |
| `KidnappersSession` | `kidnappersGameSession.ts`, `kidnappersGamePersistence.ts`, the lifecycle service as far as it replaces and closes objects | composed: objects, queues, storage |
| `KidnappersSession_proofs` | | theorems |
| `CaptureNights` | abstract: what the rules promise the players | state machine |
| `KidnappersGame` | `kidnappersGameStateMachine.ts`, `kidnappersGameOutcome.ts`, the rules and snapshot validation | state machine |
| `KidnappersCaptures` | `kidnappersGameCaptureService.ts` with the calls of `gameStateMutationService.ts` that it awaits | composed: the game, its captures, the profiles |
| `KidnappersGame_proofs` | | theorems |
| `RouletteTable` | `casino/roulette.ts` and `betValidator.ts`, with what of `casino.ts` opens, closes and ends the game | state machine |
| `RouletteTable_proofs` | | theorems |
| `MC*` | instances for TLC: constants, symmetry, order of interchangeable calls | |

### How state and actions correspond to the code

JavaScript runs a handler without interruption up to its next `await`. So one action is the code between two awaits:
it has the guard of the code's early returns, the assignments of that stretch, and leaves a program counter (`pc`,
`phase`) at the next await. A handler call is a *thread* or *call* named by a model value or number; its local
variables are functions of it (`mine`, `plan`, `view`, `next`), and a handler that ends forgets them. What lives in
the database survives `Restart`; what lives in memory does not.

*ActionScheduler.* A call creates at most one queue object, one promise and one map entry, so all are named by the
call. `Join`, `RefuseClosed`, `RefuseFull`, `Admit` are the four ways `schedule()` ends; `Start`, `Settle`, `Release`
are the callbacks chained by `Admit`; `prev` is the tail the closure was chained behind, which stays with the call
when the map forgets the queue object. Between settling and release any other step may be taken, though the event loop
would run those callbacks back to back: the model allows more. `LineOf` maps the state to `CharacterWork`: the
unsettled calls of a character, each in the place that the number of those admitted before it gives it.

*WorkflowJournal.* A client is one run of an operation's code. A client that crashes takes no more steps (there is no
fairness), and another one starts from what is stored. `Restore` and `Compare` are the journal's reads, `Write`,
`AnswerLost`, `WriteFails` and `WriteRefused` the outcomes of one attempt of `insertOne` or `updateOne`; `Retry` is
`executeDbMutation`. `Stamps` stands for stage, data and time, as far as two states may differ in them. Its
specification is named `JournalSpec` (and `JournalInit`, `JournalTypeOK`, ...), so that `ActionLayer_proofs` extends it
beside the scheduler, the other half of `bin/action-layer`.

*ReleaseWorkflow.* `Requests` are calls of `executeRelease`, `Resumes` of `resumeIfNeeded`. The session is named by
the request that made it, and `Persist` overwrites session and parole flag as `persistSession` does.
`movementService.move` and `appearanceService.remove` are one step each, which may fail although it happened. `Dress`
and `OwnerLock` are other players, who act at any time.

*ChipLedger.* A change reads (`Read`), computes and writes the fields its `$set` names (`Write`), records its event
(`Record`) and, where the mutation service puts the audit inside its retry, audits (`Audit`). `Fail` is a rejected
database operation at any of these awaits, with the retry from the start that `withRetry` makes. Transfers and the
daily claim are transactions, one step each.

*DareTurns.* `dare` is the game and the per-player maps of the `Dare` object; what a removal or the end of a turn sets
off (`removePlayerFromGame`, `advanceTurn`, `pruneUnavailableParticipants`, which call one another) is synchronous, so
it is computed by operators on that table (`Removed`, `Advanced`, `Pruned`) within one step. Each call within another
is about a player less, so the recursion is a function of the number of players: `AdvancedAmong[k]` is `advanceTurn`
whose inner calls are `AdvancedAmong[k - 1]`, and the operators that end in `By` take the inner one as a parameter.
`Applied` is a loop over synchronous calls. Commands,
timers and room events are the actions; a draw awaits two seconds, and whatever else is awaited before a turn is
finished is counted in `ending`. `Save` is `persistState`, which nobody awaits: the snapshot may or may not have been
stored when the process dies.

*EventDelivery.* A call of `publishReliable` joins the chain of its delivery id (`PublishReliable`), awaits the call
before it (`Begin`, when that one is `done`), takes the list of listeners, calls them one after the other
(`CallListener`; `Pass` skips those `delivered` under the id), and each either handles the event (`Handled`) or
rejects and is called again up to `Attempts` times (`Rejected`). The loop takes one step for each listener, which
allows more than the code: nothing but the loop works on what it reads. The promise in `reliableQueues` is named by
the call that made it: it is resolved when that call ends, and the map entry (`tail`) is forgotten only if it is still
that one's. `Subscribe` and `Unsubscribe` change the list that a call copied, or not yet. `publish()` keeps no state
and is left out.

*KidnappersSession.* A snapshot is the sequence of the operations that made it, so "the same state" is the same
sequence. A command is queued on the object that the lifecycle service keeps (`current`), finds the audit of its key,
and either replays it or writes; a transaction, with all its reads, is one step; it may reject without effect, or take
effect and lose its answer, and `executeWithRetry` then repeats it. `Recover` makes an object of the document and
leaves the old one with whatever is queued on it; `Restart` forgets all objects. Whether the rules accept a command is
open here, except that a terminal phase accepts nothing but SHUTDOWN_SESSION: `closePersistedSession` looks at the phase
and then queues its shutdown (`CloseSession`), possibly behind an operation that ends the game, and it is stored after
that one with a version of its own. Which commands the rules accept before is the matter of `KidnappersGame`.

*KidnappersGame.* A command is one step: the one in which its snapshot is recorded. `Next` is `Command /\ Valid'`, or
time that passes: a command whose snapshot `validateSnapshot` rejects is taken back and changes nothing, so a state
that validation forbids is never reached. Time is what guards see of it: a turn is open, due at its very deadline (when
the code accepts both the answer and the timeout) or over; a phase is due or not; an escape is cooled down or not.

*KidnappersCaptures.* What a command asks of the capture service is found by comparing the progressions before and
after it (`Caught`, `Tightened`, `Released`), as the service finds it in the event. `dispatch` awaits it after the
command was recorded and outside the session's queue, so `Serve` only begins a *chain* for each player concerned: mark
and bind; bind; or read what is worn, remove it piece by piece, cancel the effect. Each call of a chain is a step of
its own, chains of several commands go on beside each other and beside the commands that follow, a call may be
repeated though it had its effect (`Retry`), be given up with the rest of its chain (`GiveUp`), or be lost in a restart
(`Crash`). A command may be recorded with no chain at all (`Unserved`): its answer was lost, the service had not seen
the capture that the command cut short (`pendingCapture` is read before the await), or the session was closed past the
service. `upset` is history: the players for whom that happened, or for whom a chain began while one of the opposite
kind was still under way. It is cleared by the next capture or release of the player that begins when no chain of
theirs is under way: from then on `BoundAreCaptured` holds of them again, whatever was left behind.

*RouletteTable.* A handler runs up to its next await in one step: `Bet` (what is checked), `Place` (after the chips
were deducted, when nothing is checked again), `Recorded`; `Cancel` and `Refund`; `SpinWheel` to the rejection or the
settled round. The bets are a set, because a bet is an object; the settlement loops over the array that is `this.bets`
at its start, so `due` grows with `shared` as bets are pushed onto it, and stops growing when the array is replaced.
Time is open for bets, after the last call, or past. A round is named by the bet that made its id. The set `upsets` is
history: it names what has gone wrong (a bet placed late, a payment that outlasted the pause, a call that rejected,
...), and each property names the upsets it does not survive. Which number wins and how much are left out, as are the
awaited calls between which nothing that others see happens. One spin is on at a time: the model does not let a
settlement outlast the minimum of thirty seconds to the next spin.

## Runs

`tlc -config X.cfg M` with the module and configuration of each run; `PROJECT.json` names them.

| Run | Shows |
|---|---|
| `action_scheduler` | order, slots, duplicates, progress beside a hanging character, drained after `close`, refinement of `CharacterWork` (with fairness) |
| `workflow_journal` | held states are stored states, steps are legal transitions, refinement of `WorkflowHistory` |
| `release_workflow` | no two runs at once, parole only after a verified strip, owner locks kept |
| `release_ends` | liveness: containment and cooldown end (`SessionsEnd`) |
| `release_unconfirmed` | *violated*: a resume runs a session nobody confirmed |
| `chip_ledger` | locked chips are covered and events explain the balance, but for overlaps |
| `dare_turns` | three players: the turn is always watched by a timer or a handler, decisions have their dare (`GameIsWatched`) |
| `dare_restart` | two players and a restart from any snapshot that may have been stored: the same, and the game ends by the auto-pass alone |
| `event_delivery` | no listener handles an id twice and calls of one id do not overlap (`OncePerId`), a finished call accounts for every listener, only a hanging listener keeps a call |
| `kidnappers_session` | audits tell the history, an idle object holds a stored state and is behind only for a reason, operations end, refinement of `SessionHistory` |
| `kidnappers_game` | votes and captures keep to their phase, one capture a night (refinement of `CaptureNights`), and the bound are the captured once the calls of the capture service have ended undisturbed (`BoundAreCaptured`) |
| `roulette_table` | bets are played once or given back (`BetsHonoured`), a spin comes for them (`SpinComes`), the table comes to rest (`Rests`) |

The *violated* run checks a claim of the repository's own documents; `PROJECT.json` quotes it under "findings".

### What the code does differently from its documents, without a run

These were met while modelling; the models follow the code.

* Chip updates are called atomic (`docs/PHASE_5_CASINO_MIGRATION.md:161`), but `updateChips` reads and writes an
  absolute balance around an await (`unifiedCharacterStore.ts:1172`): two that overlap lose one. `BalanceExplained`
  holds up to the first such overlap.
* A repeated write after a lost acknowledgement is to be recognised
  (`docs/ARCHITECTURE/ACTION_LAYER_OVERVIEW.md:227`), but the storage reports it as a conflict
  (`mongoWorkflowJournalStorage.ts:109`). It is not applied twice.
* When the player on turn leaves the dare game, the turn passes over the next one (`dare.ts:1650` against 146), and
  whoever is absent when the turn comes is removed within the grace period (`dare.ts:1698` against 159).
* A casino game is closed after a last round (`casino/game.ts:49-55`), but the roulette's close never resolves when
  nobody bets after a settled round: its spin is refused, and `willSpinAt` stays in the past (`roulette.ts:796`). The
  upset is "empty" in `Rests`.
* Roulette, as modelled: a bet that was checked in time is placed after the last call, and waits for the next bet; two
  bet commands of one player in flight both pass `betValidator.ts:105`; a payout that rejects leaves the bets on the
  table and every later spin of the round refused; a settlement that outlasts the pause of twelve seconds lets new
  bets be cleared unplayed and paid bets be cancelled; a deduction stops at what is available, so that a cancel may
  refund more; the end of the game clears bets of its last two seconds; bets are in memory only, and a restart loses
  the stakes.
* A session's callers are to observe no uncommitted transition (`kidnappersGameSession.ts:177`); `getSnapshot` shows
  one while its write is under way. `IdleIsStored` is about objects on which no operation runs.
* Who is captured, and only who is, is to be bound; the capture service awaits this after the command
  (`kidnappersGameCaptureService.ts:78-148`). An `applyBondage` that is retried may land after the `removeBondage` of a
  later release; a call that rejects for good, a lost answer or a restart leaves a captive free or a player bound when
  the game is over; and nothing looks for them later. `closePersistedSession` passes the service by. These are the
  upsets of `BoundAreCaptured`. A second capture of a player in one session is bound but not marked: the mark's key is
  that of the first, and is used once (`unifiedCharacterStore.ts:3946`).
* Kidnappers: nothing in production dispatches `TIMEOUT_TURN`, `TIMEOUT_PHASE`, `PLAYER_DISCONNECTED`,
  `PLAYER_RECONNECTED`, `RESOLVE_...` or `ESCAPE_CAPTURE`, and nothing calls `closePersistedSession`; the model has
  them, as the state machine accepts them, and claims no liveness. `TIMEOUT_TURN` and `PLAYER_DISCONNECTED` capture a
  protected target. Partially assigned roles may leave a game without a kidnapper. Votes of a player who leaves are
  counted. A replayed command puts the object's memory back, so that later operations conflict (`BehindHasReason`).

### Bounds, and why they are enough

* `action_scheduler`: two characters, four calls, three operation ids, a limit of two. Two calls of one character
  suffice to drop and recreate a queue object, three to fill the limit and refuse, four to do so beside a second
  character, one of which may hang. Calls and ids are taken in one order only (`FirstUseInOrder`).
* `workflow_journal`: two clients race for every version; six versions allow pending, running, waiting and back, and a
  failure that is resumed and completed; two failures are a lost acknowledgement followed by a failing repetition; two
  attempts have a first and a last. Clients and stamps are symmetric.
* `release_workflow`: two requests, two resumes, one piece of clothing and one restraint, two disturbances (restart,
  disconnection, absence), one failed database operation. A second session exists besides the first, and every pair of
  threads overlaps. `release_ends` leaves out the restraint and the failed operation, which its properties exempt.
* `chip_ledger`: three calls of any kind on two accounts, four chips to begin with, one failure: every pair overlaps
  with a third change in between, and a call is retried.
* `dare_turns`: three players, so that a removal leaves a game and every position is before, at or behind the current
  one; two rounds, so that the turn goes round and the game also ends in the middle of a removal. `FewHandlers` lets
  two handlers await at a time in the first round, a late one and that of the player whose turn it ends, and one in
  the last round. `dare_restart`: two players, one round and one restart, with every snapshot stored before it; this
  is small enough for the liveness check. `MaxEnding` bounds the awaiting handlers of one player. `CONSTRAINT
  Unfinished` stops at the end of a game that nothing can resume.
* `event_delivery`: three calls, one id (or none), two listeners of which one may hang, two attempts, one subscription
  of each kind. Three calls make a chain with a middle, whose promise is in the map when neither its predecessor nor
  its successor ends; two listeners make one that is reached and one that is not; a call may come after the first has
  forgotten the map entry. Calls are taken in order (`InOrder`), two at least carry the id (`MostWithId`), and one
  listener is of all types (`OneOfAllTypes`).
* `kidnappers_session`: two objects, three operations on two keys (so that one is a repetition), one of which ends the
  game, two attempts, two rejections, one restart. An answer is lost and the retry fails too; an object is replaced
  while an operation of it is under way, and both go on.
* `kidnappers_game`: four players (the code has five to nine; four are two kidnappers, a mistress and a bystander, or
  one kidnapper and three others) and two rounds, so that a second night and a second day follow the first.
  `FewAssigned` and `DealtSo` choose among the ways to deal roles, `FewGone` lets one be away at a time, and `FewKept`
  takes one case of what is kept of a night or a day without being looked at later. Two levels of restraint and two
  chains for one player (`Slots`): the release overtakes the binding of the capture, or of an escape that failed, and
  what is removed is of two levels. `FewCalls` keeps chains to the night and the end of the game, at most two at once,
  and one upset player at a time; the proofs have no such bound.
* `roulette_table`: three bets, two of one member, one of them a forfeit; one rejection, one close or end. Two bets
  are in flight at once while a third is on the wheel; a bet is put back into a round that was settled. `FewUpsets`
  stops at the third upset; the proofs have no such bound. With `FewAtClose` a table that closes sees two of the three
  bets.

History variables carry what a property needs of the past; `irregular` and `overwritten` mark the first step that
makes a stated hazard real (a resume of an unconfirmed or outdated session; a write computed from an old view). The
violation run shows such a step is reachable; the passing properties say what holds until one is taken. `CONSTRAINT
Regular` only stops the search after it.

### Fairness

* The event loop runs every callback that is due: weak fairness of `Start` and `Release`, of the steps of a handler
  whose awaited call returns, and of due timers (one fairness condition per thread, not per action: a handler has one
  next step).
* The scheduler has no timeout of its own, so that an operation settles is assumed only of characters outside
  `Hanging`.
* Movement and removal have a five-second timeout and a failure result, so a run always goes on.
* The bot reconnects and the character comes back (`Connect`, `ComeBack`): without that a parole waits, and should.
* `DareTurns`: the start command, the auto-pass timer and the awaited operations go on; no command, no other timer and
  no return to the room is assumed. A database operation that never returns or rejects would leave a turn unfinished
  (see *Not modelled*), so `GameEnds` is about a database that works.
* `EventDelivery`: a listener outside `Hanging` settles, and the loop goes on. No caller or subscriber must do
  anything.
* `KidnappersSession`: a transaction that is tried goes through at last (rejections are bounded), and an operation at
  the head of its queue runs. Commands, recovery and closing are nobody's duty.
* `RouletteTable`: timers fire, awaited calls settle, and the waits of `closeBetting` and `endGame` resolve once their
  condition holds. Bets, cancels, closing and opening are nobody's duty; a rejection is possible and never due.
* `WorkflowJournal`, `ChipLedger` and `KidnappersGame` have no fairness: a client may stop anywhere, and only safety
  is claimed.

## Proofs

`tlapm X_proofs.tla` proves, for every value of the constants allowed by the named assumptions:

* **ActionScheduler** (in `ActionLayer_proofs`): `TypeOK`, `StartsInOrder`, mutual exclusion per character,
  `SlotsExact`, `NoReplay`, and `Work!Safety`, the refinement of `CharacterWork` without its fairness.
  `StartsInOrder` is not inductive: a call knows only its predecessor. The invariant adds that the calls of one queue
  object form a chain by admission (every earlier call of the character that has not settled is at or behind the
  predecessor), that a character has no unsettled call outside its current queue object, and that the counter counts
  the live calls. The slot count needs cardinalities of finite sets; nothing is assumed of the number of calls. For the
  refinement, a finite set of calls with distinct tickets is lined up by how many are ahead of each: the lemmas show
  that every place is taken once (`PlaceIsTaken`, by a largest number of calls ahead), that who is admitted last is
  appended (`LineGrows`) and that taking the first away leaves the tail (`LineShrinks`). Then `Admit` submits, `Start`
  begins the first in line, because the invariant has every earlier call settled, and `Settle` finishes it.
* **WorkflowJournal** (in `ActionLayer_proofs`): `JournalTypeOK`, `HeldIsStored`, `StepsAreTransitions` and the
  refinement `ImplementsHistory`. The invariant says the stored version never goes back and a version is stored once
  (`Durable`), and that a client's next state is one allowed transition ahead of the state it holds, which was stored
  (`ClientOK`). So a filter on the version alone, which is what MongoDB checks, still makes the write a legal
  transition of *this* record.
* **ChipLedger**: `TypeOK` (no balance is negative), `LockedCovered` and `BalanceExplained`. The invariant says of
  each call between read and write that either its view is the account, or the account will be marked overwritten when
  it writes. `BalanceExplained` speaks of accounts at rest and says nothing while a call stands between its write and
  its event; the invariant says it of every moment: balance minus what the events sum to is what the calls that have
  written and not recorded still owe, a sum over the finite set of calls (`Explained`).
* **EventDelivery**: `TypeOK`, `OncePerId`, `ReportComplete`. That calls of an id run one after the other is not
  inductive, because a call knows only the one before. The invariant says that the calls of an id form a chain in the
  order they were made, whose last is in the map as long as it is not done, so that all calls before a running one are
  done. Only the running call then touches what was delivered, and *handled once* is: handled as often as delivered
  says.
* **DareTurns**: `TypeOK` and `GameIsWatched`, for any roster, rounds, restarts and awaiting handlers. Removing a player
  and advancing the turn call each other, so neither has a lemma without the other; their contract is `Follows` (a
  removal leaves the turn armed, or the same player's turn as it was) and `AdvancesWell` (advancing leaves it armed, or
  the game over). It is proved for `AdvancedAmong[k]` among `k` players, by the least number for which it would fail;
  that the recursive functions exist is proved the same way, because the provers know them only as `CHOOSE`.
  `GameIsWatched` is not inductive alone: the invariant adds that the game and the snapshot are well-formed tables
  (`Sound`: at least two players, each once, the index at one of them, decisions with their dares), since a restart
  resumes the snapshot and a removal must not leave the index beyond the order. Every action then keeps the current
  player's watch, or takes it away and ends that player's turn. `AdvanceCallsItself` says that the depth `Len(Roster)`
  restricts nothing: what the model computes satisfies the equations of the code, in which the inner call is
  `advanceTurn` itself. It is proved along the same contract, which keeps every inner call among fewer players, where
  two versions of `advanceTurn` are alike (`AdvanceAlike`).
* **KidnappersSession**: `TypeOK`, `AuditsTellHistory`, `IdleIsStored`, `BehindHasReason` and the refinement
  `ImplementsHistory`. Audits and memories are prefixes of the stored sequence of operations, a version is the length
  of its prefix, and the operation that runs has the object exactly one ahead of the state it will restore. So a write
  that finds its version appends to what the object read.
* **KidnappersGame** (in `KidnappersGame_proofs`): `PhasesKeepApart` and the refinement `ImplementsNights`. The
  invariant adds that the snapshot is valid, that whoever is captured has a progression, that nobody has one when the
  game is over, and how many suspicions there are while votes are taken. Each command is one abstract step or none.
* **KidnappersCaptures** (in `KidnappersGame_proofs`): `ServiceTypeOK` and `BoundAreCaptured`, for any number of
  chains at once. `ServiceRefines` shows that the game that is served is a game, so that its invariant holds beside
  the chains. `BoundAreCaptured` is about players at rest; the invariant (`Sides`) says of every moment that a captive
  who is not upset is bound or about to be, and nothing frees them, and that anybody else is free, or a chain has yet
  to read what they wear, or is removing at least that, and nothing binds them. So the order of the calls of several
  chains does not matter, a retry that reads anew finds what is left, and a capture or release that overtakes nothing
  brings a player to the right side whatever state they were in (`AskedOK`).
* **ReleaseWorkflow**: `TypeOK`, `SingleRun`, `ParoleMeansStripped`, `OwnerLocksKept`. The second half is conditional
  on no `irregular` step: at most one thread is busy and owns the session (`OneBusy`, `BusyOwns`), the active run is
  that thread's, a session that reached its cooldown does not go back (`PastStays`), and the timer that is about to
  write the end of a cooldown has read that very session (`WriteKnows`). `ParoleMeansStripped` needs none of it: a run
  that is about to store its cooldown has verified the strip (`CoolIsStripped`).
* **RouletteTable**: `TypeOK`, `BetsHonoured`, `SpinComes`. The invariant relates the clock and the wheel (`Timing`:
  nothing is scheduled while the wheel turns), where each bet is (`Whereabouts`: in one place), what was paid
  (`Payments`: during a settlement a bet on the table is either due or paid, otherwise unpaid), and the round
  (`RoundsOK`: the one on the table is not settled, unless it has no bets). It holds at all times, because the parts
  name the upsets they do not survive. The odd case is a spin that fails after paying some bets: they are paid and on
  the table, and are not paid again because the round stays settled and no spin of it is let through (`Stuck`).

Only model-checked: liveness and everything with ENABLED (`WorkEnds`, `SessionsEnd`, `GameEnds`, `PublishEnds`,
`OperationEnds`, `Rests`), and of `ImplementsCharacterWork` the fairness that `CharacterWork` promises. Every invariant
of a passing run is proved, and so is every refinement but for fairness.

## Not modelled

Containment and position handling of the release, its removal journal, `dispose`; chip scores and XP, the
winnings-based lock amount, `spendChipsToEscape` (nothing calls it), bondage items themselves; `list` and
`restoreActive` of the journal (reads) and index creation; the dare lobby, the effects of dares, binds and winner, the
reminder, the dressing blocks; `publish` and `clear` of the bus; outcome statistics, `recoverTerminalSession`, stale
sessions and the retention of old records of the kidnappers game, its experience points, captures in cages or in the
kennel (production binds), and `shutdownAll`, by which a stopping process aborts its session objects in memory and
stores nothing (`main.ts:983`); numbers, amounts, roles and the inventory of the
wheel, blackjack, forfeits and cocktails of the casino; narration, logging and formats everywhere.

By far the largest part of the repository's lines is data and third-party definitions (`src/src/bcdata/`, the assets
of the chat server: no behaviour), and the hub games, an older bot kept beside this one. Room features that are a few
sequential rules over tile triggers and timers (cages, showers, beds, windows) have little that interleaves. The
connector mirrors a remote room over a socket; what it can do to the modelled parts (lose the connection, report a
departure, answer late) is in their own actions. Effects and managed locks are pure rules on one item. Each
component's reason is in `PROJECT.json`.

Hazards that were seen and are in no model: two release requests that both pass the checks before either stores its
session (`releaseWorkflowSystem.ts:134`), a resume of a session that has just ended (586), a cooldown whose read
rejects and is not retried (557); chips unlocked by the removal of one of two items (`crossSystemSubscribers.ts:164`);
the table of recent operations at its limit (`communication-service.ts:171`); an old `finally` that removes a newer
entry (`timerManager.ts:53`, `idempotentMonitor.ts:76`); a write that goes back over a compare-and-set
(`unifiedCharacterStore.ts:3716`), an item that was pushed before its event failed (1667); an execution recorded
before its outcomes (`locationEventSystem.ts:344`); a conflict that is only collected while the restraints are on
(`bunnyPunishmentService.ts:518`); a turn whose database call rejects or never returns (`dare.ts:948`, 1375, 1515), or
an outfit whose capture rejects when the game is started (655): `GameIsWatched` and `GameEnds` are about a database
that works; two overlapping `finishCooldown` of one session (`releaseWorkflowSystem.ts:546`, started anew at 585); a
write whose acknowledgement is lost, in `persistSession` (619) and in the chips' `updateOne`
(`unifiedCharacterStore.ts:1172`), where the models have rejections without effect; a command of the kidnappers game
that waits in the queue until a later turn, and whose `pendingCapture` is that of another player
(`kidnappersGameCaptureService.ts:71`).

The properties are conditional where the code is: `OwnerLocksKept` holds until a step is `irregular` and
`GameIsWatched` of a database that works, as their comments state; `Rests` survives only the upsets that its comment
lists; and `LockedCovered` and `BalanceExplained` exempt accounts that were `overwritten` or `unrecorded`, so the lost
updates and the repeated locks of the hazards are named by them and not excluded.

## Plan

What would come next, in this order:

1. Location events, composed with `EventDelivery`: the record of an execution, its outcomes and a crash between them.
2. `BunnyPunishment`, composed with `WorkflowJournal`; `RemovalJournal`, refining the strip of `ReleaseWorkflow`.
3. `AppearanceAction` (a confirmation against late answers), `TimerManager`, blackjack beside `RouletteTable`.
4. Failed database operations and the lobby in `DareTurns`; keypad decisions as operators.
5. Proofs: of the modules above, as they are written; what is left of the present ones is liveness.
