# Verification of OpenCrawlEngine

OpenCrawlEngine is a single-player role-playing game whose game master is a
language model. A C++ engine (`src/engine`) owns the game state; five C
libraries (`src/libs`) talk to the model, decode its replies, run its tool
calls, store the game and keep the API key; an ImGui front end (`src/app`)
draws snapshots of the game and calls the engine's methods.

This directory holds TLA+ models of the parts whose correctness depends on
order (threads, saves, crashes, streamed replies, long sequences of legal
calls), TLC configurations that check them on small instances, and proofs for
every value of the constants where the whole engine rests on the result.

Run inside this directory:

    tlc -config EngineTurns.cfg MCEngineTurns      # one of the runs below
    tlapm EngineTurnsProofs.tla                    # the proofs: one module ...Proofs
                                                   # each for eight of the components

## 1. The system

| Component | State | Operations | Talks to |
|---|---|---|---|
| Engine, UI side (`engine.cpp`) | `turn_in_progress_`, `reload_agent_`, `resolving_check_`, `state_`, ids, settings (under `state_mutex_`) | submit_turn, request_autofill, acquire_mount, generate_world, combat_action, combat_use_item, resolve_skill_check, apply_gm_tool, player_*, new_game, load_save, new_campaign, delete_*, set_*, cancel_turn, wait_idle, destructor | worker (slots `has_*_`, two condition variables, `cancel_`), store |
| Engine, worker (`worker_main`) | the live agent and client, the job in hand | run_turn, run_worldgen, run_autofill, run_combat, run_acquire_mount | agent, store, `state_` |
| oce_agent | message history, tool table | seed, run (chat, dispatch, repeat), last_text | oce_llm, engine callbacks |
| oce_llm, oce_http | SSE line/data buffers, tool-call table, usage, status | chat_stream, feed, abort | server, cancel flag |
| Combat rules and window | foes, log, guard, active; the frame drawn | attack, defend, flee, potion; foes' phase; start_combat, end_combat | worker job, a model call that picks the foes' moves |
| Inventory and levels | items, equipment, hp, energy, xp, points | equip, unequip, consume, allocate, tools that give, take, change | UI methods and tools |
| Businesses and time | clock, last collection, gold | set_location, add_business, collect | end of a turn, a button |
| World and saves' content (`tools.cpp`, `serialize.cpp`) | NPCs, factions, places, facts, assets, story | the game master's other tools; write and read each half | new_game, load_save, new_campaign, the constructor |
| oce_store | characters, campaigns, messages, active pair | upsert, load, list, delete, append; SQLite and in-memory | engine, both threads |
| Panels (`game_panels.cpp`) | the frame's snapshot, open windows, forms, two remembered numbers (`skill_base_seq_`, `last_autofill_seq_`) | one engine call per button; engage, roll, continue; suggest and apply | the engine's methods and snapshots |
| JSON, secrets, drawing | none that outlives a call | conversions | everything |

What is hard here:

* **Two threads.** A job owns `state_` from its claim until the flag is cleared,
  but methods test the flag in one critical section and act in another, and the
  worker saves *after* it cleared the flag.
* **Sticky signals.** A cancel flag written without a lock and cleared by some
  jobs only; notifications that are lost if nobody waits.
* **Saves without a transaction.** Two rows and the active pair, ids read
  between the writes, a crash between any two statements.
* **A partner that may answer anything.** The model's replies are arbitrary:
  tool calls in any number and order, none at all, cut anywhere.
* **Stale views.** The player clicks on a frame drawn before the worker went on,
  and the engine drops what it cannot take without a word.
* **Long sequences.** Fights, items and income are correct per call in the unit
  tests; what they keep over many calls is not tested.

For each component, what makes it correct:

* threads: one job at a time, nobody but the worker touches the game while it
  runs, no job is lost, shutdown ends, the agent asked belongs to the campaign
  played, a resolved check is narrated once and never armed again by that turn;
* saves: a row holds the game it is named for, is never taken back, and a
  completed save survives a crash; a campaign never outlives its character;
* agent: the conversation stays acceptable to the provider, a turn ends, and
  what is narrated is what this turn said;
* reply stream: what is decoded depends on the bytes and not on how the network
  cuts them; after a cancel nothing more comes;
* combat: foes, guard, outcome and `active` agree; the foe struck is the foe
  the player picked; a move is answered;
* sheet and income: nothing is lost or doubled over any sequence of calls;
* world: what was saved is read back whole, nothing is doubled, and nothing of one
  campaign or character gets into another's game;
* store: both backends are the same repository;
* panels: a button that is offered works, the story waits for a pending roll, and
  a pending roll never locks the player out.

## 2. Modules

| Module | Models | Lines up with |
|---|---|---|
| `TurnGate` | the promise of `turn_in_progress_`: accept, start, finish, close | abstract specification |
| `EngineTurns` | both threads; one action per critical section or unlocked write | `engine.cpp`, `oce_agent_run` as steps |
| `EngineTurnsProofs` | the theorems about `EngineTurns` | |
| `SaveProtocol` | save, load, new, delete, crash; one action per statement of the store | `engine.cpp` 602-812 |
| `SaveProtocolProofs` | the theorems about `SaveProtocol` | |
| `AgentLoop` | history, iterations, tool dispatch, narration of a turn | `oce_agent.c`, `run_turn` |
| `ReplyStream` | bytes to events to text, calls and status | `oce_http.c`, `oce_llm.c` |
| `AgentProofs` | the theorems about `AgentLoop` and `ReplyStream` | |
| `Encounter` | the promise of a fight | abstract specification |
| `Combat` | frames, clicks, the combat job, rules of a round, tools | `combat.cpp`, `run_combat`, `game_panels.cpp`, `tools.cpp` |
| `CombatProofs` | the theorems about `Combat` | |
| `CharacterSheet` | items, equipment, potions, xp, levels, points | `items.cpp`, `leveling.cpp`, `character.cpp`, `tools.cpp` |
| `Income` | clock, businesses, two collectors, the preview | `world.cpp`, `engine.cpp`, `game_panels.cpp` |
| `RulesProofs` | the theorems about `CharacterSheet` and `Income` | |
| `WorldLedger` | what the tools and jobs write into the game, the two serialized halves, and every call that writes or reads them | `serialize.cpp`, `tools.cpp`, `world.cpp`, `engine.cpp` |
| `WorldLedgerProofs` | the theorems about `WorldLedger` | |
| `Repository` | the promise of a store | abstract specification |
| `Store` | both backends side by side | `oce_store.c` |
| `StoreProofs` | the theorems about `Store` and that it is a `Repository` | |
| `GamePanels` | frames, windows and clicks over the engine's gate | `game_panels.cpp`, the methods' tests in `engine.cpp` |
| `GamePanelsProofs` | the theorems about `GamePanels` | |
| `MC*` | small sets for TLC | |

How state and actions correspond:

* `EngineTurns` names its variables after the fields (`turnInProgress`,
  `reloadAgent`, `resolvingCheck`, `hasJob` for the five `has_*_` flags, `stop`,
  `cancelFlag`) and adds program counters `upc` and `wpc`. A method that takes
  the mutex twice is two actions (`Claim`, `Enqueue`; `RollCheck`, `SaveRoll`,
  `ClaimResolution`; `CheckGmTool`, `ApplyGmTool`). A method whose early return
  is taken changes nothing and is no action. Of the game it keeps what control
  reads: the campaign, an armed check, an active combat. `asked`, `resolution`
  and `outcome` are history that only properties read.
* `SaveProtocol` abstracts a half of the game to *whose* it is and *how many
  changes* it has seen. The player calls whenever the UI thread is free, also while
  the worker has a job or saves: the flag is cleared before the worker's save, and
  the reads and deletions of the store do not look at it at all. Most such meetings do
  no harm. The history variable `crossed` collects, by kind, what has met the worker:
  `change` (a synchronous method), `switch` (`new_game`, `load_save`, `new_campaign`
  taking another game up), `read` (their reads of rows before the lock), `delete`.
  Claiming a job is no kind: it is harmless. `Meets(kind)` records and restrains
  nothing, and each promise names the kinds that can break it, so that it says both
  what the program keeps and what it does not.
* `AgentLoop` keeps a history of lines (role, call ids) and models the model as
  a choice; the `Window` of primed lines and the seeded combat outcome are part
  of it. The lines the game itself writes into the story (income, `TellPlayer`) are
  primed as `system` lines.
* `ReplyStream` keeps bytes as parts of events, not characters. A chunk is any
  prefix of what is still to come.
* `Combat` keeps foes by name, so that "the foe the player picked" can be told
  from "the index the player clicked". Dice and blows are small sets.
* `CharacterSheet` counts every item, experience point and attribute point that
  ever came and went in history variables, and the invariants compare.
* `WorldLedger` names every entry of a list by the game it was made in and a number,
  so that an entry that strays into another game, or comes twice, can be told. What a
  reader clears (the inventory, the story), replaces (texts, map entries) and only adds
  to (all other lists) is as in `serialize.cpp`; a call and its save are one step, since
  `SaveProtocol` takes saves apart.
* `Store` gives each call to both backends at once; for each kind of call the
  in-memory backend is checked against `Repository`, and SQLite's rows against it.
  A loop over an array and an `ORDER BY` are the same operator, `InOrder`: what is kept
  under numbers, in their order.
* `GamePanels` keeps the snapshot of the frame being drawn (`frame`), which window is
  modal, and the panel fields that control reads. Each button the engine may refuse is
  an action: its guard is what the panel tests *in the snapshot*, and the call then
  tests the engine *as it is*: `Made(widget, taken)` records which way it went.
  ImGui reports one active widget a frame and clicks nothing under a modal window
  (`ClickIn`). Of the game it keeps an armed check, an active combat, the number of
  the last roll and the last suggestion. `Gate!Accept`, `Gate!Start` and `Gate!Finish`
  are the engine's side.

Interactions: `EngineTurns` instantiates `TurnGate`, `Combat` instantiates
`Encounter`, `Store` instantiates `Repository`. `GamePanels` instantiates `TurnGate`
with variables of its own and uses of the engine only what `EngineTurns` is proved to
implement (theorem `Refinement`) and checked to keep doing (`ImplementsFairGate`). `SaveProtocol` uses the store as
`Repository` promises it, and takes from `EngineTurns` that a job and the UI's
guarded methods exclude each other. `AgentLoop` refines what `EngineTurns` shows
as `ModelReply`, `DispatchTool`, `CommitTurn`; `ReplyStream` is one `BeginChat` to
`ReplyDone` of `AgentLoop`. These last links are by construction, not checked.

## 3. Runs

Every run explores its instance completely; `save_protocol` alone has a `CONSTRAINT`
(`NoSwitchMet`): it does not follow states in which a switch has met the worker. Since
`crossed` only grows and each property of that run is vacuous once `switch` is in it,
nothing is lost; `save_overlap_cross_write` runs without it.

| Run | Instance | Shows |
|---|---|---|
| `engine_turns` | two campaigns, one setting, two iterations (632 464 states) | safety of the two threads, progress, refinement of `TurnGate` with its fairness |
| `save_protocol` | two characters, two campaigns, one change per half (3.86 million) | which calls, on meeting the worker, can mix rows, orphan a campaign, leave the store behind, lose a save or a change; crashes anywhere |
| `save_overlap_cross_write` | the same, to its counterexample | **violated**: a row holds another game |
| `agent_loop` | two tools (one terminal), two iterations, two calls kept of three offered, two turns (658 520) | the conversation, terminal tools, narration, termination |
| `agent_loop_stale_narration` | the same | **violated**: a failed turn narrates an earlier one |
| `combat` | two fights of up to three foes, three rolls, two blows (163 968) | foes, guard, targets, refinement of `Encounter` and its fairness |
| `character_sheet` | five kinds of item, three at a time, four experience points (144 246) | conservation of items, experience, points |
| `income` | three businesses, a day of three minutes, a cap of eight (534 084) | every day paid once (and all of them while no collection reaches the cap), the preview |
| `reply_stream` | three scripts, chunks of up to eight bytes, two table slots (964) | chunking, whole calls, cancel, return |
| `world_ledger` | two characters, three campaigns, one NPC, faction and place, four changes (1.80 million) | saves read back whole, nothing doubled, the halves stay apart |
| `store_agree` | three characters, two campaigns, two texts, two messages (34 010) | both backends agree and serve |
| `game_panels` | two rolls of the dice, one suggestion (94 416) | offered buttons work, turns wait for rolls, pending rolls come up; no deadlock |

Why the bounds are enough:

* *Campaigns and settings* are compared and copied, never ordered: two tell
  "the same" from "another". The safety part of `engine_turns` is proved for any
  number of each; the run has one setting because the liveness checks cost four
  times as much with two.
* *Iterations*: the first, and the last that reaches the limit.
* *Changes per half*: one change makes an older copy distinguishable from a
  newer one; two characters and two campaigns let a game be loaded, made or deleted
  that is not the one being saved. `SaveProtocolProofs` holds for any number of each.
* *Three foes* are the fewest where felling one leaves a list whose indices have
  moved and are still in range; two fights let a click on a frame of the first
  land in the second.
* *Three items at a time* cover a held one, a worn one and one between them;
  *four points of experience* cross two levels at once.
* *A day of three minutes* has a remainder of one and of two; the cap is reached
  by one collection and by a sum.
* *Chunks of eight bytes* span one line end, a whole line, and two lines; the
  table of two slots has an index past it.
* *Four changes* are a new game, two entries and a switch, in any order with saves,
  loads and restarts, which are not counted; three campaigns let one be loaded, one
  be left and one be new.
* *Three rows* are what a delete from the middle by moving the last needs.
* *Two rolls* are one before the Skill Check window is opened and one that is its
  own, or a blow of a fight in between; *one suggestion* is asked for, awaited and
  applied, and a second request is refused while it runs. The theorems hold for any
  number of either. Clicks, frames and jobs are not counted.

Every module has a type invariant. The run of `EngineTurns` lists it;
the others hold in the same instances, and those of the modules with proofs are proved.

`CHECK_DEADLOCK FALSE` stands where the model really stops: bounded fights,
items, time, changes, messages, and a reply that has been returned. `EngineTurns` ends in an
explicit `Closed` step, so a deadlock there would be found.

### Fairness

`EngineTurns` assumes that both threads are scheduled: weak fairness of a call in
progress (`UiContinue`) and of the worker (`WorkerStep`). The player's calls are
not fair. A model call is one step because the transport has a total timeout
(120 s, `oce_http.c`) and thus ends; a reply holds at most sixteen calls, so the
worker leaves the dispatch of tools (`LeaveTools`), which is an action fair on its own
because `DispatchTool` may repeat. `AgentLoop` assumes only that the run in
progress goes on, `Combat` only that the worker continues the job it runs,
`ReplyStream` only that the transport makes progress or times out.

`GamePanels` assumes that the main loop keeps drawing (`LoopRuns`, `main.cpp`) and that
the gate's jobs start and end (`JobsEnd`), which is `ImplementsFairGate` of
`EngineTurns` while the program is not closing. `PlayerGoesOn` is an assumption about
the player: who is offered a pending roll's button in ever new frames presses it some
time. It is strong fairness because a click needs a frame, and frames come and go. It
says nothing of a button that is not offered, which is what `RollsComeUp` is about;
the property also assumes that the player comes back from the New Game dialog
(`GameShown`), behind which nothing can be clicked.

## 4. Proofs

`EngineTurnsProofs` proves, for every non-empty set of campaigns and settings and
every positive iteration limit (`ConstantsAssumption`, which the runs evaluate):

| Theorem | Says |
|---|---|
| `Invariance` | `Spec => []IndInv` |
| `TypeCorrect`, `OneJobAtATime`, `CheckedFlagStays`, `AgentStaysCurrent`, `CancelsAreMeant` | the invariants of the run |
| `WakeupsArrive` | nobody sleeps through a notification: the safety behind the run's liveness |
| `CombatIsFound` | a combat job finds the fight it was accepted for |
| `WorkerIsOnlyWriter`, `ChecksAreSuppressed` | the action properties of the run |
| `Refinement` | `Spec => ImplementsGate` |

The argument. None of the invariants is inductive alone. The core is `OneJob`
with `CheckedFlagHolds`: `turnInProgress` says exactly whether a job is in the
caller's hands (`InCall`), in a slot (`InSlot`) or with the worker (`InService`),
and it is in one of the three at most; and where the UI thread has read the flag
as clear and released the mutex, nobody but the UI thread can set it, so it is
still clear. With that, each other property follows the job through the three
places, and needs a conjunct that says what is true on the way:

* `ResolutionTracked`: where the "this turn narrates a check" flag is between
  `resolve_skill_check` and the turn (claimed, in the field, in the worker's local),
  which is what `CheckSuppression` needs;
* `AgentBeingBuilt`: between reload, client and frame the agent is the one for the
  campaign played; no campaign can be switched because the flag is up;
* `CombatRequested`: a claimed combat job still finds the combat, since no tool
  runs between the claim and the job;
* `CancelMeant`, `FreshVerdict`: a flag or verdict seen by a turn that has cleared it
  was set by a cancel since its claim.

The preservation lemma of each conjunct has one step per action. The refinement
uses `IndInv` to show that a claim is an `Accept`, a dequeue a `Start`, the clearing
of the flag a `Finish`, and everything else a stutter.

`GamePanelsProofs` proves, for all bounds (`PanelsAssumption`, which the run evaluates):

| Theorem | Says |
|---|---|
| `PanelsInvariance` | `Spec => []PanelInv` |
| `OfferedClicksAreTaken` | the run's `OfferedIsTaken` |
| `TurnsWait` | the run's `TurnsWaitForRolls` |

The argument. `OfferedIsTaken` speaks of what the engine found and the guards of what
the snapshot showed, so the invariant must tie the two: `IdleFrameTrue` says that a
frame which showed an idle engine and has not been clicked is still true of the game:
nothing but a click gives the worker something to do, and a frame handles one click.
(A frame that showed a *busy* engine may be wrong by the time it is clicked; the panels
disable what they draw from it, but for the buttons of `Ungated`.) `BoundsHold` keeps a
roll for the armed check and a suggestion for the one in progress, so that the counters
stay typed. Each call has a lemma (`ClaimStep`, `ResolveStep`, ...) that follows it both
ways, taken and refused, and each window a lemma with one step per button. `TurnsWait`
needs the invariant only in `TurnStep`: the two clicks that ask for a turn were drawn
without a pending roll, and what they were drawn from still holds.

`CombatProofs` proves, for any size of a fight, any dice and weights and any number of
fights, levels and potions (`CombatAssumption`, which the run evaluates):

| Theorem | Says |
|---|---|
| `FightInvariance` | `Spec => []FightInv` |
| `FightsHaveFoes`, `GuardIsSpent` | the run's `FightHasFoes` and `GuardSpent` |
| `TargetIsMeant` | the run's `TargetMeant` |
| `Refinement` | `Spec => ImplementsEncounter`, the safety part of what the run checks |

The argument. That an index still means the foe that was seen spans a frame, a click, a
claim and a job. `FrameTrue` carries it from the frame to the click: an enabled frame
shows the fight as it is, since only a job changes the list and a click on any of its
widgets ends the frame. `AimMeant` carries it from the click to the blow: tools run in a
story turn only (`JobsMatch`: the flag is up exactly while a job runs, and a move is
made in a fight). `FoesStand` says of the list what `FightHasFoes` says, and that names
differ, which the refinement needs to tell "one foe less" from "one name less". The
lemmas `Wounded`, `Felled`, `NewFoes` and `Answered` say what each change of the list
leaves standing; they and the library's facts about sequences (`Removed`) are all that
is used of the data. How much damage the foes do is never opened up: no safety property
depends on the sum.

`SaveProtocolProofs` proves, for any characters, campaigns and number of changes
(`StoreAssumption` of `SaveProtocol`), with a crash possible between any two statements:

| Theorem | Says |
|---|---|
| `TypeCorrect` | types |
| `SavingInvariance` | `Spec => []SaveInv` |
| `RowsAreTheirOwn` | the run's `OnlySwitchesMixRows`: rows are their own until a `switch` meets the worker's save |
| `NoCampaignIsOrphaned` | the run's `OnlyDeletesAndSwitchesOrphan`: no orphan until a `delete` or `switch` meets the worker |
| `StoreCatchesUp` | the run's `OnlySecondSavesLag`: the store is current between calls until a `change` or `switch` does |
| `SavedStays` | the run's `OnlyCrossingsLoseSaves`: what was saved stays until a call of any of the four kinds does |
| `CharacterNeverLoses` | the run's `OnlyCrossingsTakeBack`: no loss of a change, up to the same |
| `RowsOnlyAdvance` | `OnlyCrossingsRegress`, which no run lists: rows advance, up to the same |

There is no hypothesis on the caller. The theorems are about the program as it is, and
name in their conclusions the kinds of calls whose meeting with the worker the code does
not withstand; section 5 says what happens then. The kinds are not wider than need be in
the first three and in the fourth: TLC finds each of the raw predicates
(`RowsHoldTheirOwn`, `NoOrphanCampaign`, `StoreIsCurrent`, `SavedIsDurable`) violated
when only one of the kinds excepted has met the worker, whichever it is. In the last two
it finds that with `change`, `delete` or `read` alone (`CharacterNeverLoses`) and with
`change`, `switch` or `read` alone (`RowsOnlyAdvance`); for the fourth kind it found no
violation in the instance of the run, and the theorems do not claim it.

The argument: the invariant is in layers, and a step keeps a layer unless its call adds
one of the layer's kinds to `crossed`. `RowsInv`: while the game is not switched under
it, a save (each of two, if both threads save) writes halves of the game in memory under
that game's ids, and what a call has read belongs to the ids it was read for.
`OrphanInv`: a save that writes a campaign has written its character, and a deletion has
listed the campaigns there are. `CurrentInv`: with one save at a time, a save writes the
game that is in memory, by how far it has come (`SaveFollows`), except for the line of a
turn claimed meanwhile, which that turn's end saves. `AheadInv`: no row is ahead of the
game that is played (`MemoryAhead`), which makes each overwrite an advance, and what a
call has read is still there when it acts (`CallReads`). `InTurn`, which needs no
condition, says that each thread does one thing at a time, and that the worker takes the
next job up only when it has saved the last (`Working`, after `worker_main`).

`AgentProofs` proves of `AgentLoop`, for any tools and limits (`AgentAssumption`):

| Theorem | Says |
|---|---|
| `AgentInvariance`, `TypeCorrect` | `Spec => []AgentInv`, types |
| `ConversationIsWhole`, `TerminalEnds` | the run's `CallsAnswered` and `TerminalToolEnds` |
| `NarrationIsOwn` | the run's `AnsweredTurnNarratesItself` |

`CallsAnswered` speaks of the times at which the model is asked; while tools are
dispatched it is false, so `CallsInPlace` says what is true then: a call is answered in
its place, or its turn is still to come *at that place*. With `PendingBelongs` (what is
still to be dispatched is the end of one reply's calls) an answer that is appended lands
behind the call it is for. `LastReply` says that once the model has answered, everything
behind this turn's last reply is an answer of a tool, so that looking for the last text
through the whole history finds this turn's.

Of `ReplyStream` it proves, for any set of scripts, any size of the table of calls and
any size of the chunks (`StreamAssumption`; in a script the end marker, if there is one,
is the last event):

| Theorem | Says |
|---|---|
| `ReplyInvariance`, `ReplyTypeCorrect` | `ReplySpec => []ReplyInv`, types |
| `ChunksDoNotShow` | the run's `ChunkingIsInvisible` |
| `CallsComeWhole` | the run's `FinishedCallsWhole` |
| `CancelPrevails` | the run's `CancelStops` |

The parser is fed by a recursive function, and what it computes cannot be proved by
induction over the bytes as a whole (below). `At` says where a decoder is instead: so
many events are in, and so many bytes of the next. The events that are in determine what
the stream's state holds (`Taken`); the bytes of the next determine the parser's buffers,
by a table of at most seven rows (`LineAt`, `DataAt`). `ReadByte` shows that each byte
before the last moves the parser one row on and touches nothing else; `EventEnds` and
`EventTaken`, that the blank line hands over one event and brings the table back to its
start; `EventCancelled`, that after a cancel it stops the stream instead. `FeedChunk`
takes any number of such steps at once, by the least number of bytes at which it would
fail. Only then do the properties follow: the events that are in are those whose blank
line has arrived (`EventsIn`), and the end marker, once seen, means that all are.

`RulesProofs` proves of `CharacterSheet`, for any kinds of item, any table of prices longer than the
experience given, and any sizes (`SheetAssumption`):

| Theorem | Says |
|---|---|
| `SheetInvariance`, `TypeCorrect` | `Spec => []SheetInv`, types, hp and energy in their bounds |
| `ItemsStay` | the run's `ItemsConserved` |
| `LevelsAdd` | the run's `LevelsPaidFor` |

Items are followed by their ids: `IdsApart` (no two places share one) and `IdsAccounted`
(all places together hold those made and not gone). Each operation has a lemma that says
where it moves an id (`ItemTakenOut`, `Equipped`, ...). The levels need the running total
of the price table and the first level that cannot be paid; both are facts about a
function defined by recursion over numbers. They are proved by the least-number
principle (`LeastNumber`, from the library's well-foundedness of `<`): the least number at
which a fact would fail has a predecessor at which it holds.

Of `Income` (`IncomeSpec`; the module names its parts so that both can be extended here)
it proves, for any number of businesses, any incomes, length of a day, cap and minutes a
tool may add (`IncomeAssumption`):

| Theorem | Says |
|---|---|
| `IncomeInvariance`, `IncomeTypeCorrect` | `IncomeSpec => []IncomeInv`, types |
| `DaysArePaidOnce` | the run's `DaysPaidOnce` |
| `PreviewIsWhatIsPaid` | the run's `PreviewIsPaid` |

`DaysPaidOnce` compares the gold with a product and a quotient that span a business's
whole life. The invariant cuts that life at the last collection: it lies a *whole* number
of days after the purchase (`WholeDaysOn`), so the days earned are those settled and those
outstanding (`DaysSplit`; with a partial day forfeited, the mutant, they are not), and a
collection moves the cut to another such instant (`DaysCollected`). `GoldIsSettled` then
follows the gold: the earnings of a business only grow, so if none has met the cap now, no
payment ever has. The sums over the businesses are running totals of sequences; that they
are monotone, additive and grow by what is appended (`SumMonotone`, `SumAdditive`,
`SumAppend`) again rests on `LeastNumber`. `ShownIsDue` ties a frame to the click: no
sum is shown while a job runs, and nothing but a job or the click itself changes it.

`WorldLedgerProofs` proves, for any characters, campaigns, folk, factions, names and
number of changes (`LedgerAssumption`):

| Theorem | Says |
|---|---|
| `LedgerInvariance`, `TypeCorrect` | `Spec => []LedgerInv`, types |
| `SavedIsReadBack`, `NothingTwice`, `HalvesApart` | the run's `SavedReadsBack`, `NothingDoubled`, `HalvesStayApart` |

The game is a good half of its character and a good half of its campaign: its lists hold
what was made for that character or campaign, once, and its maps are keyed by the ids of
what they hold. The difficulty is that reading a row *adds* to most lists, so that a row
is harmless only if it is read into a fresh state; `RowsGood` therefore says of each row
not what it holds but what it becomes when read into one, and every reader is shown to
start from one. `GameReadsBack` follows each field through writing and reading; for the
maps, which are written as arrays in some order, `MapReadsBack` shows that reading
puts back the map that was there, whatever the order was.

`StoreProofs` proves, for any ids, owners, texts and number of messages
(`StoreAssumption` of `Store`):

| Theorem | Says |
|---|---|
| `StoreInvariance`, `TypeCorrect` | `Spec => []StoreInv`, types |
| `BackendsAgree` | the run's `BackendsHoldTheSame` |
| `Refinement` | `Spec => MemoryServes`, all of what the run checks |

`Kept` ties an array to a table: the same rows, and no two with one id, so that moving the
last row into the gap of a deleted one loses nothing (`DeleteKept`) and a row is found if
it is there (`RowFound`, `RowLoaded`). For transcripts the two backends number messages
differently: by place in one array that all campaigns share, and by
`MAX(idx) + 1` within a campaign. `Places` shows that the numbers of a finite set and
the places of a listing are in bijection; `ListGrows`, that a larger number goes to the
end and leaves the rest where it is. Both backends append under a number larger than the
campaign's others (`MemGrows`, `SqGrows`), so both listings grow by the same text. The
refinement maps each call to the one action of `Repository` it asks for.

Only model-checked: liveness under fairness and the fair part of the refinements
(out of the prover's reach, like `ENABLED`): `ShutdownCompletes`, `WaitReturns`,
`TurnsEnd`, `CallReturns`, `RollsComeUp`, `ImplementsFairGate`,
`ImplementsFairEncounter`. The two runs that refute a property (section 5) have nothing
to prove. Induction over data is out of reach as well: the library's induction theorems take an operator as a
parameter, which the provers cannot instantiate. Where a fact about numbers sufficed,
the least-number principle stood in for it, as in `RulesProofs` and `AgentProofs`.

## 5. What the code does not keep

Two runs show a statement of the repository that the code does not keep; each
is a finding in `PROJECT.json` with the lines:

1. **A row that holds another game** (`save_overlap_cross_write`): `run_turn` clears
   the flag, then saves; `save` reads the ids after it released the mutex. A game
   switched in between gets the old one's text under its ids.
2. **Yesterday's words** (`agent_loop_stale_narration`): a turn that fails or is
   cancelled before its first whole reply appends the last reply of an earlier
   turn to the story once more.

Smaller ones of the same roots, which the definitions named let anyone
reproduce by adding them to the configuration:

* `NoStrayCancelRequest` in `EngineTurns` fails with two settings: only turns, world
  generation and combat clear the cancel flag (`engine.cpp:1042`, 1124, 1333), and
  `structured_call` passes it on (1033), so an autofill or mount request after a
  cancelled turn is aborted at once;
* `OutcomeReachesGameMaster` in `EngineTurns` fails: the outcome of a fight is seeded
  into an agent that may not exist or is rebuilt before the next turn
  (`engine.cpp:1312`), so the game master narrates on without having heard of it;
* an erased cancel: a job clears the flag when it starts (`engine.cpp:1042`), so a cancel
  that came between the claim and the start is forgotten, the destructor's (158) included. `ShutdownCompletes` holds, but the destructor then waits for the whole turn;
* calls that meet the worker's save, or a job (the properties named lose what they say
  when their condition on `crossed` is dropped):
  a `change` or `switch` saved while the worker saves lets the older copy land last
  (`OnlyCrossingsRegress`, `StoreIsCurrent`, `SavedIsDurable`);
  a `read` before a turn ends is stale when it is taken up: `new_campaign` reads the row
  at `engine.cpp:762` and tests the flag at 767-770 (`OnlyCrossingsTakeBack`,
  `SavedIsDurable`);
  a worker's save that has written the character's row before `delete_character` deletes
  it, and writes the campaign's after the campaigns were listed (793-799), leaves a
  campaign whose character is gone (`NoOrphanCampaign`);
* `DeletedStaysDeleted` in `SaveProtocol` fails without any such meeting: deleting
  the character being played leaves it in memory, and the next save writes it back;
* `OnlyWholeCalls` in `ReplyStream` fails: calls are emitted before the transport's
  status is looked at (`oce_llm.c:438`), so a connection lost in the middle of a
  call's fragments hands on a cut call. When the early close counts as success the
  agent runs it;
* three of `GamePanels` fail with `MaxFills = 2`. `AskedIsAwaited`: the UI is to "detect
  and apply a new suggestion" (`snapshot.hpp:29-31`), but a press of "Suggest
  premise" in a frame drawn just before the last answer arrived is accepted with the old
  number; the next frame takes that last answer for its own and the new one is never
  applied. `PremiseKept`: a request
  that fails or is cancelled publishes an empty text, which replaces what the player
  wrote (`game_panels.cpp:1071`). `DiceAreTheChecks`: the Skill Check window takes any
  newer roll for its own (1926): an attack's, or, when it was left open, that of the
  check before; it shows that roll under the new check's heading with "Continue". The
  check stays armed and its prompt comes back, so only the picture is wrong
  (`RollsComeUp`);
* by the same reading, "Quick Start", "Load" and "Create campaign" close their windows
  although the engine, busy, refused them (`game_panels.cpp:1115`, 1548, 1526): they are
  in `Ungated`, the set `OfferedIsTaken` exempts.

## 6. Not modelled, and why

* The codecs of single structs, JSON, prompts and other text: each field is written
  and read by its name; what the readers of the halves clear, replace and add to is in
  `WorldLedger`.
* Drawing: layout, themes, icons, and the windows that only show a snapshot or a list
  fetched when they were opened. Settings, deletes and the forms of the campaign and
  game-master windows are one call each. What becomes of a fight's target or an income
  button over stale frames is in `Combat` and `Income`. Closing the application's window
  is `EngineTurns`' destructor, not an action of `GamePanels`.
* What arguments a tool rejects: a rejected call changes nothing.
* The arithmetic of a roll, the item catalogue, class tables, the mount roster.
* Memory exhaustion and I/O errors of the store: a call that fails changes nothing.
* Spurious wakeups: the predicates are tested again, so one is a step back to the
  same test.
* Clashes of random six-digit ids; widths of integers (`gold` is an `int`).
* Data races on the ids and the API key are modelled as a read of the old or the
  new value; on the strings themselves more could happen.

## 7. Plan

Done: the inventory, the modules of section 2 in that order, and the proofs about
`EngineTurns`, `GamePanels`, `Combat`, `SaveProtocol`, `AgentLoop`, `ReplyStream`,
`CharacterSheet`, `Income`, `WorldLedger` and `Store`.

Next, in this order:

1. `SaveProtocol` with the constructor's two-step restore split further, and a
   composition of its rows with `Store`'s in-memory backend.
2. The token meter (`total_tokens_` falls back when the client is rebuilt), and the
   composition of `GamePanels` with the combat window's frames of `Combat`.
