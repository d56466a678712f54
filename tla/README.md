# Lorebound in TLA+

Lorebound is a single-player story game.  A Next.js page (`frontend/`) sends
what the player does to a FastAPI backend (`backend/app/`); the backend
resolves it against the state of the campaign, asks a language model for the
words, and keeps everything in one SQL database.  A separate narrative engine
(`engine/`) holds a long-form world in a store of its own and is piloted by the
backend's `modules/engine`.  These modules model the parts whose state has to
survive retries, crashes, restarts, repeated beats and long sequences of legal
calls, check them with TLC on small instances and prove the most important
results with TLAPS for every instance.

## 1. Inventory

| Component | State it keeps | Operations | Interacts with |
|---|---|---|---|
| Play session: `play/session.py`, `play/router.py`, `play/models.py` | `play_states` (one JSON row per campaign), `play_actions` (idempotency ledger) | `/act` (two legs: call, throw), `/opening`, checkpoint | beats, saves, mirrors, page |
| Campaign and shelf: `campaign/*` | `campaigns.status`, `save_games`, `game_time` | create, restart, save, delete, restore, autosave | play session |
| Creation: `play/creation.py`, `character/*`, `app/create` | draft and sheet in the play state, `characters` rows, the stage a page shows | answer a stage, take a prebuilt hero, seal | play session |
| Beats: `play/engine.py`, `actions/*` | location, lead, clues, inventory, hit points, silver, npcs, feed inside the play state | route a text to a beat, resolve it, suspend at a check | scenes, checks, memory, narrator |
| Scenes: `story/scenes.py`, `story/saga.py` | scene records and counters inside the play state | ensure, enter, close, note a beat, diminish | beats |
| NPCs: `npc/*`, `memory/npc_memory.py` | attitudes, moods, memories inside the play state; `npc_memories`, `npc_relationships` | remember, move a meter, set and fade a mood, set a DC, mirror | beats, checks |
| Checks: `rules/*`, `actions/interpreter.py` | none | read free text, classify a throw | beats, combat |
| Narrator: `narrator/*`, `ai/*` | provider settings, call meter | build a prompt, call, validate, repair | beats |
| Combat: `combat/*` | combatants in memory | a turn, a cast, the end of a round, a death save, a rest | its own router |
| Progression, exploration, inventory, economy, history | rows of their own | level up, travel, buy, record | campaign |
| Engine bridge: `modules/engine/*` | connection row, campaigns, a lock each | connect, probe, create, one turn | pilot page, narrative engine |
| Narrative engine, turn: `pipeline.py`, `validate.py` | characters, leads, facts, relationships, chronicle, turn log | gather, prompt, narrate, validate, commit, correct, log | all below |
| Narrative engine, memory: `memory.py` | chronicle, saga levels, moods, facts | append, trim, close a session or an arc, fade, add a fact | turn |
| Narrative engine, prompt: `context.py` | none | plan a budget, fill the sections | turn |
| Narrative engine, providers: `providers/*` | the capability cache | probe, post with retries, parse a reply, ask again | turn |
| Pages: `frontend/*` | what the player sees; keys, held throws, the open chronicle | submit, throw, retry, open, save settings | backend |

What is hard here:

* every handler runs in a thread of its own, loads the whole state, may wait
  seconds for a model and writes the whole state back, with no lock and no
  version check;
* one request commits up to four times, so a crash leaves prefixes of it;
* answers get lost, the page gives up after 25 s and the player retries;
* a check splits one action into two requests, and the board may move between;
* restart and restore replace the board under tables that refer to it;
* the engine commits a turn row by row, an abandoned turn leaves rows, and the
  turn that replays it takes its cues from what was left;
* settings, boundaries and the open chronicle change while a call that was made
  under the old ones is still under way.

What makes each part correct is stated by its properties, at the end of its
module; `PROJECT.json` ties them to the lines where they could go wrong.

## 2. Modules

### The play session

`PlayBoard` is the live state as the persistence layer tells two states apart:
the number of beats, how often each player action is in it, and the flags the
handlers test.  `Chronicle` is what the session promises: one board, changed by
whole operations, and a shelf of pages the board stood on.  `PlaySession` is
what the handlers do: one request record per thread (the step it is at, the
state it loaded, the state it will store), one action per commit.
`MCPlaySession` names the sets of operations the runs allow.

| In the code | In the model |
|---|---|
| `play_states.state_json` | `row` |
| `save_games` snapshots, their `play` part | `saves` |
| `play_actions` with a response | `ledger`, a set of key and leg |
| `campaigns.status`, the player's `characters` row, `npc_memories` | `status`, `sheet`, `mirror` |
| the local variables of a handler | `req[r].base`, `.work`, `.at` |
| what the page holds for a key: nothing, a called check, the answer | `client` |
| `router.act`: load / `recall_action` / `ActEngine.act` / `store` / `autosave` / `campaign.status` / `remember_action` | `LoadAct` / `Replay`, `RecallMisses` / `CheckCalled`, `ThrowExpired`, `Resolve`, `NarrationFails` / `Store` / `Autosave` / `Settle` / `Remember`, `RememberRefused` |
| `opening`; the wizard; `restart_campaign`; the shelf | `LoadOpening`, `Narrated`; `LoadDraft`, `LoadCreation`, `ApplyCreation`; `LoadRestart`, `Shelve`, `Reset`; `CreateSave`, `DeleteSave`, `RestoreSave` |
| a process that is killed, a statement the database refuses | `Die` |

What the text of an action means is not asked here: `PlayBoard!Resolutions`
says only which changes of the board a beat may make, and the run `StoryRoutes`
checks (`BoardAllows`) that the beats of `StoryArc` stay within it.

### The story

`Arc` is what the mystery promises whichever beat moves it.  `StoryArc` is what
`ActEngine` does: one variable `tale` (the part of `PlayState` the beats test),
one action per handler, each ending in `AfterBeat`, which is the tail of
`act()`: `note_beat`, `story_boundary`, `_earn_inspiration`.  `MCStoryArc` names
the sets of beats of the runs.

A die is a free choice of outcome.  Memories, moods, meters and skill use are
kept by one bit per beat: *silent*, nothing new; *marked*, something was noted,
so the scene progressed; *warming*, a meter reached a warmer band, which earns
Inspiration.  Left out: prose, feed, clock, novelty counters and the anti-loop,
which only choose words; and which words name which beat, so any beat the place
lets through (`_route`) may be named at any time.

### The narrative engine

`DeltaRules` is what the validator makes of one proposed delta: refused,
clamped or let through against the running copy of the batch, then written
against the row that the commit reads again.  `EngineTurn` is one campaign:
`Orchestrator.take_turn` commit by commit behind the lock of the bridge, one
request record per thread.  `MCEngineTurn` names the deltas a run proposes.

| In the code | In the model |
|---|---|
| the player's `characters` row, an inventory entry, a status, `leads.stage`, `moods`, the current worth of the `relationship_ledger` | `world.rows` |
| `leads.history`, `world_facts` | `world.history`, `world.facts` |
| `chronicle.turn_id`, `turn_log.turn`, `telemetry.turn` | `chronicle`, `log`, `telemetry` |
| `_TurnContext`: the copies it moves, the facts of the batch | `req[r].copies`, `.new` |
| the verdicts of `validate`, the open transaction of `commit`, the keys already applied | `req[r].verdicts`, `.draft`, `.seen` |
| `bridge.take_turn` under `_campaign_lock`, `_next_turn` | `Unoccupied`, `NextTurn`, `Begin` |
| `narrate`, with its answer or a `ProviderError` | `Narrated`, `NarratorFails` |
| `validate`; `commit`: `BEGIN IMMEDIATE`, one `_apply` per verdict, `COMMIT` | `Judge`; `OpenTransaction`, `Write`, `Commit` |
| `_memory_updates`; the consistency scan | `Remember`, `FadeMood`; `Correct`, `Pass` |
| `_write_turn_log`, `_write_telemetry` | `WriteLog`, `Meter` |
| a process that is killed | `Crash` |

The narrator is free: any proposed delta, in any order, and prose that passes
the scan or not.  There is one row of every kind, since deltas on different
rows never meet.  Conflict and similarity of two statements are given relations.
A mood rests at zero.  A mood or the worth of a class of ledger rows that decays
comes to anything between itself and zero; the two classes that decay do so
apart, so a bond may drift outward while its parts fade.  A delta carries the
reason it was given, since that is part of the key (`_delta_key`) by which a
correction knows what has been applied already.  Left out: the resolution
of a target to a row (a delta that resolves to nothing is refused), the action's
own effects (they are deltas like the narrator's), the saga.

`Campaign` is what a turn promises however it is carried out: one world, and a
batch that is prepared out of sight (`TakeEffect`, one lawful delta at a time)
and becomes the world's whole (`Act`); then the turn is remembered (`Recall`),
the mood fades (`Fade`), the prose stands as it is or with one more batch
(`Settle`), the turn gets its number and the bonds fade (`Log`), and it is metered
(`Meter`).  An attempt may fail anywhere (`Abandon`): what was committed stays,
what was prepared is lost, the number is used again.  No delta takes effect twice
in a turn that goes through.  `Campaign` knows no threads, copies, verdicts or
second refusals: a delta is asked of the one draft it moves (`Lawful`).

`EngineTurn` implements it (`ImplementsCampaign`): `Current` is the request under
way, `PhaseOf` how far it has come, and the open transaction is the draft.
Before the transaction the draft is the world itself, so validating is no step
of the campaign at all; `InHand` is what the transaction has written, `Before`
what the first pass had applied.

### The parts that keep to themselves

Each of these modules is a machine of its own; what it shares with the others is
abstracted to what they read of it.  `MCParts` puts them side by side: a
behaviour moves one part and leaves the others where they started.

`EngineMemory`: the chronicle of the engine (a row per attempt at a turn), its
verbatim window, and the pyramid of digests over it, a commit at a time.

| In the code | In the model |
|---|---|
| `chronicle`, pinned `world_facts` | `chronicle`, `pins` |
| `saga_levels` of each level; `turn_log` | `sessions`, `arcs`, `campaigns`; `logged` |
| `take_turn` as far as its memory goes | `BeginTurn`, `CommitPass`, `AppendRow`, `TrimRow`, `Regenerate`, `LogTurn`, `Abandon` |
| `maybe_summarize`: the cadence, a forced close | `StartCadence`, `CloseWindow`, `CloseEarly`, `EndCadence`; `SummarizeNow`, `CloseArc` |
| `_rollup`, `_rebuild_campaign` | `CloseArcRow`, `EndRollup`, `RebuildCampaign` |

A digest is the span it covers, the rows it tells and the facts it quotes.
`MemorySound` is three promises: the digests of a level tile the turns and nest
in the next (`Gapless`), each tells every row and quotes every pin of its span
(`DigestsComplete`), and the newest rows keep their prose (`ProseWindow`).

`Canon`: pass D of a turn, the scan of the prose and what becomes of it, while
canon grows.

| In the code | In the model |
|---|---|
| pinned `world_facts`; the row of `turn_log` | `canon`; `logRow` |
| the locals of `take_turn`: prose, dialogue, refusals, notes | `telling` |
| both calls of the narrator, each committed before it is scanned | `BeginTelling`, `TellFirst`, `TellAgain` |
| `consistency_check`: the prose goes back once, stands, or is patched | `SendBack`, `LetStand`, `Patch` |
| `_write_turn_log`, `_write_telemetry`; a failure between two commits | `LogTelling`, `EndTelling`; `AbandonTelling` |

A sentence is what the scan can tell of it: whom it has speak, which pinned fact
it contradicts, which refused delta it restates. `CanonHolds` is about what is
logged and shown, after the patch.

`PromptBudget`: `ContextAssembler.assemble`, section by section and line by line
(`Open`, `Take`, `CutLine`, `Drop`, `Close`).  A text is its length; `plan` is
`_budget_plan`, `draft` the locals of `_fit_section`.

`NarratorLink`: the adapters and `LiveNarrator`.  `Recall`, `Probe`,
`CanaryAnswered` are the capability probe and its cache; `Narrate`, `Answered`,
`SendAgain`, `SendFails` one request with its retries; `TellDeltas`,
`TellProse`, `AskAgain`, `GiveUp` what a reply becomes.

`EngineMind`: one NPC's mood (`Spike`, `Fade`, `CommitMood`, stamped with the
turn it was brought up to) and the facts that are held true (`AddFact`).  A mood
is the list of its moves, each with the turn it came in and the turns it has
faded: that is what `_decayed`, `apply` and the commit of a mood delta do to it,
whatever the half-life and the rounding make of a turn.  How much a turn takes,
the six decimals (`_round6`) and the bounds of a value are left out.

`Combat`: the combatants of one fight.  `SubmitTurn` and `Cast` come over HTTP;
`EndRound`, `DeathSave`, `Tend` and the rests are methods that only the tests
call, and are modelled as calls at any time.

`Pilot`: the chronicle page of one player, the bridge and a slow network.
Requests about the connection and turns are in flight as records (`requests`,
`turns`) and are answered late, in any order or not at all; `lock` is
`_campaign_lock`, `shelf` what the backend keeps of each chronicle.

`Telling`: which model tells a beat (`row`, `env`: `get_provider`), what free
text asks of the rules, the check that is called and thrown, and what a
completion becomes before it is read (`Payload`, the echo, the issues, the
repair).  A completion is a sequence of sentences, as the repair splits them
(`validator.py:131`), and a sentence the set of kinds of what it says.  What the
code appends (the refusal, `pipeline.py:257`; the stock sentence of a short
answer) is a sentence of its own only behind a prose that is shut, its last
character a mark (`Glued`, `reply.shut`): behind one that was cut at its length
or left unfinished it is part of the last sentence, and goes where that goes.

`Regard`: what one authored character holds of the player: the memory log, the
meter, the mood and its fading, and the DC these make, under content
boundaries that may change between two requests.  `Touch` is a beat that goes
through `_remember` and `_mood`; `AskBorin` is `_beat_talk_borin`, which does
neither in that order.

`Wizard`: the creation of a hero: the draft, the roll of prebuilt heroes, the
seal in its two commits, and two tabs of the page with lost answers.

## 3. Runs

| Run | Question | Bounds |
|---|---|---|
| `PlaySerial` | One request at a time, each may die at every commit: is the session a chronicle of whole operations? | 1 key, 3 turns, 1 save |
| `PlayForward` | Do ledger, status and mirror speak of the live board across restarts? | 2 keys, 2 turns, 1 save, no restore |
| `PlayConcurrent` | What survives without a lock? | 1 key, 2 threads, 1 turn, 2 saves |
| `PlaySteady` | Lost answers and retries: is an action applied once? | 2 keys, 1 thread, 2 turns |
| `PlayLateRetry` | The same, when the retry falls between the first request's commits: **no** | 1 key, 2 threads |
| `PlayLostAction` | Does a resolved act stay resolved while an opening is written: **no** | 1 key, 2 threads |
| `StoryRoutes` | Every beat in every order: does the tale hang together, and is each beat one the session allows? | 26 beats, 2 hit points, 8 silver, no Inspiration |
| `StoryPersists` | Can the tale always be finished? | 17 beats, 2 hit points, 22 silver, 1 Inspiration |
| `StoryTwoClues` | Do two clues always spell the route: **no** | as `StoryRoutes` |
| `EngineTurns` | Batches, corrections, failures and replays of a turn: does what is committed obey the rules, and is every turn one of the abstract campaign? | 2 threads, 2 attempts of 2 deltas each out of 16, 2 turns, every limit 1 to 3 |
| `Parts` | Each of the ten parts above, explored whole | below |
| `EnginePurse` | Does a purse stay in range whatever a stat delta names: **no** | 5 deltas, no crash |

Why the bounds are enough. Handlers of different keys differ only in the ledger
entry, so two keys show every confusion of entries and one key with two threads
every race of a key with itself. `MaxTurns` bounds the acts that are applied,
`MaxSaves` the shelf; a third turn lets an act follow both legs of a check. In
the story, two hit points separate hurt from whole; eight silver is the starting
purse, and 22 lets one theft of fourteen succeed; Inspiration moves nothing else.
The theft and Inspiration are in `StoryPersists` only. In the
engine, two deltas an attempt show every pair of rules that meet in a batch, or
one before and one after a correction; two attempts show a turn abandoned at any
commit and played again, or two turns in a row; a purse of one, two hit points,
one fact a turn, a mood of one and a bond of two that starts at one with events
of three put every clamp and every limit within reach of two deltas, and a bond
that has drifted beyond its bound within reach of the second turn. The proofs
below do not depend on any of these numbers.

In `Parts` (a window of two turns, two sessions an arc, five turns: two arcs'
worth of sessions and one beyond, with one regeneration or forced close of
each kind; two lengths of line, two rulesets, of which one outgrows the window;
one retry and two rounds of parsing; three statements of which two are alike; texts
of two places, with a line that denies, a ghost's and the stock line, which may
itself deny canon, and one entry of dialogue, told in two tries; a
fight of two with one technique that wounds and one that mends, two turns and
two pauses; two chronicles, two turns in flight, two changes of the settings and
two troubles; three actions, one save of the settings, throws of one and twenty;
three turns and three moves of a mood; two characters, four happenings, a memory
of two, where the code keeps 200, so that its rule of eviction is met; three stages with a
validator, two tabs, one restart) every branch of every action is taken.  The
digests' cadence only compares turns with the last end, so a longer window adds
no order of events; the arithmetic of the prompt is linear in its lengths; a
fighter's hit points only matter by how many blows they take.

`VIEW OwnPart` tells states of `Parts` apart by the part that moves, which is
all that can change; `SYMMETRY TalesAlike` exchanges the two chronicles of
`Pilot`, which no constant tells apart.

`CHECK_DEADLOCK FALSE` appears only in the runs whose player may spend every
bounded turn or attempt and has nothing else to do (`PlayLateRetry`,
`EngineTurns`, `EnginePurse`, `Parts`).

Fairness.  `StoryPersists` alone assumes any; no property of the other runs says
that anything happens.  It assumes strong fairness of six steps: talking to
Marla, leaving the inn, reading the tracks and seeing the lanterns for the first
time, climbing to the abbey, confronting.  This is not a promise of the code but
of the player: somebody who keeps trying, and dice that succeed now and then.
What the run then shows is about the code, that no legal sequence of beats
closes every way to the end.

### Where code and documents part

* `PlayLateRetry`: the state, the autosave, the status and the ledger entry are
  commits one after the other (`router.py:449-453`), and the page gives up after
  25 s; a retry that loads the board after the first of them and asks the ledger
  before the last finds the action in the board and no entry, and applies it a
  second time (`api.ts:180-182`, `models.py:4-5` promise a replay).  A retry that
  comes while the first request still waits for the model loads the old board,
  and the later store replaces the earlier one: it is applied once.
* `PlayLostAction`: `store` writes back the copy that was loaded before the
  model call; an opening in flight takes away an act that was committed
  meanwhile (`router.py:447-448`).
* `StoryTwoClues`: the ledger, read as the second clue, never asks for the
  trail (`engine.py:2016`).
* `EnginePurse`: a stat delta may name the purse or the hit points and is
  bounded by the range of attributes only, so it overdraws the one and lifts the
  other past its maximum (`validate.py:880`, against `validate.py:40` and `:52`).

`OpeningWrittenOnce` and `ThrowLandsOnItsBoard` hold one request at a time and
fail as soon as two overlap (set `Serial = FALSE` in `PlaySerial.cfg`); so does
`LedgerCurrent`, when an act is under way across a restart;
`AppliedAtMostOnce` also fails when a request dies between the commit of the
state and the commit of the ledger (set `Faults = TRUE` in `PlaySteady.cfg`).

### Seen while modelling

No run refutes these; the modules do what the code does, and their properties
are stated so as to leave room for it.

Engine
* The prompt may exceed its "hard" budget by the line breaks of its sections and
  by the policy text (`context.py:17-30`, `:188-200`); `WithinBudget` says by how
  much.  The list of what was dropped misses a cut that keeps the token count
  (`context.py:428`).
* A forced short arc leaves later sessions in no arc (`memory.py:873`), which is
  why `ArcsTile` asks for an arc that was never closed by hand.
* The chronicle row keeps the narration that the consistency pass rejects
  (`pipeline.py:502`).
* A mood delta is added to the mood as it is stored and stamped with this turn
  (`validate.py:1014-1023`), before the turn brings the moods of those present up
  to date: the turns since the row was last brought up to date never fade it,
  against `memory.py:54-55` and `validate.py:73-74`.  `FadesOn` counts what
  is left: a move that no such commit of a later turn followed misses no turn.

Play session
* Two creation commits at once insert two `characters` rows (`creation.py:125`).
* `talk_borin` writes the memory before it looks whether Borin is there
  (`engine.py:2427`): asked for where he is not, he is never moved by the question
  afterwards.  Here and there it moves the meter by a plain +5, not scaled to him.
* A claim's refusal is glued to the prose (`pipeline.py:257`), and the repair drops
  whole sentences (`validator.py:131`): behind a prose that was cut at its length
  (`service.py:284-285`), or that ends in anything but a mark, it shares a sentence
  with what stands there, and is dropped with it when that is at issue.  An arrival
  whose place stands in the next sentence is an issue that no dropped sentence
  removes (`validator.py:48-51`).  Gains and arrivals are judged by the first of
  them: behind one that is approved, others pass.  `GrantsNothing` says all
  three.
* `_beat_spend_inspiration` is defined twice; the second replaces the first
  (`engine.py:709`, `:1099`).
* A free text repeated without a roll costs two model calls, against
  `engine.py:906-908`; a retelling is never validated.
* A social check of the free-text pipeline uses the mood without its gate
  (`engine.py:2887-2909`); boundaries changed between call and throw change the
  DC under the same token.
* A response of a provider that is not JSON raises where `/ai/settings/test`
  promises always to answer 200 (`ai/router.py:118-123`).

Creation
* The answer to a stage carries no `options` (`play/creation.py:68`), which the
  page needs to be drawn (`create/page.tsx:191`): after each stage it has to be
  loaded again.  Then the review shows default attributes instead of the ones to
  be sealed, which is the exception in `SealHonest`.
* The page shows a pool of 60 points; nothing enforces it.

Combat
* Reaching for a feature that is not there costs as much as using it
  (`engine.py:241`).
* `should_inflict` subtracts the damage twice (`injuries.py:29-34`); a hit on the
  dying resets their saves (`modes.py:20-32`); healing the fallen gives hit points
  and leaves their status.

Pilot page
* "Try that again" does not ask the gate (`page.tsx:395`, against `engine.ts:69`).
* The answer to a turn of one chronicle is shown under the one opened meanwhile
  (`page.tsx:236-260`); a late answer about the connection closes the gate again
  (`:169-177`); the client gives up after 150 s while the turn commits, and a
  retry applies it twice.

## 4. Proofs

`PlaySessionProofs`, for any sets of keys and threads and any bounds:

* `TypeCorrect`: `TypeOK`, which is inductive.
* `LedgerIsBacked`: an entry of the ledger stands for effects that were
  committed.  `LedgerBacked` alone is not inductive: an act reaches `remember`
  with its entry already decided, so the strengthening `LedgerInv` says that a
  thread past `Store` has its effects in `committed`.
* `CreatedSheetsExist`: a created sheet on the live board or on any page has
  its row.  The strengthening `SheetInv` says the same of the copies the
  threads hold, except between loading a sheet that is being created and
  committing its rows.
* `SerialSessionIsChronicle`: with `Serial`, every step is a step of
  `Chronicle` or a stutter.  It rests on `SerialInv`: at most one thread is
  busy, and it owes what `Owed` says: its working copy is what its operation
  makes of the board as the board still stands, and a restart that is about to
  reset has the run it ends on the shelf.
* `SerialThrowsLand`, `SerialOpenings`, `SerialActionsStay`, `SerialActsSettle`,
  `SerialAutosaves`, with `Serial`, though any request may die at any commit.
  What a request has stored is still what the board holds, and its finished arc
  is marked before its ledger entry is written: that is `KeptInv`, which needs
  `SerialInv`, since only then does nothing move under a request.
  `SerialActionsStay` is about `ResolvedStays`, which `PlayLostAction` refutes for
  two threads.
* `SerialLedgerCurrent`, `SerialStatusTruthful`, `SerialMirrorMatches`, with
  `Serial` and no restore among the operations: together they are inductive
  (`FollowInv`) over the two invariants above. A restore brings back a page
  without the rows that went with it, which is why it is left out here and in
  `PlayForward`.
* `SerialAppliesOnce`, where moreover no request dies (`~Faults`): the strengthening
  `OnceInv` says that a page whose action is applied holds its answer, or that
  the leg it would send again is in the ledger or on its way there. A request
  that dies between its store and its ledger entry breaks it, as
  `PlaySteady.cfg` shows with `Faults = TRUE`; so does a second thread
  (`PlayLateRetry`).

`StoryArcProofs`, for any set of beats and any bounds:

* `TypeCorrect`, `ArcHolds`, `SceneOnMapHolds`, `AftermathHolds` follow from one
  invariant, `StoryInv`.  The types and `ArcSound` need each other (a solved
  lead is never lowered because only `Confront` reaches it).  `AftermathStays`
  is not inductive: `_close` decides by `last_progress`, so the strengthening
  says that where the word is told the room is resolved *and* has progressed.
  The helpers are stated once: every beat's board is a *good successor* of the
  tale it began with, and `AfterBeat` keeps what a good successor has.
* `GoalHolds`: the goal on show follows the lead, part of the same invariant.
* `BoardHolds`: each beat, seen as the play session sees it, is one of
  `PlayBoard!Resolutions`. This is what joins the two halves: `PlaySession` is
  proved about any such change, `StoryArc` makes no other.
* `ArcImplemented`: each beat maps to a step of `Arc` or a stutter.

`EngineTurnProofs`, for any threads, deltas, statements and bounds:

* `TypeCorrect`, `LeadsStayLegal`, `CanonConsistent`, `LogNumbered`,
  `CommitKeepsVerdicts` follow from one invariant, `IInv`.  None of the five is
  inductive alone.  What is added: at most one request is under way; its copies
  are a chain that starts at the stored rows and moves by its verdicts; the open
  transaction is what its verdicts, as far as they are written, make of the
  store; its turn is one past the last row of the log, and its row of the
  chronicle is there once it has passed `Remember`.  The lemma
  `CommitFollowsValidator` carries the weight: where the row the commit reads is
  the copy the validator checked, the second refusal and the second clamp change
  nothing.
* `SheetStaysInRange`: the purse, the hit points, an item, an attribute and the
  mood stay in range, **if** stat deltas name attributes only
  (`AttributesOnly`).  `EnginePurse` shows that the condition is needed.  Here
  the invariant says that every copy in the chain is in range.
* `BondsStayPushed`: with `BInv`, every copy of a batch keeps its bonds within
  what the stored rows allow. A bond may be beyond its bound before the batch,
  since the two classes of rows decay apart; no verdict takes it further out.
* `FactRateKept`: with `FInv`, the room left to a batch is counted from the rows
  that are stored, so a draft never holds more facts of its turn than are stored
  and freshly let through together, over both passes and over the attempts that
  were abandoned before.
* `CampaignImplemented`: the seeded rows map to `Campaign!Init`, and every step
  of `EngineTurn` maps to a step of `Campaign` or a stutter, for which `IInv` is
  not enough.  `CInv` adds what a batch repeats and contradicts: no verdict of the
  second pass is of a delta the first has applied (`Unrepeated`); a fact that was
  let through contradicts neither what is stored nor what is written before it,
  and the draft tells nothing else (`Harmless`); only the first pass is remembered,
  and what is metered has just been logged (`Staged`).  The lemma
  `NothingRefusedLate` is the heart of it: the verdict that is written next is
  lawful in the very draft it meets, though it was given on a copy, before the
  rows were read again.

`WizardProofs`, for any number of stages, tabs, prebuilt heroes and restarts:

* `TypeCorrect` and `OneHeroIsSworn` (`WizardSound`) follow from `IInv`. What is
  added: an oath under way is of a finished draft, its rows are written and
  nobody was sworn before it (`OathOpen`); the oaths counted are the one sheet
  there is (`OathsCounted`); a page is of this journey or an earlier one, and an
  answer on its way speaks of a stage that this journey's draft has passed
  (`TabsBehind`). Without the last, the review a page redraws from a late answer
  could stand for a draft that is not there.

`EngineProofs`, for any window, percentages, statements and bounds:

* `MemoryKeeps`: `Memorized` adds to `MemorySound` what a call knows of the rows
  it is about to write (`CallKnows`): a cadence goes on from the last end, a row to
  be appended is of the turn that is not logged yet. An arc is tied to the group
  of sessions it stands for until `close_arc` has been called (`ArcFits`).
* `PromptFits`: `Budgeted` carries, from section to section, what is spent and
  what the groups still have (`Ahead`): each section may have cost the line
  breaks of its items, and the second of a group gets what the first left.
* `ShownInCanon`: `Canonical` says that a turn is judged by what either pass was
  refused, not only the last. The patch is right because a cut leaves no flaw,
  and only the stock line stands where nothing is left.
* `MindKeeps`: `MovesFit` says what `FadesOnce` and `FadesOn` leave out, so that they
  become inductive: by what is stored, a move has faded no more turns than there
  are up to the stamp, and no fewer where no commit of a later turn followed; and
  no move came after the stamp.
* `LinkTyped` and `LineIsHonest` (`LinkHonest`) follow from `LinkInv`. The bound on
  the requests of a tale is not inductive: the strengthening `LineCounted` says
  that what has left is the cost of the rounds that failed to parse, plus this
  round's first request and its retries so far; a retry is never ahead of the
  requests, which is what makes a failure worth retrying spend them all.
* `MemoryTyped`, `PromptTyped`, `CanonTyped` and `MindTyped` follow from the same
  invariants; for the last, a mood is never stamped with a turn to come.

`CombatProofs`, for any fighters, techniques and costs:

* `FightStaysSound` and `FightOnlyGoesOn` rest on `Fighting`: every combatant is
  sound on his own, and a fight that is over has one side left. `Onward` is what
  every call does to all of them at once; blows and costs are lemmas about one
  combatant, composed one change after another.
* `FightTyped`: with the counts of turns and pauses (`Tallied`).

`PlayerProofs`, for any chronicles, texts, completions, events and counts:

* `PilotStaysSound`: `Piloted` adds what answers on their way may say of the
  account and the browser (`GateTrue`), that a turn under way was let in by both
  (`LetIn`), that it is the next of its chronicle and behind its lock
  (`Played`), and that what the page tells comes in the order it was numbered,
  before what it waits for (`Shown`).
* `TellingStaysSound`: `TellingFits` keeps what is known of a request while the model is
  asked, on the saved state it was begun on (`AskedFits`), and that points burnt,
  lit and in hand always add up (`PointsKept`). What the repair leaves of a
  completion, and when the refusal goes with an unfinished sentence, is proved for
  every sequence of sentences (`RepairMends`, `GluedIs`).
* `RegardHolds`: `Regarded` ties a forgotten memory to those that outlasted it
  (`LogFits`), a mood to the boundaries it was let in by (`MoodFits`), and a throw
  to the board its check was called on (`CallFits`).
* `PilotTyped`, `TellingTyped`, `RegardTyped`. The first is part of `Piloted`. The
  second needs that a request under way has room among the acts that are counted,
  since it is counted only when it is settled (`Counting`); the third, that what a
  memory weighs is what its happening weighed, and that what becomes of a check
  keeps the odds a number (`Reckoned`).

`PartsProofs`, for all ten parts side by side (`MCParts`):

* `PartsTyped`: `TypeOK`. `OnePartMoves` says that a step of the whole is a step of
  the one part that moves, and of no other; with it the ten type theorems, and
  the invariants they rest on, hold of the whole.

Where a definition is a recursive function, induction is by the least number
principle: the lemma `LeastOf` (`LeastIn` in `PlayerProofs`), from `WFMin` and
`NatLessThanWellFounded` of the library, whose hypotheses are sets and so can be instantiated; the first place
where a result would fail is impossible. RECURSIVE operators are avoided.

Assumed of the constants: the `ASSUME`s of the modules, and nothing else (beats
are beats with a handler, more than one hit point, a purse of eight or more,
markers that are not boards or routes; bounds that are natural numbers, the
lowest stat not above zero, deltas of the kinds listed, percentages of the
prompt that leave room, relations between the sentences and statements there
are, events that move a meter by whole points, pages
and completions of the kinds the code
makes).  TLC evaluates them in every run.  The serial theorems of the play
session name `Serial`, `~Faults` and the missing restore in their statements.

Only model-checked: `ArcFinishes`, which is liveness under fairness (`ENABLED` is
out of the prover's reach), and the four refutations, since a counterexample is
what they show.  Every invariant and every action property of the passing runs
is the property of a theorem above.

## 5. Plan

1. Play session, story, one turn of the engine, each with its abstract
   specification (`Chronicle`, `Arc`, `Campaign`): done.
2. The parts of the engine (memory, prompt, providers, moods), combat, the pilot
   page with the bridge, the storyteller, the characters, creation: done.
3. Proofs of every invariant and action property the runs check, and of the
   three refinements: done.
4. Left to model: the seeding of the engine's store row by row, undo.

## 6. Not modelled

`PROJECT.json` lists every component with what is left out, and why.

* Wording: prompts, prose, labels, HTTP and provider formats, page layout.
* Authentication: a lookup and an insert.  Migrations: scripts that run once.
* Authored content, and the command line and the evals of the engine: they drive
  a `PlaySession` and keep no state that it reads.
* The saga of the play session: text made of the feed for a prompt.
* Progression, exploration, inventory, economy and history: calculators and rows
  of a world that the play session does not read; its own lead, clock and purse
  are in `StoryArc` and `Regard`.
* Seeding of the engine's store: it commits row by row and the first row makes the
  store look seeded (`demo_world.py:305`); `Pilot` has a seeding that fails, but
  not how far it had come.  The backend calls no undo.
