# A TLA+ model of Model the Gathering

Model the Gathering (`src/llmtg` in the repository, Python) plays many Commander
games between decks, counts who wins, and keeps the results. This directory
holds a model of it in TLA+, the TLC configurations that check the model on
small instances, and proofs, checked by TLAPS, of what holds for every instance.

Paths below are relative to the package `src/llmtg` unless they start elsewhere.
`archive/` is imported donor code that the package never uses (README.md,
"Archive"; CONTRIBUTING.md). It is by far the larger part of the repository; the two
components of it that are concurrent programs in their own right, the turn manager
and the simulation lab, are modelled as well, for those who will take code from them.

## 1. The system

| Component | State it keeps | Operations | Talks to |
| --- | --- | --- | --- |
| Experiment runner `experiments/runner.py` | the list of results of the call in progress | `run_experiment`; `_rotate`, `wilson_interval` | calls an engine once per game; its summary is handed to the store by the caller |
| Mock engine, results `simulation/mock_engine.py`, `simulation/result.py` | none (a generator per game) | `play_game` | called by the runner |
| Forge engine `simulation/forge.py`, `forge_protocol.py` | none | `play_game`: build request, run the bridge, parse response | a child process per game |
| Experiment store `experiments/storage.py` | one SQLite file, shared by processes | constructor, `save_experiment`, `load_experiment` | SQLite |
| Local card catalog `cards/bulk.py` | one catalog file, shared by programs; an index in memory | `ensure_default_bulk_data`, `from_file`, `synced`, `get_card` | Scryfall over HTTP, the file system, `scripts/validate_deck.py` |
| Live card provider `cards/scryfall.py` | a cache, the time of the last request | `get_card` | Scryfall over HTTP |
| Deck files `decks/loader.py`, `decks/models.py` | none | `parse_deck_text`, `deck_id` | the runner and the store use `deck_id` |
| Commander validation `decks/validation.py` | none | `validate_commander_deck` | a card provider |
| Forge runtime `simulation/forge_runtime.py`, `scripts/forge_doctor.py` | none | `from_environment`, `bridge_command`, `run_forge_doctor` | environment, file system, `java` |
| Turn manager `archive/src/commander_ai_lab/sim/turn_manager.py` | the turn queue, the phase, the future a prompt waits for | `run_game`, `human_play` | a window in another thread, an AI in a thread pool, the game state `game_state.py` it shares |
| Simulation lab `archive/services/forge_runner.py`, `routes/lab.py`, `ui/ai-lab.js` | one `BatchState` per batch, the registry of the watchdog, a result file | `start_batch`, `get_status`, `get_result`; a reader thread per batch, one watchdog thread | a Java process per batch, a page that polls |
| Policies `policies/` | a random generator | `choose_action` | nothing calls it yet; the runner uses `policy_id` |

What is hard about it:

* **Seats.** In every game decks and policies are rotated, separately, by the
  game number; winners come back as seat numbers; standings are by deck id, and
  two decks may share one. A slip gives plausible numbers.
* **Failure in the middle.** An engine can fail at any game; a save is several
  statements; a download is written block by block. Each can stop half-way.
* **Shared files.** Several processes use one SQLite file and one catalog file.
  The store relies on SQLite transactions; the catalog has nothing but
  modification times.
* **Time.** The catalog is refreshed by age; saves wait for a lock with a limit; requests
  to Scryfall are spaced; a bridge that hangs, or that left a helper holding its output,
  must not hang the experiment.
* **Names.** A card is written under its own name or a face name, printed many times, legal
  or not; copies are counted by one name and looked up by another.
* **Answers from outside.** A bridge may write any JSON, and Python takes `true` for 1.
* **Threads without locks.** In the archived lab three threads write and read two fields of
  a batch in some order; in the archived turn manager clicks arrive when they like.

What makes each component correct: a summary stands for a complete experiment
whose games are the ones its arguments prescribe; every deck keeps its pilot and
gets every seat; every game counts once; mock games depend on their seed alone;
the store holds whole experiments or nothing, keeps what it acknowledged and
answers with what was stored; the cards of a validation are those of one release
of the catalog and not too old; the deck validated is the one in the file, and valid
means what README.md says the rules are; the Forge engine answers with a result of the
game it was asked for or raises, always; a game of the turn manager ends and goes round
fairly; a batch of the lab ends, and what is shown of it is its result. `PROJECT.json` lists the hazards one by one,
at the line where each bites.

## 2. The modules

| Module | Models |
| --- | --- |
| `Runner` | values: rotation, seating, seeds, results, standings, a finished run |
| `Experiment` | `run_experiment`, called again and again, over either engine |
| `ExperimentStore` | `SQLiteExperimentStore`, used by several processes |
| `ExperimentLedger` | what the store promises (abstract) |
| `CardCatalog` | `BulkScryfallProvider.synced`, used by several programs |
| `CardIndex` | the index from names to cards, one printing after the other |
| `LiveProvider` | `ScryfallProvider`: cache and throttle |
| `DeckFile` | `parse_deck_text`, line by line |
| `DeckValidation` | `validate_commander_deck` |
| `DeckCheck` | `scripts/validate_deck.py`: `DeckFile`, `CardIndex` and `DeckValidation` composed |
| `ForgeRuntime` | where Forge is, the bridge's command, the doctor |
| `GameEngine` | what a `SimulationEngine` promises `run_experiment` (abstract) |
| `ForgeBridge` | `ForgeEngine` and its child process, on a machine of `ForgeRuntime` |
| `TurnManager` | `run_game` of the archived turn manager, its prompts and their threads |
| `BatchLab` | the archived simulation lab: batches, watchdog, Java process, page |
| `MC...` | the values TLC uses |
| `Experiment_proofs` (with the lemmas about `Runner`), `ExperimentStore_proofs`, `CardCatalog_proofs`, `LiveProvider_proofs`, `ForgeBridge_proofs`, `DeckCheck_proofs`, `TurnManager_proofs`, `BatchLab_proofs` | theorems |

A deck is its `deck_id` and a policy its `policy_id`: nothing else of them reaches
the experiment layer. Operators introduced by a comment `Mutation:` are plausible
bugs of the definition below them. Nothing refers to them; `PROJECT.json` says which
property notices which.

**`Experiment`.** `call` holds the arguments of the call in progress, `results` the
list the loop appends to. `Start` and `Refuse` are the guards of
`run_experiment`; `MockPlays` and `BridgePlays` are one iteration of the loop with one
of the engines; `EngineRefuses` and `BridgeFails` are exceptions that leave it;
`Return` computes the standings. `MockEngine` is an arbitrary function of seed and
player count, fixed as it is used (`drawn`); the Forge bridge answers anything.
`returned` remembers the summaries callers got.

**`ExperimentStore`.** A client is a process with a store object. Its calls advance
one SQL statement at a time: the two `CREATE TABLE` of the constructor, the header
`INSERT`, one game row at a time, the commit that ends the `with` block, and the
return; for a load, the two `SELECT`s and the return. `rows` is what is committed,
`pending` what the holder of the writer lock has inserted. Any statement may fail,
the wait for the lock ends in `LockTimeout`, a taken identifier in `KeyTaken`, and a
process may die anywhere; SQLite then rolls back. Identifiers are *not* assumed
unique: `uuid4` may repeat itself, and the primary key has to cope.

**`ExperimentLedger`.** The store as its users see it: an experiment is filed at one
instant under a free identifier, a lookup answers what is filed at one instant,
a failed save has filed nothing, a process that dies may have filed without
learning the identifier. `ExperimentStore!Ledger` maps the store to it: the commit
files, the first `SELECT` looks up, and a load between its two `SELECT`s already has
its answer.

**`CardCatalog`.** A client is a program in `synced`. `Begin` decides by age (or
`force`) between reading and downloading; `GetMetadata`, `Download`, `Open`,
`WriteBlock`, `Close` are the refresh (the response is in memory before the file is
opened, which empties it); `ReadBlock` reads what the file holds at that moment, and
the call ends in `ReturnProvider` or in an error. Writers keep their own offsets. The
world outside publishes releases of different sizes and lets time pass. gzip's end
marker and checksum are what makes a torn or mixed file unreadable, so the
module is about paths that end in `.gz`, as the default does.

**`ForgeRuntime`, `ForgeBridge`, `GameEngine`.** A machine is an environment and a set of file
systems it may have; `Change` moves between them at any moment. `Configure` is
`from_environment` followed by `from_runtime_config`; `LLMTG_JAVA` is kept as it stands, and what
a command starts depends on the directory it is started from (`fs.commands`). `StartOutcome` is
`Popen`: the working directory is entered, then the program executed, and either may be missing
or refused. `Ask`, `Refuse`, `Start`, `Return`,
`Reject` and `TimesOut` are `play_game`. The child process has an output, an exit code and
perhaps a helper that inherited its output; the bridge's own steps are unconstrained. A JSON
number is a type and a value, so that `True == 1` and `1.0 == 1` are what they are
in Python. An output written in two pieces is two documents, or bytes. `GameEngine` has
`Ask`, `Answer` and `Raise` only, and `Answer` is what `Experiment!BridgePlays` assumes.

**`LiveProvider`.** `get_card` is `Hit`, or `Miss` (with the length of the sleep
`_throttle` computed), `Send`, and one of `Answer`, `AnswerWithoutCard` and `Fail`. Time passes
between any two of them and a sleep may last longer than asked. The time of the last
request is recorded when the response is there, as in the code.

**`DeckFile`, `CardIndex`, `DeckValidation`, `DeckCheck`.** `ReadLine` and `IndexPrinting` are the
two loops, one iteration each. A line is its kind, quantity and casefolded name; printings
of a card differ in legality. `Issues` is the report as a set.

**`TurnManager`.** `round` and `position` are the `for` loop over the snapshot `active_seats`;
`prompt` is the future the active seat is asked through, `scheduled` the `set_result` calls
posted to it and not yet run, `hung` the pool threads kept by decisions that timed out. Of the
cards the lands are kept, the one thing the rules limit per turn. Lists of seats are in seat
order throughout, so sets of seats stand for them. The module's head says why spells, combat and priority change nothing else in `run_game`.

**`BatchLab`.** Each access of a thread to `running`, `error`, the process or the file is a
step. `plan` is what the reader thread has left to write, in its order, which differs between
the ways a batch can end; `watchdog` is the sweep in progress, during which it holds the lock
that `Register`, `ReadLine` and `Finish` need. The registry is a set: the order in which a
sweep looks at it is left open. The page reads `running`, then `error`, then asks
for the result, which reads both again and then the file.

## 3. What is checked

| Run | Instance | Shows |
| --- | --- | --- |
| `experiment` | two calls, out of fifteen argument tuples: one, two and three decks, two decks sharing an id, rotation on and off, up to four games, seeds that overlap, both engines, arguments the guards refuse | the seven properties below |
| `store` | two clients, two identifiers, two requests and one refused by the length check | nine properties, one of them the refinement of the ledger and one of liveness |
| `catalog` | two programs, a release of two blocks replaced by one of one block, clock 0..4, `max_age` 1, a refresh takes at most 1 | five properties |
| `catalog_torn` | the same | a finding: the file `ensure_default_bulk_data` vouches for need not be a catalog |
| `forge` | five machines, each with two to seven file systems; a table of two and one that is refused; answers with any one field wrong; timeout 2 | four properties, one of them the refinement of `GameEngine`, one of liveness |
| `forge_errors` | one machine, whose bridge has no permission to be executed | a finding: not every failure to start is a configuration error |
| `live` | four keys: a card of two faces under three names, and an unknown name; interval 2, two revisions, clock 0..6 | three properties |
| `decks` | all deck files of up to three lines out of fourteen, and longer ones that make a hundred cards; six orders of three printings that share a name, and catalogs with nothing usable | four properties |
| `decks_singleton` | two deck files of a hundred cards, and the catalogs of `decks` | a finding: the singleton rule misses copies in the command zone and under face names |
| `turns` | a human, an AI and a headless seat, two rounds, a pool of one thread, two clicks under way, up to two lands each | five properties, one of liveness |
| `turns_timeout` | the same, one round | a finding: a game that times out has a winner |
| `lab` | two batches, one that prints a line and one that is silent | three properties, one of liveness |

*Runner.* `SummariesAreComplete`: no summary of part of an experiment, and game *k* has
the seed and seating of game *k*. `PilotsFollowDecks`: decks keep their policies.
`SeatsCycle`: in any window of as many games as decks each seat is held by each
deck (what README.md says rotation does). `SeatBiasCancels`: if one seat wins every game
of full rounds, all decks have the same wins, the reason to rotate. `EveryGameWonOnce`:
wins partition the games. `Reproducible`: equal seed and place in the rotation give
equal mock games, in any two experiments, so a run cut into batches at a
multiple of the number of decks gives the games of the whole.

*Store.* `AllOrNothing`, `AckedDurable`, `LoadsWhole`, `SchemaReady` are about crashes and
interleavings. `StandingsRecoverable`: the wins can be counted from the stored rows.
`HeaderExplainsGames`: each row is the game its header and number prescribe, provided the
caller passes the arguments of the experiment, which the code cannot check.
`ImplementsLedger`: the refinement. `CallsEnd`: each call ends.

*Catalog.* `UndisturbedCatalogIsWhole`: a catalog is lost only to a writer that died,
failed or overlapped with another. `CardsAreFresh`: whoever does what to the file, the cards
a program gets were Scryfall's at most `max_age`, and twice the length of a refresh, before it
started. Why twice: the program that writes last gives its modification time to blocks that
another program, whose own refresh began earlier, has left in the file. `RefreshIsCurrent`: with `--refresh` they were
so when it started, or one refresh before where others interfere.
`OwnDownloadIsReadable`: a program left alone can read what it downloaded.

*Forge.* `DoctorPredictsStart`: if all five checks of the doctor are in order, an engine can be
had, and no call of it raises `ForgeConfigurationError` where the doctor can tell
(`DoctorCanTell`): it starts java from its own directory and the bridge not at all, so it says
nothing about a relative `LLMTG_JAVA`, which the engine runs from the working directory, nor
about an executable bridge whose interpreter is missing. Both are among the machines of the run,
and without that condition TLC finds the property violated. `ImplementsEngine`: whatever is written, the
result is well-formed and of the game asked for. `CallsEnd`: whatever bridge and helper do.

*Live provider.* `RequestsSpaced`: no request is sent less than the interval after one that
was answered was sent. `FoundIsKept`: what was found is answered from the cache from then on,
under the name asked for and the card's own, and the own name is never behind.

*Decks.* `DeckIsTheFile`: each card of the file once, in order, under the heading above it.
`LegalPrintingWins`: a name leads to the first legal printing, so legality does not depend on the
order of the catalog. `ValidMeansTheRules`: a deck whose cards go by their own names, and whose
commanders are not repeated, is valid exactly if it follows the rules. The rules are stated about
cards, not names, and about the whole deck, which README.md says includes the commanders; the two
conditions are the two ways in which the validator departs from them (`decks_singleton`).

*Turn manager.* `OneLandPerTurn`: lands in play never exceed turns begun, over whole games of
clicks, timeouts and late answers. `TurnsGoRound`: between two players still in, turns never differ
by more than the one of the round under way, in seat order. `WinnerSurvives`: the winner was
still in, and the last one or the one with most life, when the game was decided; that there is one
after a timeout contradicts the docstring of `run_game` (`turns_timeout`). `GameEnds`: also with a
pool full of abandoned decisions, if only with an exception `decide_action` raises (`AIRaises`).

*Lab.* `ShownIsFinal`: the page shows whole results of ended processes. `LabSettles`: polling ends
and no process lives for ever. Its `TypeOK` says that the watchdog never deletes or looks at an
entry that is gone, and that a process nobody reads is being watched.

**Bounds.** `MaxCalls` = 2 is the number of calls a property of `Experiment` compares. Four games
over three decks pass the wrap of the rotation; four over two decks are two full
rounds. The store has no bound: identifiers are used up, and two clients give every
pairwise interleaving of a writer with a writer, a reader, a constructor and a crash; a third
would only wait for the same lock. In the catalog run a release can be replaced at
time 0 and a program start at time 4, beyond `max_age` and two refreshes; a second release
that is shorter shows left-over blocks. With these two programs one refresh would be bound
enough; a third is needed to see two refreshes add up, and the proof covers any number. Programs are interchangeable there, so the
run uses symmetry; it checks invariants only. In `forge` a timeout of two ticks lets the child
exit, answer or stay before, between and after them; one field that is wrong is enough for each
guard of the parser. In `live` clock 6 is three intervals: a request, one that fails, and one after. In
`decks` three lines take a section up again, and a legal printing can be first, in the middle
and last. In `turns` the second round is the first in which an elimination of the first can be
missed, and one thread is the smallest pool that is full. In `lab` two batches are what a sweep needs to
finish one while the other is being looked at; a batch is started once. `MaxLines`, the lines each process
prints, leaves out one that prints for ever, which neither the code nor the watchdog ends.

**Fairness.** `FairSpec` of the store assumes that a client which can take a step of its
call eventually does: SQLite statements terminate, and a wait for the lock is limited by
the busy timeout, which is itself one of the steps. Nothing is assumed of constructors,
of starting calls, or of failures. `Experiment` and `CardCatalog` state safety only.
`FairSpec` of `ForgeBridge`: Python's own steps and the clock go on; nothing is assumed of the
bridge, so that the timeout alone has to end the calls. `subprocess.run` is the POSIX one, which
does not wait for the output after it killed the child. `FairSpec` of `TurnManager`: the
event loop runs and its timers fire; humans, AIs and pool threads need never act. `FairSpec` of
`BatchLab`: watchdog and page run, time passes for a silent batch, and a reader thread is treated
strongly fair, as it waits for a lock which the watchdog leaves free for five seconds between
sweeps; Java need never act.

**Deadlock** is checked for store, catalog, Forge, turn manager and lab. `Experiment` stops after
`MaxCalls` calls, `DeckCheck` when the script ends, `LiveProvider` at the end of its bounded
clock.

## 4. What is proved

Every safety invariant and action property that a passing run checks is a theorem, and so are both
refinements. A theorem holds for all constants that satisfy the named assumptions of its module.
They say that

* sentinels are not values (`NoClient`, `NoFile`, `NoCard`, `NoEntry`, `None`), and that argument
  tuples, machines, deck files and catalogs have the types of the source;
* the store is given results of `run_experiment` (`SummariesFitTheStore` proves that the
  summaries `Experiment` returns are such);
* sets that a program holds in memory or in a directory are finite: batches, and the JARs of a
  checkout;
* times and bounds are natural numbers; the interval of the throttle fits the clock.

Two theorems about the catalog have a hypothesis, `JsonlOffered`: metadata that offers any
download offers the gzipped JSONL one, as Scryfall's does today. Without it they are
false (section 5, the legacy download).

None of the properties below is inductive alone. Each proof module states its inductive
invariant (`IInv`; `RunInv` and `SeededInv`, `StoreInv`) as a conjunction of named parts; each was
checked by TLC, on the run's instance or a smaller one, before it was proved. A step of the proof per action shows that each part survives.

* **`Experiment_proofs`.** `TypeOK` and all six safety properties. The invariant says what the loop
  has built so far: result *k* is the game the call prescribes for *k* and is well-formed; for
  reproducibility also that every mock game of the call and of any returned summary agrees
  with `drawn`, one outcome per seed and player count. About `_rotate` it proves `RotateShifts`
  (the item in each seat after a rotation), `RotatePeriodic`, `RotationVisitsAll` and
  `RotationSharesEvenly`, from two facts about `%`. `SeatBiasCancels` follows from the last one: where one
  seat wins every game, the games a deck wins are those in which it holds the seat, and these are
  counted block by block of as many games as there are decks. `PartsAddUp` is about whole
  experiments: cut a mock experiment after *m* games (whole rounds, if it rotates) and run the
  rest with seed + *m*; the game results of the two in a row are those of the whole, and its
  wins are their sums. Two theorems join modules: `EnginesFitTheLoop` says that the results the
  contract of `GameEngine` allows are exactly those the loop takes, so that with
  `ForgeIsAnEngine` what is proved of summaries holds for games played by Forge;
  `SummariesFitTheStore` discharges the assumption of the store.
* **`ExperimentStore_proofs`.** `TypeOK`, `AllOrNothing`, `AckedDurable`, `LoadsWhole`, `SchemaReady`,
  `StandingsRecoverable`, `HeaderExplainsGames`, and the refinement of the ledger, for any number of
  clients. `StoreInv` adds what each call relies on: the writer's pending rows are the header and
  the first *m* games of its own request under an identifier without rows; a load that
  found a header finds it still there; a load whose identifier had been returned finds a
  header; tables never disappear. In the refinement every step but a commit leaves the
  ledger alone and moves one session (`QuietStepMaps`); a commit files one experiment,
  and no load that found a header is under the identifier it files (`CommitMapping`). The
  standings follow from a bijection between winning games and stored rows. Three theorems say
  more than the runs check. `ExperimentsStay`: no step changes or removes an experiment that is
  in the file. `LoadsAnswerTheSave`: a load of an identifier some save has returned answers with
  what that save stored, or with None if it began before the save returned (`AnswersHold` says
  of each load under way what its header belongs to). `CallsGoOn`: `StepsLeft`, the statements
  a call still needs, falls with each of its steps and never rises through those of others.
* **`CardCatalog_proofs`.** `TypeOK` and the four properties of the run, for any number of
  programs, releases and block sizes. `FileFresh` is the heart: the blocks in the file were current
  two refreshes before its modification time, and one refresh before the download of any writer
  still at work, since whoever wrote meanwhile was at work when that writer emptied the file. From it
  `CallsOK` and `EndsOK` carry the age of the cards through a read to the end of the call.
  `AloneOK` and `UndisturbedOK` say that a file only one program writes to is a prefix of its
  download. The proof attempt found the bound of an earlier `CardsAreFresh` (one refresh) false:
  TLC, given three programs, then showed a behaviour of 27 steps in which two refreshes add up.
* **`LiveProvider_proofs`.** `TypeOK`, `RequestsSpaced`, `FoundIsKept`, for any names. `ThrottleHolds`: from the
  computation of the sleep on, the request goes out an interval after the recorded time, which
  is never before the last answered request was sent. `CacheCoherent`: a cached card is
  the one of its key, no newer than the data, and its own name has an entry at least as new.
* **`ForgeBridge_proofs`.** `TypeOK`, `DoctorPredictsStart` and the refinement of `GameEngine`, for any set of
  machines. The doctor's checks are shown to imply each condition `from_runtime_config` and
  `play_game` test, on the same files. In the refinement `Ask`, `Return` and the steps that raise map
  to steps of `GameEngine`, every other step to a stutter; what the parser accepts is shown
  to be well-formed, booleans included. `CallsAreBounded`: a call takes at most `Timeout` + 2
  steps of Python and the clock, and no step of the bridge, its helper or the files gives one
  back. `DoctorIsRight` is under the condition of the property, `DoctorCanTell`.
* **`DeckCheck_proofs`.** `TypeOK`, `DeckIsTheFile`, `LegalPrintingWins` and `ValidMeansTheRules`,
  for deck files and catalogs of any length and order. The invariants of the first three are the
  properties for the lines and printings read so far (`DeckSoFar`, `IndexSoFar`), with the
  heading the next line stands under, and need no induction over sequences. For the fourth, `Judged`
  says that the issues are those of the deck and the index at hand, and `ReportIsTheRules` that
  there are none exactly if the rules hold. The report counts copies of names, the rules copies
  of cards, and both the cards of two sections together, so the proof is about sums. `Total` is a
  fold, of which `TotalIsSum` and `SumSplits` say that it adds one entry at a time, in any
  order; then the quantities of two sections add up (`CountOfBoth`), and the copies of a name are
  those of its card (`CopiesAgree`). `TwoWaysAroundSingleton` follows: the finding of `decks_singleton` has
  the two causes it shows and no other. A card with more than one copy in a deck found valid is in
  the command zone or is written under a name not its own.
* **`TurnManager_proofs`.** `TypeOK`, `OneLandPerTurn`, `TurnsGoRound`, `WinnerSurvives`, for any number of seats and
  rounds, any pool. `TurnsCounted`: who is in has begun as many turns as there were rounds, less
  the one still to come; who is out, no more. `AliveSeated`: who is in has a place in the queue and
  in the snapshot of the round. `LandsCounted`: within a turn there is room for the drop not yet made.
  `GamesGoOn` and `GamesAreBounded` give a game a length: `Progress`, the place of `run_game` in
  rounds, seats and phases, rises with every step of `run_game` or the AI, is left as it is by
  all others, and has a bound fixed by the constants.
* **`BatchLab_proofs`.** `TypeOK` and `ShownIsFinal`, for any number of batches. `BatchesOK`: a batch that does not
  count as running and has no error has no process that lives, now or later, which needs the
  order of the writes in every plan. `SweepOK`: what the watchdog will write it has killed,
  and what it will delete has ended. `PageOK`: who fetches a result polls a batch that ended.

Where a maximum or a count over a finite set is needed (the newest JAR, turns, winners), the lemmas
use well-founded induction over its subsets or the cardinality theorems of the library; for sums
`SubsetInduction` does it with the *set* of the subsets for which the claim holds, since an
operator parameter cannot be instantiated.

Only model-checked: liveness (`CallsEnd` of store and Forge, `GameEnds`, `LabSettles`), which is
out of the prover's reach. Of the first three the variant that bounds the number of steps is
proved; what TLC adds, on its instance, is that a step is possible while there are any left and
that fairness makes it happen. For `LabSettles` no variant is stated. The four violated properties
are TLC's.

## 5. Findings

* A torn catalog passes for a fresh one (`catalog_torn`, `cards/bulk.py:87`): the file
  is emptied in place, and only its age is looked at afterwards.
* A bridge that exists and cannot be executed, or a working directory that is a file, raises
  `PermissionError` or `NotADirectoryError` and not the `ForgeConfigurationError` its docstring
  promises (`forge_errors`, `simulation/forge.py:102`).
* Copies in the command zone, and copies written under a face name, escape the singleton rule
  README.md promises (`decks_singleton`, `decks/validation.py:71-74` and `89`): a second copy of the
  commander in the main deck is found valid, and so are two copies of a card under its face name.
* A game that times out returns the player with most life, against the docstring of `run_game`,
  which says None (`turns_timeout`, `archive/src/commander_ai_lab/sim/turn_manager.py:172` and `207`).

Observed while modelling, outside any run:

* `cards/bulk.py:54` keeps the legacy download field "for compatibility", and a test ends it in
  `current.json`; but what it downloads, a JSON list, is stored under the caller's path, by default
  `default-cards.jsonl.gz`, which `_iter_payloads` reads as gzip. With `MetadataFields <-
  LegacyFields` in `MCCardCatalog.cfg` TLC finds `UndisturbedCatalogIsWhole` violated and, checked
  alone, `OwnDownloadIsReadable`: a program nobody disturbs cannot read what it downloaded.
* docs/forge-local-setup.md:18 says the doctor reports "so environment problems are visible before
  simulation code runs". Two are not: a relative `LLMTG_JAVA`, which alone of the paths is not
  resolved and means something else in the working directory of the bridge
  (`simulation/forge_runtime.py:61`, `simulation/forge.py:100`), and an executable bridge whose
  interpreter is missing. Both raise `ForgeConfigurationError` with all five checks in order
  (`DoctorCanTell`).

Also: undecodable output of a bridge escapes as
`UnicodeDecodeError`, against the docstring of `ForgeExecutionError` in spirit; in the archived lab a
results directory that cannot be made leaves the batch on record as running for good (`Start`, worker
"lost"), the progress lines of the threaded Java runner count one chunk's games, and the page may
show the result of a batch whose error is set a moment later.

## 6. Not modelled

*In the package.* Derived floating-point numbers of a summary (win rates, Wilson intervals, average
turns) and their storage; `created_at`; file name handling; `deck_id`, a hash of formatted text;
the wording and order of errors and issues; `forge_desktop_command` and the random policy, which
nothing calls. Catalog paths that do not end in `.gz` are read whole, without checksum.

*In `archive/`.* Some sixty thousand lines of Python, Java and TypeScript that the package does not
import: deck building by prompts to language models and card searches, HTTP handlers over
remote services, machine learning, user interfaces, and games played out by draws and weights.
Most of it is data in and data out, with its outcomes decided outside the repository; a model of it
would restate it. Of the turn manager, spells, the commander, combat and the stack are left out,
because no code of `run_game` creates the combat state they need; of the lab, progress
counters, logs, history and the DeepSeek batches.

## 7. Plan

1. Done: all components of the package but the policies, two archived programs,
   and the composition `DeckCheck`. `ForgeBridge` is not composed with `Experiment` but shown to
   implement `GameEngine`, which says what `Experiment` assumes of an engine (`EnginesFitTheLoop`).
2. Done: proofs of all safety properties and both refinements, of how components fit together
   (`EnginesFitTheLoop`, `SummariesFitTheStore`), and of the variants behind the liveness of store,
   Forge and turn manager.
3. Proofs left: a variant for the lab, which has to count the sweeps of the watchdog.
4. Models: `Campaign`, a caller that runs, saves and retries, over `Runner` and `ExperimentStore`;
   catalog paths without checksum.
