# A verification of spire-profiler

spire-profiler is a mod for a card game. It watches a combat through Harmony patches, attributes every point of damage, block and so on to the card, power, potion or relic that caused it, and keeps the result of every combat in a local database. Three programs make it up:

- `profiler-core` (Rust): the attribution engine, one object behind a C ABI, called on the game thread.
- `profiler-store` (Rust): the statistics store, an SQLite database of runs and combat records.
- `shim` (C#): the mod in the game's process. It holds the patches, the session that follows runs and combats, the client of the store, and the panels.

The specifications here are written from that code. [PROJECT.json](PROJECT.json) says, definition by definition, which lines each one stands for; this page says how the parts fit, what is checked, what is proved, and what is left.

## 1. Inventory

| Component | State it keeps | Operations | Talks to | What is hard |
|---|---|---|---|---|
| Statistics store (`profiler-store/src/lib.rs`) | database; intents a failed write left; an import or a read session | `open_run`, `reserve_combats`, `save_run`, `save_combat`, `import_*`, `read_*`, `open` | the session, by requests over the C ABI | transactions that fail half way through a request, death of the process, an import beside live runs, paging |
| Managed session (`ProfilerSession.cs`, `StatisticsStore.cs`) | the run, the last combat, the completed view, IDs, epoch | start, end and suspend a run; start and end a combat; refresh; close | the store, the engine, the patches | callbacks out of order, a store that goes away, crashes between steps |
| Power provenance (`source/power.rs`) | per power: observed amount, FIFO grants, last source, trust; Strength reductions; Doom batches | attach, change, invalidate, remove; begin, capture, commit and abort a batch | what a capture of a source returns | drift between report and game, shared layer budget, decay while a batch is open |
| Power capture (`ProvenanceCapture.cs`) | patched calls in progress; `Dirty`, `Detached` marks | prefix, original, finalizer | the engine, one call per report | nested callbacks, exceptions, failing native calls |
| Block and Osty pools (`source/pools.rs`) | FIFO slices of block per receiver, stack of Osty summons | gain, hit, lose, merge, clear; summon, absorb, kill, bury | the ledger, through a stage | exact splits in pieces, overflow half way, a full table |
| Ledger and stages (`ledger.rs`, `source.rs`) | a row per supplier, a journal of what a call changed | credit, new row, commit, roll back | every operation that credits | a call that fails after it changed several rows |
| Source arena (`source.rs`, `SourceSnapshot.cs`, `CaptureRuntime.cs`) | exported snapshots by serial and by content; weak owners; the epoch | export, release; own, collect, reset | every patch holds sources | the garbage collector, reuse of handles, old combats |
| Temporal powers (`TemporalPowerCapture.cs`) | sources saved by power and card | add, take back, accumulate, give up | source arena, `source_accumulate` | consumed entries after a failure, int overflow, a full table |
| Apportionment (`source/snapshot.rs`) | none | budgets, prefix allocations, mixtures | pools, powers, damage | exactness in pieces, order of suppliers |
| Damage calculations (`source/damage.rs`, `DamageCapture.cs`) | table of calculations with modifiers and result groups | begin, modify, append, commit, abort | pools, modifiers, ledger | results in groups, fallback, booking once |
| Plays, orbs (`source/play.rs`, `PlayCapture.cs`) | plays, executions, contexts, generated cards | start, finish, end execution, generate, channel | source arena | async frames that end late |
| Doom capture (`DoomCapture.cs`) | one token | prefix, postfix, abort | power provenance | commit or fall back once |
| Combat state and coverage (`summary.rs`, `source.rs`) | phase, counters, reasons, failures reported | start, end, discard a combat; snapshot | every operation reports to it | an incomplete combat that looks complete |
| Native boundary (`abi.rs`) | engines by thread, revisions | create, destroy, every export | the shim; the state | panics, refused calls, a cache kept by revision |
| Recordings (`observation.rs`) | the calls with what they returned, budgets | begin, record, replay | the boundary | a replay that starts from nothing |
| Audit journal (`AuditJournal.cs`, `PoisonAudit.cs`) | a bounded file of raw events; open commands, callbacks, ticks | one per patch, finish | the game, the engine's snapshot | overlapping awaits, truncation |
| Offline audit (`xtask/src/audit/poison.rs`) | queues, frames and credits rebuilt from the file | one per event | the journal | a report that is wrong and looks right |
| Modifiers and commands, summaries, legacy import client, run context, user interface, tooling, tests | see PROJECT.json | | | |

Everything that the game calls runs on the game thread, one handler at a time. What interleaves is: callbacks that nest inside a patched call; handlers of the game in an order the session does not control; async frames that hold a source across steps; the garbage collector; failures of any native call or transaction; death of the process.

What makes each component right, in one line each:

- Store: a combat whose save was accepted is on disk or pending until the process dies; IDs are never used twice; a record and an outcome are never replaced; a read without a reason is complete.
- Session: what it shows agrees with what it saved; no combat is saved under another run; a live view that calls itself complete counted every event.
- Powers: grants account for the stacks there are and no more; a capture credits the suppliers of what remains.
- Pools: every point of block or of Osty's body has one creditor from birth to death; a failed call has changed nothing.
- Sources: a source that is still held reads what it was captured as; handles are released exactly once.
- Temporal powers: what is saved is the exact mixture the game's dictionary stands for, or Unknown.
- Damage and Doom: every result of a hit is booked once, with its group or by the fallback, with the hit's own evidence; nothing is left open.
- Plays: a play is counted once, where it belongs; what is open is what is running; a flow of an old combat does nothing to the next.
- Boundary and recordings: what the host shows is what the engine says, but for the coverage after a panic that counts no revision; a panic ends the accounting of a combat; a recording that is not truncated reproduces its engine.
- Audits: what the report calls reconstructed is what happened; what it calls partial is never more.

## 2. The modules

| Module | Models | Composed with |
|---|---|---|
| `CombatLog` | what the store promises: announce, write, close, adopt | abstract |
| `Store` | `Store::execute`, every request, failing transactions, restart | implements `CombatLog` |
| `Session` | `ProfilerSession`, store client, epoch, game callbacks | `INSTANCE Store` |
| `Power` | `power.rs` | |
| `PowerCapture` | `ProvenanceCapture.cs` and the game's powers | extends `Power` |
| `Apportion` | budgets and prefix allocations of `snapshot.rs` | |
| `Points` | what block and Osty are worth: a queue of points with creditors | abstract |
| `Pools` | `pools.rs` and the ledger stage, one turn of each loop at a time | extends `Apportion`, implements `Points` |
| `Mixtures` | `SourceSnapshot::combine` and its normal form | extends `Apportion` |
| `Sources` | arena, weak owners, epochs, collector | extends `Mixtures` |
| `Temporal` | `TemporalPowerCapture.cs`, `source_accumulate` | extends `Sources` |
| `Damage` | `damage.rs`, the Doom batches' life cycle, `DamageCapture.cs`, `DoomCapture.cs` | |
| `Engine` | one `State`: combat, coverage, arena, ledger rows, `play.rs`, as operators on the state | |
| `Plays` | `PlayCapture.cs` over async flows, generated cards, orbs | extends `Engine` |
| `Boundary` | `abi.rs`, `observation.rs`, the host's cache | extends `Engine` |
| `Reconstruction` | `xtask/src/audit/poison.rs`: the report on a journal, as a function | extends `Mixtures` |
| `Audit` | `PoisonAudit.cs`, `AuditJournal.cs`, the game's Poison and Envenom | extends `Reconstruction` |
| `StoreProofs`, `PowerProofs`, `PoolsProofs`, `SourcesProofs`, `DamageProofs`, `PlaysProofs`, `BoundaryProofs` | theorems | extend their module (`SourcesProofs` extends `Temporal`) |
| `SessionProofs` | theorems | extends `Session`, `INSTANCE StoreProofs` for what is proved of its store |
| `MCPools`, `MCSources`, `MCTemporal`, `MCDamage`, `MCPlays`, `MCBoundary`, `MCAudit` | values of constants, views and symmetries | extend their module |

### Store and CombatLog

`disk` is the committed database, one component per table or column that decides something; `pending` holds the intents `persist` retries; `import` is an import session with its uncommitted copy; `read` a paged read. A request is one action. If it runs several transactions it has a disjunct for every point at which it can stop: a transaction is atomic and may fail (a lock held beyond the busy limit, a disk that refuses). `Restart` drops all but `disk`. `CombatLog` has none of this: combats are announced, written once, closed once, and the legacy archive is adopted at once or not at all. `ImplementsLog` is the refinement, with announced combats mapped to those on disk or pending.

### Session

The handlers of `ProfilerSession` and of the patches that drive it, over an instance of `Store`. `StartRun` asks the store more than once; what it has still to do stands in `call`, so that failures and crashes fall between. The summary of a view counts how often each combat entered it. `played`, chosen in the initial state, says whether the game cleans up between runs and continues only what it began (`Orderly`) or does as it likes; only `OneRunPerIdentity` speaks of the orderly game. One path has no property: a combat whose first snapshot could never be read is dropped at its end without a mark in the run's summary (`ProfilerSession.cs` 114), and the code keeps no trace of it that one could relate to.

### Power and PowerCapture

A source is the set of roots it credits (weights are in `Apportion` and `Mixtures`). The grants of a power are kept as the queue of single stacks; the code never keeps two equal neighbours, so its grants are the runs of this queue and layers are counted as such. `owed` and `peak` are histories: Doom stacks accepted and not yet credited, and the highest Strength since the engine trusts the power. One assumption on the game: a creature captured by an open Doom batch is not captured by another one. Negative hit points occur, and are refused. `StandingReductions` takes for granted that an enemy has one Strength power, which every run's constants give it.

`PowerCapture` wraps this in the patched calls. A frame is one call; it nests; its finalizer takes a step for every native call, each of which may fail. `bearer` (whom a power is attached to), `amount` and `supplied` are the game. A call on a power happens inside another on the same power only after the outer call has written, as in the fixtures (`shim/tests/Fixtures.cs` 91-108). The game side uses the engine's own FIFO rule to say who supplied what remains, so this run is about reporting, not about FIFO. Three behaviours came out of the runs and the proofs, none contradicted by a document: a removal inside an amount-change callback leaves in `Detached` the source the outer call observed; changes nested in others can credit the outer call's source, flagged as incomplete; and three nested changes of one power that take its amount from a to b, back to a and to b again are reported innermost first as a to b, b to a and a to b, each fitting the amount the engine has observed (`power.rs` 157), so that it takes them for drift-free and reports nothing, with the suppliers of the stacks in the wrong order. The history `missed` marks a change that escaped or was nested, `knotted` three on one power inside each other; `CompleteMeansExact` speaks of combats without the latter, `NeverOverCredits` of those without the former.

### Pools and Points

A call opens a `stage`: the list of steps it has still to do (count, credit, push, hit, lose, absorb, summon, kill, bury) with its journal. Any step may overflow or find the table full, and `RollBack` then restores the journal. Rows keep what the pools credit: gained, effective, modifier. `MaxCredit` stands for `i64::MAX` and is small, so that overflow happens.

`Points` is the abstract side, the queue `block_tests.rs` compares against: a point of defence is born with its creditor (a row and a field) and spent in order; only a full pool forgets. `ImplementsPoints` shows that proportional budgets, prefix allocation, merging of slices and consumption in pieces give each point to the creditor it was born with. A row's effective credit may exceed what it gained when sources are mixed; nothing promises otherwise. Left out: `forge` and `buff_mitigation`, calls of amount 0, and the other fields of a row.

### Sources, Mixtures and Temporal

`arena` is the engine's: entries by serial, an index by content, the last serial, which is never used again in a combat. `owned` is the table of weak references; `object` the heap; `held` who holds what; `swept` whether the collector ran since the last `Collect`. A call of the engine is split between its return and `Own`, so that a collection may fall between: `call` keeps its arguments alive, as the C# locals do. What a capture finds is an input. Objects survive their combat; frames of an old combat never consume (`WithSource` compares epochs). A panic poisons the engine until the next combat.

`Temporal` adds the entries that a power saves for later, keyed by power and card or by power alone, and `amounts`, what the game itself keeps: its own dictionary, whose accesses are bridged, and for the key of a turn `AmountOnTurnStart`. `owing` is a history: what stands there, by supplier, in units of 1/`Unit` (1/12 in the run), `Unit` being a multiple of every sum of weights there can be. `adding` is the accumulation that waits for its call: while it does, its key is saved nowhere. An int is `IntRange`, so that the difference of two amounts overflows. `Mixtures` combines exactly, in the order destinations were first seen, reduced by the common divisor, refused beyond `MaxShares` and `MaxTotal` (`u64::MAX`). `AbandonCard` has no caller; `TemporalEntry.Amount` is never read; neither is modelled.

### Damage

`calls` are the async flows of `CreatureCmd.Damage` and the synchronous calls of `DoomKill`, each with its `DamageOperation` or `DoomState`: the epoch it was entered in, which may be that of an earlier combat, the token it holds, and how far it is. `ModifyDamage` is two steps, up to and after the game's own, which may run the calls of a nested flow or throw; a report is one step with the native calls in it, any of which may be refused. `table` holds the engine's open calculations and batches with the evidence they were told of and the results they have; how a group is split is in `Apportion` and `Pools`. `hits` is a history, the last hit of each call: how often each of its results was booked, and with which evidence. `StartCombat` forgets the last combat's hits. A hit without a calculation has no evidence. `strayed` says that a call of this combat ran on another thread, where the patches do nothing: what it had open stays open until the combat ends.

### Engine, Plays and Boundary

`Engine` has no variables: every call is an operator from a state and wire values to the state and the value it returns, so that `Plays` can drive one engine, `Boundary` several, and a replay can fold the same operators over a recording. Its calls for powers, pools and damage are one call that enters the provenance and answers by what the combat was told before; those components have their own modules. Sources are sets of destinations, the number of failures is one or none.

In `Plays` a flow is an async method with its AsyncLocal values: it forks and joins, its execution and its chain of frames go with it, and the wrapper's end may come in any order, also after the combat. Handlers run in flows, each one step, with the calls they make. `CardId` names a card for the game, and several cards may have one name (in the instance, both). `played` is a history: the plays of the combat the game has announced, of generated cards in all, of the others by the card's name and player, for that is what a row stands for.

`Boundary` has every export that mutates an engine. A panic of a handler happens before or after its effect (`Panic`) and leaves its guard's mark. The guard is also that of the exports that count no revision, `snapshot`, `recording_begin`, `recording` and `replay` (`mutate = false`): one that panics had not changed the engine, but is marked all the same, at the revision that the host has read (`PanicUncounted`; `revision` only reads a number and cannot panic, `audit_snapshot` has no guard). `seen.missed` is history and remembers that this has happened since the host looked. Re-entrant borrows are not modelled. A recording is what `record` keeps of the calls; both budgets count entries, an entry being one unit of bytes. A trace that is replayed is the recording of any live engine, or one of an older version. `Refresh` is the host's read of revision and snapshot.

### Audit and Reconstruction

`Reconstruction` is a function of a journal; `Audit` writes the journal, event by event, with the game beside it: who really supplied each stack, and `truth`, what each supplier's Poison did, credited by the engine's mixture when a damage command was entered. After every step `report` is the report on the file as it stands. The game has one enemy with at most one Poison and a player who may have Envenom; a mutation and the end of its command are one step, decay is a mutation outside any command, damage is not redirected. After a diagnostic only ticks and the end are followed, after the journal is closed nothing, for no event is written any more. Left out: events that the reconstruction does not read, JSON and byte limits, the checks of hit points, missing native identities, and traces of version 1. Left out of the writer, each of which can only make a journal incomplete or leave out another combat's events: the cap on Envenom callbacks (`audit-envenom-pending-cap`; the cap on commands is modelled), the refusal of observations of a stale or foreign combat (`AcceptOrigin`; there is one combat), the test that a tick's Poison is on its target (the target of a tick is its owner's here), and the diagnostic of a hit without a result (`audit-damage-result-missing`).

## 3. The runs

One module states fairness. `FairSpec` of `Store` is the specification with weak fairness of `NextPage`: the client that has begun a read asks for page after page in one synchronous loop (`StatisticsStore.cs` 145-161), so a read that can go on does; without the progress of the cursor that loop would hang the game, which is what `ReadEnds` excludes. Elsewhere no fairness is stated: the system is a library of handlers that the game may stop calling at any time, nothing retries by itself, and nothing in the code says that something must happen. Each run sets `CHECK_DEADLOCK FALSE` only where the bounds or the game let everything end.

| Run | Question | Bounds and why they are enough |
|---|---|---|
| `store_record` | do live saves survive failing transactions and restarts, and does every read end? | two runs of two identities (one that is never matched), two combats, one unreadable payload: intents of one run overtake those of the other, and two write errors stand in a row |
| `store_import` | does an import beside live runs and reads keep IDs, rows and pages right? | two legacy sources of one identity, three run IDs, pages of two over three rows: the cursor crosses from imported to native rows inside a page |
| `session` | do live views, records and store agree, whatever the game does; and if it cleans up, is an identity ever ambiguous? | two runs, two combats, one event each, one row per page: runs over runs, combats over combats, crashes at every step |
| `power` | are stacks, layers and credits accounted for? | a Doom and a poison power, two roots, two stacks, two layers and one more to share, one batch of one target: decay, capture and collapse meet |
| `power_capture` | is what the engine reports complete exact? | one Strength power, three frames deep, four changes: a change nested in another and in a third, one that is missed, one that throws |
| `pools` | does every point of block and of Osty's reach its creditor? | gains of one and three, two suppliers, no, one and two modifiers, two slices and two summons, credits to 3 so that the third overflows, three rows so that Osty's own is made and taken back. The constraint `OneDefence` keeps combats with block and combats with Osty apart (they share no pool) and bounds a row's credit: what it cuts off are longer combats of the same steps |
| `sources` | is a handle ever released under a living owner, or twice? | three holders, four objects, three serials, two combats: a dead owner's content is exported again |
| `temporal` | is a saved source the exact mixture? | one power, two keys, room for one entry, three objects and serials, ints from -3 to 2 |
| `damage` | is each result booked once, with the right evidence? | two calls, one calculation and one batch at a time, two serials, two combats, two results or targets where one is the cap: a full table, an excess result, a stale flow and a batch inside a hit all occur; calls are symmetric, and no property is temporal |
| `plays` | are plays counted once, are open plays the running ones, do both sides know the same cards, are late flows inert? | two flows, two cards of two players and one name, one orb, room for one open play, one generated card and one orb, counters to 2, two plays a combat, two combats: every table fills, every counter overflows, a frame outlives its combat. `View` (MCPlays) names what two states may differ in with the same future; flows are symmetric, which is sound for `LateFlowsAreInert` as well, for it is about single steps |
| `boundary` | does a recording reproduce its engine, is a cache current, is a panic final? | one engine, three entries and three releases, the calls of two combats that differ in what they do to a state: a recording begun after a combat, a refused call, a release that releases nothing, panics that count a revision and panics that do not. `CacheIsCurrent` holds for the combat always, for the coverage until an export that counts nothing has panicked: without that exception TLC finds it false in five states (create, start a combat, refresh, panic in `recording` or `replay`), and the host would show a complete coverage until the next call that counts. In the shim no such export runs between two refreshes of a combat that is shown: it replays in an engine of its own, begins recordings before a combat, reads them after it, and looks again if a snapshot fails |
| `audit` | is the report of the audit true, sound when partial, and fair to the engine? | the budgets of `MCBudgets` (cards against each other, Envenom against a card, two ticks against each other), at most four stacks, limits of 11 and of 60 events: a journal that ends in the middle, and one that does not. `View` takes two games for the same if their queues, what is open, and what the reconstruction would believe of them agree; cards are symmetric. It is a heuristic reduction: the credits that the journal would give if everything open ended now are not part of it, so the second conjunct of `PartialIsSound`, which is about them, is checked on one representative of each view |

Every property has a mutant of the code it is about (`PROJECT.json`, "mutants"): the change of one definition, such as a dropped reset or a reused handle, under which the same run finds the property violated.

## 4. What is proved

TLAPS proves these for every value of the constants, from the named assumptions of each module: `StoreConstants` with `NoneIsNoRow`, `SessionConstants`, `PowerConstants`, `CaptureConstants`, `PoolConstants`, `SourceConstants`, `TemporalConstants`, `DamageConstants`, `EngineConstants`, `PlaysConstants` and `BoundaryConstants` with `CallsAreExports`. All say what set a constant belongs to, that a bound is at least one, or that a model value is none of a set's members; `TemporalConstants` says besides that `Unit` is a multiple of every sum up to `MaxTotal` and that the snapshots are normalized sources (`IsSource`); TLC evaluates them on every run. `TypeOK`, `RowsConsistent` and `IdentitiesAreFinal` of `Store`, and `CreditsTheRemaining` of `Power`, are proved and no run repeats them.

- **Store** (`StoreProofs`): `TypeOK`, then `Safety`, the conjunction of `IdsReserved`, `PendingPersistable`, `NoSilentLoss`, `RowsConsistent` and `ImportExtendsDisk`. None of them is inductive alone. That a pending intent can be written rests on the reserved IDs and on the consistency of rows, and both must hold of the uncommitted copy of an import, hence on what that copy has added to the disk. Each request preserves `Safety` by one lemma. `IdentitiesAreFinal` and the refinement `ImplementsLog` follow from `TypeOK` and `Safety` step by step. Reads have an invariant of their own, `ReadInv`, over the rows the cursor has passed: all were delivered, or there is a reason; and none of those to come was.
- **Session** (`SessionProofs`): `SessionUsesStore` is a refinement: each step of the session is a step of the store as `Store` describes it, or changes nothing of it. What is proved of the store therefore holds of the session's store, for this choice of its constants. `Base` joins this to the types and to the naming of runs, and `Kinds` sorts the handlers into four by what they write. On it stand four invariants. `OwnerInv`: no row of a combat not yet numbered, and the row or pending intent of every other is the run's it was begun in; this gives `StoredUnderItsRun` and `CombatIsSavable`. `SeenAll`: an engine that calls itself complete, no event of the combat having strayed, has seen every event; this gives `CompleteMeansAll` as an action property. `OneRunInv`: in the orderly game, of the runs with one identity at most one has anything on disk or pending or may still get it, and a run that is about to be opened is continued, or has an identity no run on disk has. `LiveInv`, for `LiveAgreesWithStore`, speaks of a summary that calls itself clean: between handlers what it has counted is on disk, complete and under its run (`Counted`), and nothing of the run in progress is missing (`NoneMissing`); while `StartRun` loads it, it has counted nothing (`Untold`), then exactly the rows the pages have delivered (`ReadingBack`, which needs `ReadInv` of the store).
- **Power** (`PowerProofs`): `IInv` says of every power that its grants and its source fit its trust, amount and layer limits, and of every open batch that it froze stacks the power had when captured. `LayersLimited`, `StacksAccountedFor` and `CreditsTheRemaining` follow. The layer budget needs a lemma on the ends of runs when a queue is cut or appended to. `DoomWithinSupply` counts the stacks on powers only and is not inductive: an open batch will credit the stacks it froze, and several batches may be open at once. `DoomInv` takes every set of open batches together: the stacks of a supplier that those batches froze, and the stacks its powers would have left once all of them were consumed (`Claims`), are at most what the supplier is owed. A step preserves it because the claims after it can be mapped one to one into the claims before it: those of the batch that commits are spent, a new stack is a new debt, a capture moves stacks from what is left to what is frozen, decay and drift only take claims away.
- **Power capture** (`PowerProofs`, second part): `CompleteMeansExact` speaks of powers no call is changing; what makes it inductive is what holds of the others meanwhile. `Base` is the shape of the calls in progress: a power is changed inside a change of it only after that has written, only the innermost call is past its original, and what a call noted is true until it writes (`Truthful`). `Steady`: until a failure, marks on a power are those of a call in progress. `Knows`, until a failure and with at most two calls nested on one power: the engine knows the power exactly (`Exact`), or a call in progress will tell it that the power is gone (`ToRemove`) or attached (`ToAttach`), or the engine will refuse what it is told (`ToRefuse`, a removal and a return inside an attachment), or the stacks are what a report of the outer call makes of them, and no inner call's report can be mistaken for one the engine expects (`ToMove`). That last clause is where the attempt to prove it for any nesting failed; TLC then found the combat described above. `NeverOverCredits` holds after failures, where the engine knows less and less: `Careful` says that a clean power's stacks are `Behind` the supplied ones, stack by stack the same supplier or Unknown, and of a call in progress that the stacks before it were so (`Lost`); that a dirty power is invalidated before its next report is what keeps it.
- **Reductions of Strength** (`PowerProofs`, third part): `StandingReductions` is proved of `Spec` and of `CaptureSpec`, with one assumption on the game that the theorems state: no two Strength powers the engine knows are of one enemy (`OneStrengthEach`). The code relies on it: a rise takes from the entries of the creature, whichever power made them. `Standing` adds that an entry is of the owner of its power and that a power the engine does not know has no peak. The argument is about sums: a rise by n leaves of a power's entries what they exceed n by, however they were merged (`LessenedSum`, from what the later entries leave of it, `TakenIs`), the entries that are dropped were empty (`RaisedFacts`), and no other power's entries change. A fall adds to a merged entry or appends one (`LoweredFacts`), a drift starts again from the reported amount (`HeldStands`).
- **Pools** (`PoolsProofs`): `IInv` is `Shape` and `Kept`: as long as a stage is open, each row and pool is in the journal as it was before the call, or is unchanged. `Recoverable` follows, and with it the action property that a roll-back leaves the ledger, the pools and the totals as they were, also where the run does not come (a table of rows that is full beside one that is crowded). `SlicesHold` is about numbers, and rests on how points are shared. `FloorsAlmostSum`, `PrefixesAreExact`, `PrefixesAreNested` and `PrefixesStayWithin` say of `Prefix`, for all weights, what the code takes for granted when it subtracts one allocation from a later one. The argument is `Fair`: no seat not given is worth more than one given, the seats of a share being worth its weight by one, by two and so on, ties going to the earlier share. Floors are fair, a seat for the highest quotient keeps fair what was, and two fair apportionments of the same weights are nested, or one of them would have preferred a seat of less worth. `Sound` then says that every block of the pools, and of the pools a failed call would put back, is good: its slices have given exactly what the first points taken take from them all, its payers the rest. What takes from a good block, and what makes or merges one, leaves it good; and a good block of which more is taken asks nobody for anything back. `Sound` needs `IInv` (a roll-back restores what was good).
- **Sources** (`SourcesProofs`): living owners of the combat are the ones their handles are registered with (`Registered`), what is registered is in the arena (`InArena`), what a call returned is in the arena until it is owned (`Returning`). A collection then releases only what no living object names (lemma `Sweeping`), and an export adds one entry, the one it returns (`Growing`). `PastHandles` keeps combats apart. All of it holds in `Temporal` too (`TemporalOwnersResolve`), where a call keeps two arguments and may return the handle of one (`SayingAgain`).
- **Temporal powers** (`SourcesProofs`, from its sums on): `PendingIsExact` needs what a combination is worth. `CombinedIsExact`, for all sources and amounts: whatever is divided out on the way, a destination's weight in the combination is to its sum what the two amounts credit the destination together is to their sum. Under it are the facts about sums (`SumsAdd`, `SumsScale`, `SumOfOnePlace`), that a list of what is first seen names everything once (`FirstSeenLists`), that the weights of such a list are those of the sources (`JointWeights`), and that the greatest common divisor divides (`CommonDivisorDivides`). `TInv` then follows an accumulation. `Exacts`: what a key holds says exactly whom its amount is owed to, saved or not, unless its accumulation waits; an entry that was lost holds nothing, which reads as Unknown's. `Underway`: what the waiting call returned, if it returned a handle, is what will be owed once it is saved (`Mixing` goes through the returns of `source_accumulate`, `Accumulates` through what follows). `Current` and `Alive`: what a saved entry holds is alive and of this combat, hence resolves. `Taken` says what `Own` gives back whatever the collector has reclaimed in between.
- **Damage** (`DamageProofs`): for any number of calls, results and combats. `TokenInv`: no two calls hold the same token, a call's token is of the combat the call was entered in, and the tokens of this combat are those given out so far. `Held`: as long as every call ran where the patches see it, an open calculation or batch is some call's. `Sound`, call by call: what is kept under its token is the evidence and the results of its present hit and of no other (`Evident`), nothing of that hit is booked before it is settled (`Fresh`), and what is booked then is each result once (`BookedRight`) with that evidence or none (`CreditedRight`). `BookedOnce`, `OwnEvidence` and `HeldCalculations` follow.
- **Boundary** (`BoundaryProofs`): that every export keeps the shape of a state, its revision and its mark of poison is one lemma for each operator of `Engine`. `CacheInv` is `Registry` (IDs are given out once, over all threads), `OneOwner` (an ID is registered with one thread) and `Seen` (a revision the host has seen is one its engine has reached, and if it is still the engine's, so are the combat of the snapshot and, unless an uncounted panic was missed, its coverage: `Current`). `UncountedKeeps` is the guard without a counted revision: it leaves the revision and the combat. A replay is the one step that computes a state of any age: it is a recursive function over the observations, and `ToldExists` shows that the function is defined on them all, by the least number at which it would not be. `Quarantined`, an action property, follows from `SoundInv` (the coverage of a poisoned state is incomplete, a recording that met a panic is truncated) and from what each export does to a poisoned state: it reports a failure, unless it starts, ends or discards a combat. `TruncationIsEarned` compares a recording's two budgets, which is a matter of the sources that are exported: `Budgeted` says that as long as every release has released something, the releases and the sources still exported are together no more than the gameplay entries. A recording begins with none exported (a combat that is not active has none, `Lean`), a call exports at most one (`ApplyIsLeaner`), and a release that succeeds takes one away. `ReplayReproduces` follows a recording and its replay side by side (`Follows`). Until the recording's first combat starts neither state has an active combat, and every call is answered by the call alone (`ApplyIsShut`); both then begin that combat in one state, `Begun`, that nothing earlier shows in; and two states that differ in their revision only (`Twins`) answer every call alike and remain so, one lemma for each operator again. That a recording of one entry more is told as before and then that entry (`ToldOfMore`) joins the two.
- **Plays** (`PlaysProofs`): one lemma for each call of `Engine` says what it opens, closes, learns and forgets, and that it leaves the rest; a generation over a source's destinations matters to what is open only through `Booked`, the three fields it can write. `OpenPlaysAreRunning` is not inductive: which play a finish closes depends on which frame holds its serial, and what a wrapper's end closes depends on whose execution the plays have. `FlowsInv` says that no two wrappers share an execution and that the frames a wrapper has a token for are of its own execution (`Own`); `Running` says that what is open is of a wrapper that runs (`Wrapped`), that the play of every frame is open under a serial already given (`Borne`), and that no two frames hold the same serial (`Distinct`). A new frame gets a serial that no frame has, a frame that is dropped takes only its own play with it, and a wrapper that ends takes only its own frames. `EngineInv` ties the engine's combat to the patches' epoch; from it a call is refused as one of another combat only after a panic, which `KnownAlike` needs: a refused call would tell the two sides apart. `LateFlowsAreInert` needs no invariant: a flow with a stale execution has an entry epoch that is not valid. `PlaysAddUp` and `CompleteMeansCounted` are about the ledger and rest on `BooksInv`. `Sound`: the rows have keys of their own, what is booked adds up (`Books`), and every source the engine holds has one destination that is there (`Credited`; nothing the patches of this module do mixes two, and a source of two destinations would book a play on one of them only). `Tally`: while the combat is `Clean`, that is nothing was refused, no row was lost and coverage is complete, each row has the plays announced of its name and player. Calls that book no play only append rows (`Grown`) and never take a report back (`Keeps`); one lemma for each says so. A start is followed through its capture: a card whose handle could not be had, whose source was not that of its row, or that found a table full has reported it, and the combat is no longer `Clean` (`CardHandle`, `StartBooks`); otherwise the play is on the row of the card's name (`PlayedAs`). A panic ends the completeness before it ends the calls, which `BooksInv` needs, for a poisoned engine refuses without a report.

Induction over data is beyond the provers here only as a schema, a theorem with an operator for its parameter. What is proved by it is proved of one function at a time, by a first-order argument: of the numbers at which a statement fails, one would be the least (`UpTo` in `PowerProofs`, `PoolsProofs`, `PlaysProofs` and `SourcesProofs`, `ToldExists` in `BoundaryProofs`). That serves the recursive functions of `Apportion`, of `FirstSeen`, of `Told`, of a generation's triggers, of the reductions of Strength and of the sum of the rows' plays; what a fold over a set or a recursive operator computes stays with TLC.

Only model-checked, with the reason:

- `ImplementsPoints` and the normal form of the mixtures of a power's grants (`MixtureOf`): a refinement by a queue of points, and a fold of mixtures.
- `CompleteIsTrue`, `PartialIsSound` and `EngineNotAccused` of `Audit`: the reconstruction is a recursive function of a journal, over mixtures.
- `ReadEnds`: liveness under fairness.

## 5. What is not modelled

- Weights of sources inside `Power` and `Engine` (they are in `Mixtures` and `Apportion`), and the split of a damage group over its modifiers (`DamageAllocation`).
- Patches that read the game and make one call (`ModifierCapture.cs`, most of `CommandCapture.cs`): their one call is a call of another module, and what they read is an input.
- The schema check of `Store::open`; JSON and the validation of documents (an input that passes or is refused); the history view.
- Pointers, buffers and sizes of the C ABI, and the registry of stores (`abi/storage.rs`), which refuses or executes.
- The client that parses legacy files: the import session it feeds is in `Store`.
- The arithmetic of summaries, the run context, the user interface, builds and releases.

Each has its reason in PROJECT.json.

## 6. The plan

Done, in this order: `CombatLog`, `Store` and their proofs; `Session`; `Power`, its proofs, `PowerCapture`; `Apportion`, `Points`, `Pools` and their proofs; `Mixtures`, `Sources`, their proofs, `Temporal`; `Damage`; `Engine`, `Plays`, `Boundary`; `Reconstruction`, `Audit`; `FairSpec` of `Store`; the proofs about `Damage`, `Boundary`, `Session`, `Plays` and the refinement of the store by the session; `DoomWithinSupply`, `CompleteMeansExact`, `NeverOverCredits`, `SlicesHold`, `PlaysAddUp`, `CompleteMeansCounted`, `PendingIsExact`, `StandingReductions`.

Next:

1. The split of a damage group (`DamageAllocation`) as operators beside `Apportion`.
2. `LegacyImport`: the client that reads old files, over `Store`.
3. Proofs: the refinement of `Points` for one supplier.
