# Verification of the market watcher

TLA+ models of `astrbot_plugin_market_watcher`, the TLC configurations that check
them on small instances, and proofs that the TLAPS proof system checks for every
value of the constants. Paths such as `service.py` are under `market_watcher/`,
`FSD.md` and `DESIGN.md` under `docs/`.

Contents: 1 the system, 2 the modules, 3 the runs, 4 fairness, 5 the proofs,
6 where code and documents disagree, 7 what is not modelled, 8 the plan.

## 1. The system

The plugin runs inside AstrBot, a chat bot, on one asyncio event loop. It watches
four sources of plugin listings, keeps a catalog of what they say, and announces new
and changed plugins to the groups that subscribed.

| part | state it keeps | operations |
|---|---|---|
| check pipeline (`service.py`, `merge.py`, `detect.py`, `normalize.py`) | catalog, aliases, which sources have a baseline, snapshots | one check: load, probe save, deliver, fetch, merge, ask GitHub, search, merge again, detect, insert batches, save, deliver |
| outbox (`outbox.py`, `models.py`) | batches, per target a status, attempts, a retry time; per target an image window | insertion, `deliver_pending`, `next_outbox_due_at` |
| state file (`state.py`) | `state.json`, its backup, two temporary files | `load`, `save` |
| lock and schedulers (`service.py`, `scheduler.py`, `main.py`, `subscriptions.py`) | an `asyncio.Lock`, a wake event, two loop tasks | manual and automatic checks, the drain loop, subscriptions, outbox diagnostics, reload |
| notifier (`astrbot_adapter.py`) | one prepared card, one flag, one delivery mode | `prepare`, `send`, `clear_prepared` |
| GitHub gateway (`github.py`, `http.py`) | budget, token mode, block, status, cache with ETags | `get` with retries, recording of answers, `enrich`, `apply_cache` |
| source fetchers (`sources/`) | between checks a snapshot per endpoint with its ETag; within a fetch the page, what was read, the counts | a fetch page by page, conditional requests, the market's fallback |
| cutting into pages (`card_renderer.py`, `summary.py`) | none | page counts, sizes, partitions |
| schema (`models.py`) | none | `from_dict`, `to_dict`, upgrades of older files |
| settings and targets (`config.py`, `subscriptions.py`) | subscriptions, in the state file | parsing, `validate_targets`, `update_subscription` |
| texts and AI introduction (`summary.py`, `ai.py`) | none | `render_summary`, `generate` |
| HTML cards, status, host glue, release scripts | none that matters here | see section 7 |

How they interact. Whoever changes the state file holds the service's lock from
its load to its last save, except around a reload: a command that runs goes on
(`main.py:218` stops the loops and nothing else), the second service has a lock of its
own, and between the two a subscription is changed without any (`main.py:745`). A check and the drain
both run the delivery pass, which saves between its sends. The pass and `test-push`
share one notifier. A check's requests to GitHub share one gateway; its answers
change the same state object that the merge reads.

What is hard in it:

- **Interleaving.** Every step that awaits lets commands, loops and reloads in:
  the lock, its queue, the wake event, the shared notifier, two requests in flight.
- **Crashes and cancellations.** Between a send and the save of its outcome,
  between the steps of a save, in a loop that is stopped inside a pass.
- **Partial failure.** Saves that raise after they took effect, sources that fail,
  cards that are refused, a token refused while another request is asleep between
  retries.
- **Time.** Retry times, image windows and gaps compared by two pieces of code.
- **Ordering and long histories.** Pages of a check, priorities of sources, merges
  over many checks, baselines; a listing that changes between two requests of the
  same fetch, ETags that outlive what they were made of.

`PROJECT.json` lists each hazard at its line with the properties that would catch it.

What makes each part correct: the outbox loses nothing, repeats nothing without a
fault, keeps quota, gap and order, and settles everything; the state file is a
register that survives crashes; no save overwrites another and no work is left
unwatched; a card goes to its own batch's targets; the catalog is the merge of what
is listed and exactly the right changes are announced with it; a fetch that calls
itself complete has everything that was listed all along, as its answers said it; the
gateway keeps to its budget and its places and the saved cache holds what GitHub said
last in a check that was saved.

## 2. The modules

The modules meet at interfaces that each states: `Service` treats a delivery pass
as steps of the lock's holder and a batch as pending or done, `Outbox` says how a
pass gets it done while it holds the lock, `StateStore` what one `save` and `load`
do under it, `Catalog` what a check saves between them, `Sources` how a fetch comes
to the complete result or the failure that `Catalog` takes as given, `Gateway` where
the answers that `Catalog` chooses come from, `Notifier` what one send hands to the platform.
`Delivery` and `Register` are the abstract specifications that `Outbox` and
`StateStore` implement. `Schema`, `Settings`, `Message`, `Paging` and `Throttle` are
functions without a state, which the modules above use or TLC evaluates beside them.

### Outbox, Throttle, Delivery

`disk` is the state file and `mem` the `WatcherState` of the running operation; they
differ between a change and its save. `job` and `pc` say which operation holds the
lock and where it awaits. `Throttle` has the pure rules: window, gap, back-off, and
the comparison of ISO timestamps as text (`TicksPerSecond`).

| action | code |
|---|---|
| `StartDrain`, `EndDrain` | `drain_pending`, the drain scheduler's due time |
| `StartCheck`, `StartDetect`, `Detect`, `EndCheck` | `_run`: load and probe save, first pass, batches and their save, second pass |
| `NextBatch`, `Skip`, `Defer`, `Admit`, `AwaitGap`, `GapOver` | `deliver_pending`: order of batches, group blocking, retry time, quota, gap |
| `Attempt`, `ReserveFails` | `_reserve_image_slot` and its save before the image leaves |
| `Take`, `LateError`, `FallBack` | the platform takes the message, or raises after it took it, or the card is refused and the text follows |
| `Succeed`, `Fail` | the outcome and its save, which may raise |
| `Crash`, `Tick` | the process dies or the pass is cancelled; time passes |

`Delivery` says what the outbox promises: a message is announced once, handed over
only while it is owed, called sent only if it was taken, and final once it is over.

### StateStore, Register

`file`, `synced` and the temporary files, with one action per system call of `save`
(`temp`, `choose`, `backup`, `syncBackup`, `replace`, `syncState`, `verify`), a load
with its fallback, and what may happen between any two: an I/O error, a dead
process, a power loss that undoes what was not synced, a file that rots or cannot be
read for a moment, whether by a load, by the choice of what to back up, or by the look
for newer files at the beginning of a save (`Acceptable`). A file's content is the number of the save it holds, or missing,
corrupt, of a newer schema, or foreign. `Register` is the abstract crash-safe
register.

### Schema

Why a saved file reads: the classes of `models.py` as functions from field names to
the kinds of JSON value that `from_dict` accepts (`Accepted`), the same for what the
program puts there (`Made`: what comes from outside is checked less strictly in places),
their difference (`Unsavable`: one such value and every save raises), the fields that
came later, the upgrade of the root from version 1 and of a `github_cache`, and what
reading makes of deliveries without attempts left (`Settled`).

### Service

Each task has a `pc`; each instance of the plugin a lock with its holder and queue,
as asyncio keeps them, and a drain loop and an automatic loop. The actions are the
pieces between awaits: a check that begins gives up when the lock is taken, enters or
queues; commands wait their turn; the drain loop clears its event, looks, and waits
for a time or the event; `StopDrain`, `StopAuto` and `Initialize` are the three steps
of a reload, during which commands go on. A subscription that comes while no instance is
up is `EditUnlocked`: `terminate` leaves the store, so it is loaded, changed and saved
without a lock; any other command is then only told so.

### Notifier

Its three attributes, the delivery pass and the `test-push` commands that use them,
from await to await, with renders that fail, images that are refused and
cancellations.

### Catalog, Paging

One check step by step, from any listings to any others: `FetchCollection`,
`FetchLegacy`, `FetchMarket`, `MergeAndEnrich`, `FetchSearch`, `DetectAndSave` with the
second merge and the batches, and `Abandon` for a check that stops on its way. A fetch
may fail.
A source is its priority, a plugin's id a number, a plugin's content three fields:
the archived flag, the repository's URL, and a text that stands for the others.
`Paging` has the arithmetic of pages and of the columns of a card; its operators decide
which page an event of a batch is on.

### Settings, Message

`Settings` is `parse_runtime_config` over configurations in which any key may be
missing or hold anything, `validate_targets`, `merge_targets` and
`update_subscription`. `Message` is what `render_summary` tells of the events within
its limit, when the introduction stands above it, and `generate` with every way in
which the host may answer or fail. In both a value is what the code can tell apart of
it: of a setting whether it has the type asked for and which number it is, of a text
its length.

### Sources

One source, check after check, and the service that lists its records. `listing` is
what the endpoints list now; `saved` and `heard` are what the state file keeps of the
source (`SourceState.snapshots`, `observations`); `page`, `at`, `got`, `count`,
`sound` and `etag` are the local variables of the fetch. A page is asked for and
answered in one step, between which the listing may change any number of times.
`outcome`, `shown`, `kept` and `shifted` are history, read by properties only.

| action | code |
|---|---|
| `Begin` | the first request, conditional if the snapshot has one page (`conditional_snapshot`) |
| `NotModified` | a 304: the snapshot is the result |
| `IssuesPage` | one round of `IssuesFetcher.fetch`: duplicates, rejection ratio, `_safe_next_url` and the page limit |
| `SearchPage` | one round of `GitHubSearchFetcher.fetch`: total, duplicates, page limit |
| `MarketAnswer` | `MarketFetcher._request`, `_parse` and the fallback of `fetch` |
| `Fault` | a request that fails or is no success, a search that says it is incomplete, a check that does not come to its save |
| `ServiceStep` | outside the program: a record comes, goes, changes or moves |

The end of each is what `_run` does with the result: `Complete` replaces the source's
snapshot and observations, any other result leaves what there was.

### Gateway

`stage` is how far the check is, `pc` where each request is: waiting for the
semaphore, flying, or asleep between attempts. `Pass` is the part of
`GitHubGateway.get` up to the first attempt, `Refuse` its two early returns, `Retry`
and `Again` one round of the client's retry loop (the token is put in for each
attempt), `Answer` the end of a request with `_record_response` and what
`_refresh_one` does with the answer, `Raise` an end without one. `Enrich` and
`NextGroup` are the two groups of `enrich`. The cache is part of the state that a check
loads: `BeginRun` takes `saved`, `EndCheck` is a check whose save takes effect, and
`Abandon` one that is cancelled or fails anywhere, its save included, so that its answers
and the ETags that came with them are lost. What a save and a load do is `StateStore`'s
matter: `saved` is what a load gives back. `said`, `told`, `urgent` and `allowance` are
history, read by properties only.

## 3. The runs

Twelve runs. Nine pass; three show the code do what a document rules out. The state
counts are those of TLC.

| run | question | bounds |
|---|---|---|
| `outbox_targets` | Two image pages for two targets. Is nothing repeated without a fault, are quota, gap and order of pages kept where one target's wait delays the other, do due time and pass agree? | quota 2 per window of 4 ticks, gap 1, 2 attempts, 1 fault, clock to 6; 2.1 million states |
| `outbox_live` | Is `Delivery` implemented, is every delivery made or given up, does a check stop sending when it cannot save? | a page and a text, one target, gap 2, 1 fault, clock to 11; 262 000 states |
| `store` | What can a load give back after any save that was disturbed anywhere? And the schema | 3 saves, 2 faults, 1 power loss, 2 rots, 2 momentary read errors; 790 000 states |
| `service` | Is any save overwritten, any work unwatched? | one manual check, one edit, one diagnostic delivery, both loops, one reload; 1.08 million states |
| `service_live` | Is what a check leaves drained with automatic checks off, and does every command end? | one save that raises, one reload; 23 000 states |
| `service_two_locks` | fails: a check that outlives its instance overwrites a subscription, made without a lock before the next instance begins | one check, one edit, one reload |
| `notifier` | Do deliveries that do not overlap disturb each other? | two batches with cards, one without, two `test-push`, two targets; 219 000 states |
| `notifier_mixed` | fails: a subscriber gets the diagnostic card | one of each |
| `catalog` | Is the catalog the merge of the listings, and is exactly the right set of changes announced? And pages, texts, settings | market, collection and search, two repositories, one record each, three changes in all; 1.1 million states |
| `catalog_backfill` | fails: listings that did not change are announced as updates | one source, one repository |
| `sources` | Does a complete result have what was listed all along, as the answers said it, and does every source come to what is listed once it stays as it is? | each kind of source, three records, one on a page, two pages, one rejected record in two tolerated, 2 changes, 2 faults; 631 000 states |
| `gateway` | Budget, places, cache, order of requests, end of every check, while checks are cancelled or fail to save | three repositories, budget 3 (2 anonymous), one retry, two versions; 557 000 states |

Why the bounds are enough for the questions. Every limit in the code is reached
inside them: two images fit a window of 4 with a gap of 1, a retry is the third, and
the window expires before the clock ends; 2 attempts are exhausted and retried; 3 saves
are the fewest in which a save follows one that found the state file bad; 2
repositories are the fewest that an alias can confuse, 3 sources have every relation of
priority (the best, one between, and the search, which is merged a second time); 3 repositories with a budget of 3
and 2 leave some unasked, and a refused token can come before, at and after the
anonymous budget. One fault is enough for `outbox_*`: `DuplicatesNeedFaults` and
`AttemptsBounded` count them, and are proved for any number. In `catalog`, `MaxNews`
counts the records and answers that differ from those before; a check in which
nothing differs is free. In `sources`, two pages of one record and three records are
the fewest in which a page is read, another is left, and a third lies beyond the page
limit; two changes move a record past a page and let another take its place. (By hand
the run also passes with four records: 1.0 million states.)

Evaluated beside the state spaces, as assumptions that TLC checks at the start:

- `MCCatalog`: `PagesFit` (the page arithmetic, up to 12 events and limits to 7, which
  `PagingProofs` proves for all), `TextsFit`, `LongTexts`, `IntroductionOptional`,
  `SettingsInRange`, `TargetsAgree`;
- `MCStateStore`: `OnlyTheseStopSaves` (the values from outside that make every save
  fail, and no others of the kinds that `Schema` tells apart; text with a lone surrogate,
  which UTF-8 cannot write, fails below them), `FilesUpgrade`, `LaterFieldsOnly`, `DeliveriesSettle`;
- the assumptions on constants that the proofs use.

What the properties say, beside type correctness:

- `DuplicatesNeedFaults`, `AttemptsBounded`: a message reaches a target twice only
  after a crash, a failing save or a platform error that came late, and each costs at
  most one repetition and one attempt.
- `QuotaKept`, `GapKept`, `PagesInOrder`: across passes, operations and restarts,
  not within one pass.
- `DueDrainSends`, `Settles`: the drain never spins on nothing and never sleeps over
  work.
- `ChecksStopSending`: FSD.md:436 for a check; for the drain see section 6.
- `NeverLost`, `Recoverable`, `NewerUntouched`, `ImplementsRegister`:
  what a load may return after which damage; the refinement holds until the first
  power loss, rot or momentary read error. A newer file is changed by no load, crash or
  power loss, and by a save only if its one look at that file failed (`unseen`; section 6).
- `NoLostUpdate`, `WorkWatched`, `Drained`: as long as nothing is done beside a command
  that outlives its instance (`outlived`: a subscription changed without the lock, a new
  instance that begins), which is exactly the divergence `service_two_locks` shows.
  `CommandsEnd` has no exception.
- `CardsUnmixed`, `CardForEach`, `ModeTruthful`: of deliveries that no `test-push`
  overlaps (`beside`), which is exactly the divergence `notifier_mixed` shows.
- `CatalogFaithful`: the saved catalog holds the plugins that are listed, each field
  from no worse a source than the best that has it. `NothingMissed`,
  `BaselineSilent`, `UpdatesGrounded`: the three ways in which announcements can be
  wrong: missing, premature, or of nothing.
- `Covers`, `Grounded`: what a result that calls itself complete is worth: no plugin
  that was listed from the fetch's beginning to its end is missing, and none is told
  from another fetch, endpoint or page than the one that spoke last. The exceptions
  that the code cannot tell are named in `Covers` (`shifted`, `HiddenTail`).
  `Converges`: no half-read result, ETag or fallback keeps a source from what is
  listed for good.
- `CacheTruthful`: the saved facts are what GitHub said last in a check that was saved,
  whichever checks were lost in between; a running check has those or what it was told.
- `BudgetKept`, `ConcurrencyKept`, `UrgentFirst`, `TokenStops`, `ChecksEnd`: see the
  comments in `Gateway`.

Every property of a passing run has a variant of the code that breaks it, next to
the definition it varies ("Variant of ..."): a guard that is dropped, a limit off by
one, a save left out, an order swapped.

## 4. Fairness

- `Outbox!FairSpec`: weak fairness of the running operation (`Step`: what the event
  loop can run it runs, sends and renders have timeouts), strong fairness of
  `StartDrain` (the lock is given in order of arrival, and checks come and go) and of
  `Tick` (the clock goes on although a bounded lag may interrupt it).
- `Service!Fairness`: weak fairness of tasks that can run, of loops and of a reload
  once begun; strong fairness of `SendBatch` of the drain loop, which is `Settles`
  of the module below: a batch tried again and again is settled.
- `Gateway!FairSpec`: weak fairness of `Work`: an attempt ends by its timeout of 15
  seconds, a wait between attempts by its limit of 60. No fairness of `BeginRun`:
  nobody has to begin a check.
- `Sources!FairSpec`: weak fairness of `Begin` (`scheduler.py` checks for ever while
  automatic checks are on) and of `FetchStep` (an attempt ends by its timeout). None of
  `ServiceStep` or `Fault`: nothing has to change or fail.

## 5. The proofs

TLAPS checks them for every value of the constants that the named assumptions allow
(`ThrottleAssumption`, `OutboxAssumption`, `StoreAssumption`, `ServiceAssumption`,
`NotifierAssumption`, `GatewayAssumption`, `SourcesAssumption`, `CatalogAssumption`; TLC
evaluates each in the runs). Every inductive invariant below was first checked by TLC
on the bounds of the run of its component, or on smaller ones.

**OutboxProofs.** `Inductive` says: the operation's copy is the file as a reader sees
it; only open targets of the current batch are waited for or attempted; an open
target has an attempt left; and every delivery (`AcceptedCounted`) and attempt
(`TriedCounted`) is on record, in flight, or paid for by a fault. The bounds
themselves are not inductive: that nothing in flight is already on record as sent is
what lets an outcome be written without a second count. From it follow `TypeCorrect`,
`NoDuplicates` and `BoundedAttempts`, for any number of batches, targets, attempts
and faults. Each of the other results adds what it needs:

- `PromiseKept`, that Outbox implements `Delivery`, step by step: that the platform has
  what is about to be recorded as sent (`LandedIsTaken`).
- `WithinQuota` and `GapBetweenImages`: that the window in the file covers the images
  sent (`WindowFits`: every image of the window is counted in it, its last time is
  that of the last image or later), that a target which is admitted fits
  (`AdmittedFits`), and that a sleep ends when the gap does (`SleepFits`). A
  reservation that was saved and an image that did not leave make the window too full,
  never too empty.
- `PagesKeepOrder`: that a target with an earlier page still open is barred as long as
  the pass lasts (`Ordered`), also when the page failed in this pass.
- `ChecksStop`: that of a running check every save has succeeded (`ChecksSaved`).
- `DueDrainsSend`: that a drain which has sent nothing yet still has due work ahead of
  it (`DueAhead`). It has a hypothesis, `TextsAgree`: what is later as a text is later.
  Without it the theorem is false (section 6). The run's clock has one tick per second,
  where a later text is never an earlier time; the code's clock has microseconds.

**StateStoreProofs.** `Lossless` says which numbers the two files can hold at each step
of a save; `NothingLost` follows. `Registered` adds that nothing worse than a crash has
happened, and `CrashSafeRegister` shows that each step is then a step of `Register` or
leaves it alone: the moment at which a save takes effect is the replacement of the file
(or, on a first save, the copy). `OneRotSurvived` needs to know at which step which of
the files can be relied on (`RecoverInv`: before the copy the state file, from the
copy's sync to the replacement both, afterwards the backup, which is never behind the
save before last: `Sheltered`, `StepBack`). `NewerFilesKept` needs that a save is under
way only beside newer files that its look at the start failed to read (`Untouched`),
since the code asks once and passes over what it cannot read.

**ServiceProofs.** `NothingOverwritten`: the invariant is `outlived \/ Serial` (`outlived`: something
was done beside a command whose instance had ended), where
`Serial` says that tasks under way belong to the current instance (`Current`), that
variables have their types, and that whoever is inside the lock holds it and has in
memory what is on disk (`Exclusive`); a subscription without the lock is harmless while
nobody is inside any (`NobodyInside`). `NoLostWakeUp`: while a batch is pending, the drain
loop is on its way to look, waits with a time, is about to be woken, or a check that will
wake it is inside the lock (`OnItsWay`); a wake event that is cleared before the loop
looks, and not after, is what makes it inductive. `TypeCorrect` holds whatever has
outlived its instance; that an instance which is stopped has a successor (`Reloadable`)
is the one fact that types do not give.

**NotifierProofs.** `Coherent`: a delivery that nothing overlaps finds the prepared card
its own or none from its `prepare` to its `clear_prepared` (`PassCalm`, `TestsCalm`), two
that overlap know of each other (`Apart`), and when nobody is busy nothing is left behind
(`Cleared`). From it `NotifierTypes`, `OwnCardOnly`, `EachGetsCard` and `ModeIsTold`, for
any batches, targets and commands.

**CatalogProofs.** `Consistent` relates what a check has in hand to the disk at each of
its stages: what it has not come to is as it was (`Framed`); sources of this check's
baseline had never been heard (`Heard`); an alias that is new or another belongs to a
record that this check found with a repository and the last one without (`Moved`); after
the first merge the plugins are what that merge makes of the disk's (`Merged`); and the
catalog on disk is faithful (`FaithfulTo`). `CatalogFaithful` is not inductive: the merge
compares ranks, so a field without a value must come from nowhere, or an old empty value
would keep out a new one. Two facts carry the action properties: the ids of records
without a repository are their own (`FallbackInjective`), so that no alias goes astray,
and a merge over a faithful record leaves it as it is (`MergedAgain`), so that the second
merge, priorities and what was merged long ago change nothing by themselves. Theorems:
`CatalogTypes`, `CatalogIsFaithful`, `NothingIsMissed`, `BaselinesAreSilent`,
`UpdatesAreGrounded`, over `PagesPartition` and `ChunksFit`, which say that every event
is on a page. That a first of several observations exists, for any number of them, is
`LexMin`, a least element of pairs of numbers.

The proof corrected a property. `UpdatesGrounded` did not count a record that, before
this check, was the plugin by an alias: with two records of one source, one can be given
another repository and the other then speak for the plugin. The run's bounds have one
record, so TLC had not met it; it does with two.

**SourcesProofs.** `Known`: the listings have one record of an id and no record gets older
(`ListsOK`); what was read so far of the issues is no later than what is listed
(`Stamped`), which is what makes the choice between two versions right; until a
duplicate or a changed total spoils it the reading is what was shown (`Readings`); a
snapshot that can be asked for conditionally is the observations of its ETag's page
(`Snapshots`). Theorems: `SourcesTypes`, `CompleteIsGrounded`.
`CompleteCovers` states `Covers`; its invariant is `Reach`. In a listing of issues a
plugin that was listed all along is read or lies beyond the pages read so far (`Ahead`).
In the search that is not so: a repository which changes moves from a page to come to the
first, past the reading. There the count makes up for it (`SearchReach`): as long as the
total is the one declared and every listed result counts, each one that was seen is
another repository that is listed still, so that seeing as many as there are is seeing
all; and while one is listed that does not count, nothing has moved. A snapshot of the
search that is asked for conditionally was of a listing of one page (`OnePage`), since
its ETag holds the total. TLC checked `Reach` with one and with two records on a page.

**GatewayProofs.** `Kept` adds to the properties that a listing and metadata are never
asked for together and nothing is under way between groups (`Staged`), that what is
used and what is left are together within the allowance (`Solvent`), that the ETag in
the cache, on disk and in memory, is of the facts beside it (`EtagOfFacts`), and that
between checks nothing is kept but what is on disk (`Loaded`). `BudgetKept` is not
inductive without `Solvent`, nor `CacheTruthful` without `EtagOfFacts`: a 304 to an
ETag of other facts would confirm the wrong ones, also after a check that was lost with
later ETags. Theorems: `GatewayTypeCorrect`,
`WithinBudget`, `PlacesKept`, `RateLimitReported`, `CacheConfirmed`. `UrgentOnesFirst`
needs that, while the check may make requests and some are urgent, those are exactly the
ones of the group that runs which wait for their turn (`Urgency`); `TokenNotSentAgain` follows from the steps alone.

**PagingProofs.** `ChunksFit`, `SizesBalanced`, `PagesPartition`: for any number of
events and any limit, each event is on one page that exists, pages are within the
limit, and those of cards are not empty and differ by one event at most. `SettingsFit`
and `CardsAccepted` lead from the configuration to the assumptions of the other modules:
whatever it holds, the number of events on a page, the quota and the gap are in the
ranges that `Catalog` and `Outbox` assume, and a card never has more events than its
template accepts.

Only model-checked: all liveness (`Settles`, `Drained`, `CommandsEnd`, `ChecksEnd`,
`Converges`; the prover does not do fairness), and the three properties that the code
violates. What `Message` says of texts rests on a fold over a sequence of any length, and
stays with TLC, as do the other assumptions listed in section 3 except `PagesFit`. Every
invariant and every action property of a passing run has a theorem.

## 6. Where code and documents disagree

Shown by a run:

- `service_two_locks`: `terminate` (`main.py:218`) does not wait for a manual check;
  it goes on under the old lock and overwrites a subscription that is changed before the
  next instance begins, without any lock since `_service` is gone and `_store` is not
  (`main.py:745`: this is TLC's trace), or what the new instance saves. (Its next
  request also opens an HTTP session, `http.py:116`, that nobody closes; DESIGN.md:112.)
- `notifier_mixed`: `test-push` (`main.py:523`) uses the delivery pass's notifier
  without the lock; a pass whose own render failed sends the diagnostic card.
- `catalog_backfill`: GitHub's first answer turns an unknown archived flag into False
  (`github.py:221`), which is announced as an update of a plugin that did not change.

Met while modelling; the models do what the code does:

- `drain_pending` (`service.py:123`) delivers without the probe save of a check: on a
  file that cannot be written each drain sends the same messages again. FSD.md:436
  and FSD.md:589 ask for the contrary. Without `job # "drain"`, `ChecksStopSending`
  fails.
- `outbox.py:186` compares `next_retry_at` with `now` as text, `next_outbox_due_at`
  as instants. A time of a whole second has no fraction and sorts after the others of
  its second, so the drain may be called for up to a second with nothing to do. With
  `TicksPerSecond = 2` in `OutboxTargets.cfg`, `DueDrainSends` fails.
- `state.py:159` passes over a file that cannot be read at the moment of the look for newer
  files. If that is a newer backup beside a state file of this version, the save copies
  the state over it (`state.py:88`): without `unseen`, `NewerUntouched` fails.
- `service.py:234` asks `lock.locked()`, which is false between a release and the
  first waiter's turn: a check may then queue although FSD.md:51 has it give up.
- `main.py:614`: when `test-outbox-deliver` fails after it lifted the hold it returns
  without waking the drain loop; the diagnostic batch waits for the next wake-up.
- FSD.md:460 has the status report a refused token; a 403 after the 401, then a 200,
  leave "ok" (`github.py:149`). It also says that no request is repeated without the
  token: one first sent with it may be, by the client's retry. And a 401 that arrives
  after a rate limit is not recorded, so a request that sleeps then still carries
  the token when it wakes.
- FSD.md:463 ends requests to an endpoint that answered 429; the other place of the
  semaphore goes on while the first request sleeps its Retry-After.
- FSD.md:314 makes no event of a repository that moves; a record whose repository is
  another one becomes another plugin and is announced as discovered.
- FSD.md:433 has the outbox's back-off with jitter; `outbox.py:504` has none.
- DESIGN.md:49 says schema v1, and FSD.md:418 that a version above 1 is refused; the
  code writes version 2 and upgrades version 1 when it reads it (`FilesUpgrade`).
- `normalize.py:51`: a repository URL that `urlsplit` refuses (`https://[oops/a/b`)
  raises out of the fetcher. One such record fails its whole source
  (`fetch_exception`), the market's fallback is not asked, and so on until the record
  is gone; FSD.md:83 tolerates rejected records and FSD.md:87 asks the fallback.
  `Converges` leaves this out by name (`Fatal` in `Readable`). A record of the market
  without key and repository raises likewise (`normalize.py:100`).
- A market's record with an empty key and a repository is accepted, and so are an empty
  `ETag` or `Last-Modified` header, negative numbers of stars and an empty
  `updated_at` of GitHub; the strict schema then refuses the state, so that every save
  fails and no source is kept (`OnlyTheseStopSaves`). FSD.md:111 has a single source's
  failure not keep the others from completing.
- `Covers` names what the `complete` of FSD.md:179 cannot promise: a record that moves
  to a page already read while another leaves the listing is missed, and a second page
  of issues that comes up behind a first one that is as it was is not asked for
  (`issues.py:74`), since an ETag speaks of the first page only.
- `summary.py:88` stops at the first event that goes over 3500 characters; the notice
  says so, and the batch counts as sent for all. The ten events of a text by
  default just fit with the longest descriptions, the fifteen of a card whose text has
  to stand in for it do not, nor would more of a text (`LongTexts`). FSD.md:510 and
  DESIGN.md:63 know no event that is left out.
- docs/CONFIGURATION.md:123 and DESIGN.md:81 have at most 5 events on a card; the code
  takes 5, 10 or 15 from the configuration, 15 by default.
- An introduction of nothing but control characters is reported as too long
  (`Generated`); the prompt is built outside the `try` (`ai.py:90`).

Consequences of the documents that a reader might not expect: a plugin that changes
to B, back, and to B again is announced once (FSD.md:429-433: equal ids); what GitHub
says in a check in which all sources fail is saved and never announced; the value of
a better source stays when that source no longer gives one; changes found while there
are no targets are not announced later; requests for metadata are made in the order of
the ids and a repository that is not found never counts as fresh, so those behind it
may never be asked about (`github.py:187`).

## 7. What is not modelled

- Which text of an issue or a search result is which field of a plugin, the names that
  `normalize.py` makes of names and URLs: a record has the id it has and a version. The
  parsers take one text and give one record; they keep no state between records.
- JSON itself: a file reads or does not; of a value `Schema` has the kind.
- The HTML template, escaping, wording, the prompt, the cleaning of an answer by its
  patterns, the status report: output without state. Lengths, page counts and columns
  are modelled where a limit depends on them.
- Delays, size limits and sessions of the HTTP client: an answer comes, fails or is
  tried again.
- The counters of the status page, stars and time stamps: no event depends on them.
- Classification of a 403 by its text: any class may be answered. An answer 200
  without an ETag is assumed not to come.
- The host's registration of handlers (`astrbot_handler_compat.py`: it is done once,
  by the host's own rules), `test-github` (a client of its own, which keeps nothing),
  `test-ai` (`Message` has what the service answers), the exception classes.
- The release scripts: they pack files and are not part of the running plugin.
- Hazards in `PROJECT.json` without a property are those in which the code departs from
  what a property would say, `main.py:614`, `service.py:485`, `github.py:149` and
  `summary.py:88` (section 6), one in which nothing is promised (`github.py:187`), and
  one in which a document asks for what a reader might take
  for a fault (`outbox.py:82`).

## 8. The plan

Done, in the order of importance: Outbox with Throttle and Delivery; StateStore with
Register; Service; Notifier; Catalog with Paging; Gateway; Sources; Schema, Settings and
Message; the proofs above.

Next: what is evaluated for bounded inputs only and is no fold, `SettingsInRange` and
`TargetsAgree`, and a theorem that what `Catalog` takes as given of a fetch (a complete
listing of one moment, or nothing) is what `Sources` delivers while a listing stays as
it is.
