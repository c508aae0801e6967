# Verification of domainSync

TLA+ models of the backend of domainSync (`src/backend`), their TLC runs and
TLAPS proofs. `PROJECT.json` is the index: components, runs, the source lines
behind every definition, the mutants that show each property can fail, the
disagreements found, the hazards, and the theorems.

    tlc -workers 2 -config CycleTurns.cfg MCScanCycle     # any run of PROJECT.json
    tlc -workers 2 -config ServerSound.cfg MCServer       # eight parts at once
    tlapm Catalog_proofs.tla                              # any *_proofs module

## 1. Inventory

domainSync keeps a catalogue of the products several Shopify stores sell, with
one store (donut-equipment.com) as system of record. One FastAPI process: async
endpoints, scans, tasks and executions are coroutines of one event loop; plain
`def` endpoints and force merges run in threads. State is in SQLite
(WAL, one writer, SQLAlchemy sessions), in module-level dictionaries that a
restart loses, and in the Shopify stores themselves.

| Part | State | Operations | Talks to | Hard because |
|---|---|---|---|---|
| Task manager `tasks/manager.py` | dictionary of tasks | submit, wait for dependencies, run, fail, clear | scan cycle | clearing, failures, restarts between polls |
| Scan cycle `api/routes.py` 1540-1661 | one JSON row | start, tick off a domain, deduplicate, approve | task manager, source scan, deduplication | check-then-await, read-modify-write in threads and coroutines, failure of one domain |
| Source scan `scrapers/source_scraper.py`, `shopify_scraper.py` | scan sessions, listings with stamp and status | start, page, persist, archive, complete, cancel, recover | stores, force merge, catalogue | truncated fetches, overlapping scans, cancellation from a thread |
| Catalogue `dedup/engine.py`, `dedup/force_merge.py` | products, listings, duplicate candidates | persist, merge, flag, reject, delete, deactivate | scans, users | merges in several threads on stale reads, UNIQUE races, rollbacks |
| Canonical price (same files) | `price_canonical` | take over, adjust, recompute, edit | scans, merges, users | several writers with different rules |
| Webhooks `api/routes.py` 2829-3016 | saved rows, Shopify's webhooks | save and disable, restore, delete one | Shopify client | two stores of truth, late commit, retries, crashes |
| Shopify client `shopify/client.py` | - | calls with retry | all live features | retries of calls that are not idempotent |
| Live sync `shopify/{scanner,scan_cache,differ,executor}.py` | snapshots, execute state | scan, diff, execute | client | gate across an await, stale snapshots, GET-modify-PUT |
| Edit push `shopify/edit_products.py`, `api/routes.py` 709-825, `app.js` 1371-1612 | staged edits in the page, one execute state | stage, push, poll, apply results | executor, live sync's writes | several stores, partial failure, one state for all pages, restarts |
| Scheduler `scheduler/scheduler.py` | job rows, APScheduler registry | create, toggle, delete, run now, fire, reload | scans, export, dedup | two registries changed in different orders, threads, failing jobs |
| Token cache `api/routes.py` 2495-2555, `client.py` | dictionary of tokens | take, exchange, edit credentials | all live features | the exchange is awaited; expiry |
| Settings `config.py`, `api/routes.py` 1399-1481, 2346-2361 | one tree, settings.yaml | add, remove, change sites, save, load | all | threads on shared lists, a file that is emptied first |
| WebSocket broadcast `api/routes.py` 75-118 | list of sockets | connect, disconnect, broadcast | every progress report | the list changes under the loop |
| Site crawl `scrapers/base_scraper.py` | browser, counters, worklist | fetch with retries and repairs, discover, extract | source scan | heuristics that reset each other, pages that fail |
| Comparison pages `api/routes.py` 330-632, 1680-2058, `dedup/matchers.py` | none of their own | four ways to say what stores miss and where they differ | catalogue | written apart, read together; filtered before and after paging |
| Product id mapping, search, Yahoo scraper, exports, reports, categorizer, CLI, rest of the frontend | - | - | - | formatting, I/O, heuristics on foreign pages: not modelled |

What makes each modelled part correct:

- *Task manager*: a task runs after what it depends on, never after a failure,
  and is always decided.
- *Scan cycle*: full scans take turns; the deduplication sees every domain
  scanned; nothing of an old cycle touches a new one; an approval stands.
- *Source scan*: a scan archives only what the store no longer shows, and never
  what it saw itself; a completed scan mirrors the store; sessions end, and end
  once.
- *Catalogue*: no listing is lost and no group of merged listings is split;
  merges go to active products and never take away a product of the system of
  record; the candidate table stays consistent under concurrent writers.
- *Canonical price*: it is a real price, and the system of record's where there
  is one.
- *Webhooks*: none is lost, none is doubled, and only what is gone is restored,
  as long as Shopify answers.
- *Live sync*: executing all that differs leaves nothing that differs; a
  transaction touches only what it is about, whatever others did since the scan;
  collections are not doubled; an execution ends, and the next can start.
- *Edit push*: a push writes what its edits ask for and nothing else, has one
  result for every edit, ends, and no edit disappears unless it was pushed.
- *Scheduler*: APScheduler's registry follows the table, and what is due runs.
- *Token cache*: a request gets a token that works, issued for its credentials.
- *Settings*: a site stays listed until it is removed, and away until added.
- *Broadcast*: who was connected when it began and stays, gets the message.
- *Crawl*: the whole site is looked at, and every product page counted once.
- *Comparison pages*: they agree with each other, and paging loses nothing.

## 2. Plan

Done, in this order: `TaskManager`, `CycleGate`/`ScanCycle`, `SourceScan`,
`ListingGroups`/`Catalog`, `CanonicalPrice`, `Webhooks`, `LiveSync` (scan cache,
diff and executor in one module); proofs of `TaskManager` and `Catalog`; then
`Scheduler`, `TokenCache`, `Settings`, `Broadcast`, `Crawl`,
`Matchers`/`ProductViews`, `EditPush` and their composition `Server`; then the
proofs of `Scheduler`, `TokenCache`, `CanonicalPrice`, `ScanCycle`, `Webhooks`
and `Server`, of `SourceScan`, `LiveSync` and `EditPush`, of the two
refinements, and of the remaining parts of `Server`.

Next:

- Models: `ProductMapping`; who waits for SQLite's lock while holding the event
  loop; the back-off after 429 answers of the Admin API.

## 3. Modules

Every module names its code in its header; `PROJECT.json` "map" has the lines.
Actions are the pieces of code between two points where another actor can get
in: between two awaits for a coroutine, between two transactions or two accesses
to shared objects for a thread.
Definitions whose comment starts with "Mutant of" are not part of a model: each
is a plausible bug, used to show that a property notices it. SourceScan has a
variable `env`, Webhooks `around`, CanonicalPrice and LiveSync `setting`, EditPush
`scope`, that is chosen at the beginning and never changes: it says which failures,
overlaps and other doings of the surroundings occur. One run so covers several surroundings,
and a property can say in which of them it holds.

**TaskManager.** `st`, `deps` are `Task.status` and `Task.depends_on`. `Submit`
takes a batch, since a cycle submits its tasks without an await. A waiting
task's poll is `DependencyFailed` or `Run`; dependencies that were cleared
count no more (`Watched`), as in `_run`. `LoseAll` is a restart.

**ScanCycle** instances TaskManager for its tasks. The row is `cyc` (with
`count`, the cycles started, which the code does not keep). A start request is
`StartCheck`, then `PreflightFails` or `StartCycle` after the await. A task reads
the row and writes it back (`ReadRow`, `WriteDomain`, `WriteDedup`): other
coroutines cannot get in between (`busy`), the approval in its thread can, and
is itself split (`ApproveRead`, `ApproveWrite`). `CycleGate` is the abstract
specification: idle, scanning, deduplication, review, complete, in turns.

**SourceScan** is one store. `shop` is the store's truth, `status` and `stamp`
the listing rows, `sess` the session rows, `task` the coroutine with its
locals: page, attempt, what was fetched (`got`) and persisted (`seen`, a history
of the scan). A page is one request; each listing is persisted on its own; a
fetch from the Admin API is one step although it pages, too. `cancel_scan` runs in a thread: cancelling the
task (`CancelTask`) and marking the row (`CancelWrite`) are two steps, and the
cancellation may reach a task that is in the middle of a piece of code, which
then first goes on to its next await (`dying`). Cycle sessions are unknown to
the endpoint, so their tasks are not cancelled.

**Catalog** is the catalogue of all stores. One transaction that writes is one
action; what a session read earlier is state of its thread (`fm[t]`): the
products active at the start, those the system of record shows, the index of
match keys, the products whose loaded `is_active` is still believed, and the
listings loaded with the secondaries, all forgotten after a commit or rollback
(`Expired`). Abstractions: SKU, model and title are one key; the deduplication
flags any pairs that share a store and commits every candidate (the code every
250 or at its end); a manual merge reads and writes in one step; the lower id
of a key is the indexed one, as rows come in id order. `ListingGroups` is the
abstract specification: listings form groups that only ever grow together.

**CanonicalPrice** follows one number through the same operations. Prices are
whole numbers; "more than one per cent" is computed without division. A listing
whose content changed is read and saved in two steps, with merges in between
if the setting has "race"; a store may show it as archived, which makes it inactive.
Of `scraped_at` the order counts: `age` is how many listings
were scraped since. `known` is a history of real prices.

**Webhooks** is one store. `installed` is Shopify, `saved` the committed table,
`h[q].pend` what request q's session has not committed, `writer` who holds the
write lock. Shopify's ids are numbers given in order. A refusal, a lost answer
followed by the client's retry, and a crash can meet every call. A retry after
a lost answer always gets through; that it can be lost as well adds only more
copies of what the runs already show. `wanted` is a history of what the user had
installed and has not deleted.

**LiveSync** is one pair of stores. `shop` is what they hold, `mem` and `disk` the
snapshots of `_scan_cache` and `data/scan_cache`, `plan` the transactions the
browser got from the last diff, `run[r]` a request to execute some of them with
the locals of its job (`todo`, `resolved`, `known` are the queue,
`resolved_collections` and `collection_members`; `got` is the product a GET
returned). `Request`, `Start`, `List`, the steps of a transaction and `End` are
what lies between two awaits; `CallFails` is an error answer to the call that is
due. A snapshot that was read from its JSON file has `keys = "string"`: the diff,
which looks memberships up by number, finds none (`Memberships`). A product has
one plain field for all plain fields (with one value longer than 80 characters,
cut by `Short`), tags, one variant and collections. Which of these the stores of
a setting differ in, and what else happens, is in its `setting`. `whole`
and `had` are history: that a job was given all that differed when it started, and
what products the destination had then.

**EditPush** follows an edit from the page to the store and back. `edits[p]` is
what page p has staged, named by cell as `change_id` names it; `exec` is
`_edit_execute_state`; `job` the coroutine with its transactions, what the GET
returned (`saw`) and the results of the store (`out`), which reach the shared
state only when the store is done. `Execute` is one step up to the start of the
task, since the endpoint does not await. A membership of a collection is looked up
(`LookUpMembership`: find or create the collection, read its collects) and then
added or removed by a call of its own, which Shopify refuses if somebody else has
made it meanwhile. `Rival` is anybody else who writes to
the product, the live sync's own job included, whose gate is another one.

**Scheduler** has the table (`jobs`) and the registry (`reg`, `manual`). A request
is cut wherever another thread makes a difference: `CreateCheck`/`CreateInsert`/
`CreateRegister`, `ToggleRead`/`ToggleEntry`/`CommitActive`,
`DeleteEntry`/`DeleteRead`/`CommitActive`. A commit writes the column only if its
value differs from the loaded one, as SQLAlchemy does, so two toggles can leave
an inactive job registered; `raced`, a history, names the jobs to which that
could have happened. `ExecuteJob` changes nothing: see the findings.

**TokenCache** counts time in steps of the longest an answer takes to be read; a
shop issues a token at `Issue`, and the cache counts its life from `TokenRead` on.
Credentials are set field by field in a thread (`SaveCredentials`, `SetField`,
`CredentialsSaved`); meanwhile `creds` is any mixture of the old and the new ones,
and a shop accepts none that is neither (`Between`). Who reads them then is noted
in `edited`.

**Settings** keeps Python's objects apart: dictionaries, the lists of them, and
which list is in the tree, because a request may hold a list that has been
replaced. A request looks (`Decide`), changes the list or a dictionary of it in
place (`Act`), puts the list back (`PutBack`) or a list of its own in its place
(`Replace`), and saves. Saving is three steps: `OpenYaml` empties the file,
`DumpYaml` represents the tree as it then is, and `CloseYaml` writes that text. Of
two saves that overlap, the older text may therefore be written last, and a text
that is written over a longer one leaves the end of that behind ("mixed");
`Readings` are the lists of sites that a new process may find in the file.

**Broadcast** models Python's loop over a list as what it is, an index.

**Crawl** has the scraper's belief about its browser (`scraper`: context, whether
it has proved itself, the counters) beside the browser's real state, and the
crawl's worklist. URLs are nodes of a small graph; a sitemap that lists sitemaps
(`SubSitemaps`) has all of them read, and what they list added up. `Retry`, `GiveUp` and
`RepairFails` are the ways a failing fetch goes on; "fast" and "named" are what
the heuristic looks at: a failure within 1.5 s, an error text on its list.

**ProductViews** has the catalogue as variables, changed by anything that scans
and merges do, and each page as an operator written the way its endpoint computes
it: Store Compare's `LightPass` on all rows and `OnPage` after the cut,
`SummaryMissing`, `SoRMissing`, `SoRDiffering`, `FuzzyPairs`, `DomainComparison`.
A listing has a text, which stands for title, manufacturer, model number and SKU, a
category and a price. The category is compared by Store Compare only
(routes.py:292-298, 1677, 2027); prices are compared exactly by Store Compare, which
takes 0 for none, and by Domain Comparison, which does not, and to the cent by System
of Record (`Cents`).
**Matchers** is the scorer, in whole per cents.

**ProductViews** lists a product set in its order with `InOrder`, and **Crawl**,
**Broadcast**, **Settings** and **ProductViews** filter lists with `Only` of
**Selection**: what SortSeq and SelectSeq give, in a form the prover can unfold.

**Server** composes the eight parts that share no state: Scheduler, TokenCache,
Settings, Broadcast, Crawl, ProductViews, CanonicalPrice, Webhooks. In the program
their steps interleave freely. No part reads a variable of another, so in any
interleaving the steps of one part, taken alone, are a behaviour of that part;
a property of one part's variables holds in every interleaving if it holds in
those in which only that part moves. `focus` picks that part, which keeps the
product of eight state spaces a sum. Parts that do share state (a scan and the
catalogue, a push and other writers of a store) are composed inside their modules.

## 4. Runs

| Run | Instance | Shows |
|---|---|---|
| TaskManager | 3 tasks | dependencies hold, every task is decided |
| CycleTurns | 2 domains, 3 cycles, 1 start request, failures, restarts | cycles take turns, no straggler, an undisturbed cycle reaches its review |
| CycleOverlap | 2 domains, 2 start requests | **violated**: a second cycle starts over the first |
| ScanSound | 3 listings, pages of 2, 2 scans, 1 change, 4 surroundings | a completed scan mirrors the store, truncation by 429 archives nothing, a scan keeps what it saw, sessions end, once |
| ScanTruncated | the same store, pages that fail | **violated**: live listings are archived |
| CatalogForceMerge | 4 listings of 3 stores, 3 products, 2 threads | the lock suffices and is given back, no listing is lost, groups only grow |
| CatalogUser | 3 listings, 1 thread, 1 deduplication, user's merges, rejections, edits, deletions, deactivations | a merged pair has a loser |
| SyncSound | 1 or 2 products, 2 executions, 1 edit by others, 11 settings | what was approved in full converges, tags of others survive, collections are not doubled, executions end |
| EditPush | 2 or 3 cells of up to 3 stores, 1 or 2 pages, 2 pushes, 1 foreign write, 7 settings | every edit has one result, none is lost, only its field is written, pushes end |
| ServerSound | per part: 2 jobs and 2 requests; 2 requests, 2 credentials and their mixtures, clock to 3; 2 sites, 2 requests; 3 sockets, 2 broadcasts; 10 URLs; 2 products, 4 listings of 3 stores; 3 listings, 3 prices, 1 merge; 2 webhooks, 4 ids, 2 requests | see section 1, part by part |
| SchedulerDead | one job, run by hand | **violated**: it fires and nothing runs |
| BrowserDead | the crawl, a browser that dies | **violated**: it is not restarted, page after page is given up |

A violated run states what a comment, document or message of the repository
says, quoted under "findings"; the passing run of the same module shows that the
property, or its conditional twin, holds without the ingredient that breaks it.

### Where the properties stop

Several properties hold under a condition that the code does not enforce. The
condition is part of the property, and dropping it lets TLC find these:

- `ScanReachesReview`, without `Disturbed`: a domain's scan fails, so the
  deduplication, which depends on it, is given up (manager.py:66-72). The row
  stays at "scanning" and refuses every later cycle, although app.js:789
  promises deduplication "when all finish". A restart leaves the same.
- `RunningHasTask` (part of `ScanInv`) and `ScanEnds`, with "midway": `cancel_scan` reads status
  "pending" while `run_source_scan` is about to write "running"
  (source_scraper.py:588-592); the task then ends and nobody closes the session.
- `SeenIsNotArchived`, with "overlap": two scans of one store stamp each
  other's listings, and the one that ends first archives what it saw itself.
- `ArchivesOnlyGone`, with "invalid", "crawl" or "shift": a listing that could
  not be written, that the crawl's page limit left out, or that slid over a page
  boundary keeps its old stamp and is archived until the next scan.
- A force merge believes the is_active it loaded when it began
  (force_merge.py:223) until its first commit: a target that the user deactivates
  meanwhile takes listings with it out of the catalogue.
- The products that the system of record shows are read once per run
  (force_merge.py:155): one that it shows again meanwhile can be merged away,
  against force_merge.py:277.
- `SoRDriftBounded`, with "secondary" in ops: `_persist_product` takes over the
  price of whichever store's listing has changed (source_scraper.py:453), although
  tests/test_canonical_price_sor.py:2-3 has the canonical price "always come from
  the system of record". The test covers the recomputation at a merge only.
- `NoWebhookLost`, with "lostreply": the retry of a deletion meets a 404, the
  row stays active, and restore skips it. With "crash": webhooks are deleted
  (routes.py:2924) before the rows that say so are committed (2941), against the
  order promised at 2882; a crash in between loses them. `NoDuplicate`, with
  "lostreply" or "overlap": a POST is repeated (client.py:46-52), or two restores
  read the same rows; both create a webhook twice. So does, with "crash" or
  "overlap", a restore that creates webhooks (routes.py:2975) and does not come to
  commit their rows (2983): they are installed under new ids, the rows are inactive
  as before, and the next restore creates them again. All that is claimed then is
  `DisabledIsGone`, that a row marked as disabled has no webhook under its own id.
- `PutKeepsOthers` and `OneCollectionPerTitle` (part of `SyncInv`), with "window": what others write
  between the two calls of one transaction is overwritten (executor.py:117-122),
  and a collection created between lookup and creation is doubled. With
  "overlap", two executions pass the gate (routes.py:2763), which is set only
  after the access token was awaited (2774), and do this to each other.
- `SyncConverges`, with "long": `_short` cuts a value to 80 characters and "…"
  when the plan is made (differ.py:160), and the executor writes the plan's value
  (executor.py:113). It says that no product is missing and that nothing differs
  on those the destination had; a created product gets only handle, title and
  status (routes.py:2728-2734) and needs a second diff. And it speaks of plans that are what a diff of fresh scans would be. A
  plan made of snapshots from disk may not be: reloaded, the source seems to have
  no memberships, and those the destination has are added again. Snapshots in
  memory never expire at all.
- `PushLeavesTheRest`, without `job.saw = live[s]`: as above, now between a push
  and anybody else. The two gates (routes.py:2763, 752) do not know each other.
- `NoEditLost`, without `meddled`: results are applied by cell to the edits of that
  moment (app.js:1584), so a value typed during the push is cleared with the one
  that was pushed; and a page that polls after another page's push has begun gets
  the other one's results. A variant that is gone since the scan is passed over and
  reported "ok" (executor.py:131), which the property allows.
- `PushInv`, with "raise": a store that fails inside the executor gets its results
  but is not counted (routes.py:804), so that the progress ends below its total.
- `PushEnds`, with "restart": a new process says neither running nor finished, and
  the page polls for ever (app.js:1574).
- `RegistryFollowsTable`, for jobs in `raced`: two toggles that overlap, or a commit
  that fails after the registry was changed, leave a job registered that is
  inactive, until a restart. A deleted job is only deactivated, and keeps its name.
- `TokenServes`, for sites in `edited`: new credentials do not drop the cached
  token, so requests go on with the old ones for up to a day; and credentials that
  are read while they are being set (routes.py:1468-1471, 2531-2533) are a mixture,
  for which a shop's token may be cached that the saved ones would not get.
- `ReachesTheOpen`, once a socket was removed during the broadcast: whoever stands
  behind it in the list moves up, and the loop passes over one socket.
- `SitesStay`, with `met`: a removal that overlaps another request puts back a list
  without the other's change, or is undone by it. With `crossed`: of two saves that
  overlap (config.py:88-95), the one that represented the tree first may reach the
  file last, so that a restart loses a site that was added; or the file is a mixture.
  And it does not speak of a restart after a request was killed between its change
  and the end of its save (the file may be empty). Left out of the model: a tree that
  changes while yaml.dump walks it, and a text longer than the buffers, which reaches
  the file in parts. The limit of two destinations is not looked at by
  add_source_site (routes.py:1418).
- `WholeSiteSeen` counts a product page that was visited as somebody's "next" page
  as seen, although it is not listed as a product (base_scraper.py:791).
- `PagesAgree` says where the pages do not agree: a product that no store carries is
  in Store Compare's list and not in the summary; two stores that differ only in
  category, or in price by less than a cent, are told apart by Store Compare only; a
  price that one of them lacks, or gives as 0, is a difference for System of Record
  only. Nothing in the repository promises otherwise.

*Bounds.* Two actors suffice for every race here, since each involves one
reader with a stale value and one writer; a third cycle lets a straggler of the
first one meet the third. Three listings on pages of two give a full page, a
short last page and, with two listings published, an empty page after a full
one; one change between two scans is enough for a listing to appear or to go.
Four listings compete for three products in CatalogForceMerge, so that every
choice of three occurs: two of the system of record and one other, or one of
each store; three products let a merge chain. Four webhook ids are two installed
webhooks and two creations, so that a POST can be repeated and a restore can follow
another one. In SyncSound one product suffices for what
transactions of one product do to each other, two products share a collection to
be created, two tags are one the plan is about and one it is not, and one edit
falls anywhere; fields are taken a few at a time, since no transaction reads a
field that another one writes; the same holds of a push. Three stores are one
without credentials or rows between two that work. Three sockets are one before,
one at and one behind the index. The site of the crawl has a page of every kind
(categories, products that are linked twice and one that is somebody's "next" page, an
index of two sitemaps that list products, one of which is also tried alone). Of its
five pages four are visited, so that the page limit is reached with a page ahead,
whenever none of them fails; with two products from the sitemaps there is no crawl. Its
thresholds are 2, so that one failure is below and two reach them. The clock
goes one step beyond a token's life. `MaxProducts`, `MaxCycles`, `MaxChanges`,
`MaxMerges`, `MaxIds`, `MaxCids`, `MaxEdits`, `MaxWrites`, `MaxPushes`, `MaxTime`,
`MaxDicts`, `MaxLists`, `MaxBreaks` and `DedupRuns` bound what would grow for ever, in the
guards of the actions named after them. Deadlock checking is off everywhere:
when nothing is requested the system rests, and with every bound used up the
models do.

*Fairness.* Liveness is claimed only of work under way: the event loop runs
every ready coroutine and requests have timeouts (`WF` on a scan's steps), tasks
poll every two seconds (`WF` on a task's steps), a force-merge thread that holds
the lock is scheduled (`WF` on its steps), an execution goes on since its calls
time out and their retries are counted (`WF` on a job's steps), a page polls while
it waits for a push (`WF` on `Poll`), APScheduler fires what is due (`WF` on `Fire`
and `FireManual`). Nobody is obliged to start, approve,
merge, cancel or restore, and stores need not change. 429 answers are not fairly
bounded: `ScanEnds` holds because the code counts them.

## 5. Proofs

**TaskManager_proofs** (any set of tasks). `IInv` strengthens the two safety
properties: every dependency has been submitted (`DepsSubmitted`), and what a
task that has begun depended on is complete or cleared (`Settled`). The first is
needed because a dependency that was never submitted would be unwatched and
could be submitted later; the second is both properties in the form a step
preserves. Proved: `TMTypeOK`, `RunsAfterDependencies`, `NeverAfterFailure`.

**Catalog_proofs** (any listings, stores, keys, products, threads, operations,
deduplication runs; from `CatalogAssumption` only). `IInv` is `TypeOK`,
`RefersToCreated` (sessions, candidates and active flags refer only to products
whose row exists), `LockHeld` (who has begun holds the lock) and
`MergedPairHasLoser`. RefersToCreated is needed because creating a product makes
one active: were a merged candidate to name an id not handed out yet, its loser
could come to life. Proved: `TypeOK`, `MergedPairHasLoser`, mutual exclusion of
force merges (`OneAtATime`), and, with `DedupRuns = 0`,
`LockPreventsDuplicateInsert` from `LInv`: a thread that is about to merge has
two different products in hand, the other threads are idle, and no other action
adds a candidate. `MInv` and `KInv` say of the objects a merge has in its hands
what is still true of them: the listings it loaded are still the secondary's, and
the target is active. From them follow `NoListingLost` (`ListingsKept`, without
manual merges and deactivations) and that the catalogue implements `ListingGroups`
(`CatalogGroups`, without manual merges). The conditions are on what users do, not
on races: a manual merge in between makes the listings that a session has loaded
stale, and a group is then split; the run CatalogForceMerge is checked under the
same ones.

**ScanCycle_proofs** (any domains, cycles, start requests). The argument is the task
manager's: what runs is what has begun (`WorkersRun`), a deduplication depends on
its cycle's domains, which stay in the dictionary as long as it does
(`DedupWaits`): they are submitted together, and only a restart takes them away,
all at once. Without this a dependency could become unwatched while the
deduplication waits, which would then run at once. `BusyWorks` is needed for the
pieces of a task between reading and writing the row. Proved: `TypeOK`,
`DedupAfterAllDomains`, overlapping cycles included. With one start request at a
time and no approval before its time, `TInv` says that tasks of earlier cycles are
over (`NoStrays`), what a task or the approval has read of the row is what it still says
(`ReadsAreFresh`), and which domains are ticked off in which phase (`Ticks`,
`Phases`). From it follow `CycleInv` and, step by step, that the row
implements `CycleGate` (`CyclesTakeTurns`).

**Webhooks_proofs** (any finite set of webhooks, any ids and requests; from
`WebhooksAssumption`). Two invariants. `AInv` holds whatever goes wrong: ids are
handed out once (`HandedOut`), so that an id a row has marked inactive never comes
back (`Sane`), in the table and in what each request has not committed. `BInv`
holds while Shopify's refusals are all that goes wrong: one request at a time, and
`Good` of what will be in the table when it commits, which is the table itself, the
rows of a save, or the table with the rows of a restore put over it (`Merged`).
`Good` is `Sane`, `Apart` (an active row's webhook is installed, an inactive row's
nowhere under any id, no two rows or webhooks alike) and `Safe` (what is wanted is
installed or inactive in the table). The properties alone are not inductive:
that restore creates no second webhook rests on a row about a webhook being found
again under its first or its latest id, which is the last clause of `Apart`.
`HInv` is for the types: what is being restored are saved rows, and what the writer
is going to commit keeps every row of the table, so that no restore meets a row that
is not there. `CInv` says that a save under way is going to commit what the table says is
disabled as the table says it, so that `RestorableIsGone`, which is about the table,
holds in the middle of a save too. Proved: `HooksTypeOK`, `DisabledIsGone` (whatever goes wrong),
`RestorableIsGone` (while refusals are all that does), `NoWebhookLost`, `NoDuplicate`.

**Server_proofs** proves each part alone first.

*Scheduler* (any jobs, schedules, number of requests; from
`SchedulerAssumption`). `IInv` is the types, `RequestsHaveRows`, and for every job
that is not in `raced` `Calm`: at most one request is about it; with none, entry
and row match (`Match`); with one, the job is in the state that request's next step
needs (`Ready`), for instance: before the commit of a deactivation it has no entry,
and the value the session loaded is still the row's. The property alone is not
inductive, as it says nothing of a job in the middle of a request. Other jobs are
dealt with once and for all by `Untouched` and `OtherJobs`. Proved: `SchedTypeOK`,
`RegistryFollowsTable`.

*TokenCache* (any sites, credentials, requests, lifetimes; from
`TokenCacheAssumption`, which has the margin shorter than a token's life). A
cached token's own end is not in the cache, only a time counted from when the
answer was read. `Timely` bounds the difference by one step, `JustIssued` says why:
an answer under way is at most a step old, since the clock waits for it.
`UpToDate` is the second half of `TokenServes` for what is cached and for
requests under way, whose credentials are mixtures only at sites in `edited`. Proved: `TokenTypeOK`, `TokenServes`.

*CanonicalPrice* (any listings, prices, settings, number of merges).
`PriceIInv` adds to the property that an active product still has the listing it
was created for (`ActiveKeepsOwn`), without which a merge could leave a price
behind that none of the remaining listings has had; that a listing shows a price it
has had; and `SavedBelongs`: the listing in the middle of a save belongs to the
product its session read, or that product was merged away and has no price to
lose. Proved: `CanonicalIsReal`, races between merge and save included.

Two more invariants stand beside it. `PricesOK` has the order of scraping:
listings that were ever scraped have different ages below their number
(`Ordered`), which scraping one of them again keeps (`TouchOld`, `TouchNew`).
`Undisputed` is what holds where only the system of record changes prices: every
listing is live, what is being saved is the system of record's, with its product's
price as it is, and every active product's price follows that of its latest listing
there (`Follows`). The property alone says nothing of a save under way. That a
listing scraped again does not change which of the others is the latest
(`LatestStays`) is the lemma it rests on. Proved: `PriceTypeOK`, `SoRDriftBounded`.

*Broadcast* (any sockets, any broadcasts that overlap). `Reaching`: whom a loop
still owes its message (`Owed`) stands in the list at or behind its index, or is the
one it is sending to. Connecting appends behind every index, a peer that is gone is
owed nothing any more, and what a broadcast drops at its end is owed by nobody.
Proved: `BcTypeOK`, `ReachesTheOpen`.

*Crawl* (any finite site, any limits, any failures). `Counts`: products are in the
tally only once they are scraped, and every one that was found is in the list, in the
browser or counted. `Frontier`: a page that was visited and neither missed nor still
open is followed up, that is, what it leads to was visited, is queued or was found
(`FollowedUp`). The property speaks of the end only; there, below the page limit,
the queue is empty. Proved: `CrawlTypeOK`, `WholeSiteSeen`, `EveryUrlCounted`.

*Settings* (any domains, any number of requests). Besides the types (`TreeOK`,
`FileOK`, and `RoomOK`, room for what the requests will add), a request that has
looked is about a dictionary of the list it looked at (`Decided`); as long as no
removal has met another request, that is the list in use, and what a removal is
about to put in its place is the rest of it (`Aligned`); and as long as no two saves
have overlapped, the one that saves has an empty file before it, the text it has is
that of the tree if nobody else has something to save, and a file that nobody is about
to write says what the tree says (`Filed`), without which a restart could change what
is listed. Proved: `SettingsTypeOK`, `SitesStay`.

*ProductViews* (any catalogue of finitely many products, listings and stores, any
texts, prices and product facts, any queries and page length; from
`ViewsAssumption`, which says that no text is no text when normalised, and no price
none when rounded). The types are inductive, and `PagesAgree` and
`PagesCoverOnce` follow from them in every state: the work is in the operators. That
two stores are said to differ by Store Compare, which counts the values it has and
looks for stores that have none, exactly if they do by System of Record, which
compares two values, but for the category, cents and prices of 0 or none, is
`BothCarry` and `OneCarries`; that pages of a list put
together are the list, whatever the length of page and list, is `PagesJoin`; that
`InOrder` lists every element of a finite set once, rising, is `InOrderIs`; that the
second look for differences takes nothing from a page is `PageStays`. Proved:
`ViewsTypeOK`, `PagesAgree`, `PagesCoverOnce`.

*Lists.* Comprehensions and concatenations of pages are recursive functions. The
lemmas `SiftExists`/`SiftIs` and `JoiningExists`/`FlattenIs` show that there is a
function that is what its definition says, by looking at the least length for which
there were none; `OnlyIs` says what the comprehension keeps.

*The composition*: every behaviour of `Server` is a behaviour of each of its eight
parts (`PartsAreUndisturbed`), and therefore every invariant that the run ServerSound
checks holds in it for every instance (`ServerTypeCorrect`, `ServerKeepsItsWord`), and
so does its action property (`ServerKeepsItsSites`).

**SourceScan_proofs** (any catalogue, page size, number of scans and retries, any
failures, overlaps and cancellations; from `SourceScanAssumption`). `SessionInv`
says of each session by itself where its row, its task and the cancellations of it
can stand (`Sound`): for instance a task that has yet to begin has fetched nothing
and its row is still "pending", and without "midway" a row that says "running" has
a task, or a cancellation that has read "running". `MirrorInv` is about what a scan
that nothing disturbs has in hand: what it fetched is what the pages so far show,
what it has seen is what carries its stamp, and a scan under way is the only one.
That pages of a newest-first list add up to it (`Ahead`, `OnPage`) is a lemma about
cardinalities: a listing is on the page that the number of published listings
before it says, and a page that is not full is the last one. Proved: `ScanInv`,
`EndedStaysEnded`, `ArchivesOnlyGone`, `SeenIsNotArchived`,
`CompletedMirrorsStore`.

**LiveSync_proofs** (any products, titles, tags, settings, requests and edits of
others; from `LiveSyncAssumption`). `SInv` adds to the types that every transaction
under way is of a known shape (`Purposeful`), that memberships are of collections
with a title (`SourcesNamed`), that executions that do not overlap are alone (`Exclusive`), and,
where nobody gets between two calls, that collections are single (`OneEach`) and
that what a job found out last about the title or product in its hands is still so
(`UpToDate`), which is what makes the creation that follows a lookup safe and the
PUT that follows a GET lossless. `SyncConverges` sums up a whole execution, so that
its invariant (`QInv`, where nobody else writes and no call fails) is about what is
still to do: in a job that began with all that differs, the transactions left are
exactly what still differs on the products the destination had, and each says what
to write (`ProductsLeft`); they cover every collection that a product is not yet in
(`CollectionsLeft`); and what the job remembers of collections is so (`Remembers`).
A transaction ends what it is about and leaves the other differences of its product
as they are (`Effect`), which is why their order does not matter; `LiveDiffCovers`
has all this of the diff itself, and `NothingLeft` reads the property from it when
nothing is left. Proved: `SyncInv`, `PutKeepsOthers`, `SyncConverges`.

**EditPush_proofs** (any pages, stores, variants, values and pushes; from
`EditPushAssumption`). `EInv` is the types; `Placed`, what the job's locals are
wherever it stands; `Accounts`: a change that was asked for is either left or has
exactly one result, be it in the state or still in the job's hands (`out`), and the
counters are the numbers of results, or no more than that if a store can fail as a
whole; `Honest`: what is reported "ok" has been applied; and `Waits`: a page that
waits for its own push still has the edits it asked for. The property itself
speaks of pushes that are over and says nothing of the middle of one. The steps
that end a transaction, fail a store or begin a push share the lemmas
`AccountsEnd`, `AccountsFail` and `AccountsBegin`, which count. Proved: `PushInv`,
`NoEditLost`, `PushLeavesTheRest`.

Not proved: liveness (`EveryTaskEnds`, `ScanEnds`, `ScanReachesReview`,
`LockReleased`, `ExecutionEnds`, `PushEnds`, and that scheduled jobs fire), which is
TLC's. Every other property of a passing run is a theorem.

## 6. Not modelled

See "components" for every part and the reason. Within the modelled parts:
progress messages and statistics; the contents of listings; the precedence of
SKU, model and fuzzy title; images, options, tags, notes, competitor matches
and version snapshots of a merge; `price_min` and `price_max`; several server
processes on one database file, apart from the candidate race that the handler
in `force_merge.py:251` is about; in live sync images, metafields, smart
collections, products with several variants, products that are not active (scans
leave them out, client.py:244), repeated calls after a lost answer, the
progress counters and `last_result`; in edit push the search for products and
metafields; in the crawl robots, HTML extraction and the text heuristics that tell
product URLs; in the comparison pages sorting and search; what a scheduled job
would do. Search, Yahoo scraper, exports, reports, categorizer and the command line
transform or format data, talk to services outside the repository, or wrap
functions modelled here, and keep no state that several actors share.
