# price-monitor in TLA+

This directory specifies the parts of the repository whose correctness depends on
order, concurrency, failure or a long history: the scrape queue and its workers, the
fetchers, the reading and judging of a page and what is kept of it, the health and repair
bookkeeping, the versioned adapter store and the repair coordinator of `price-monitor`. TLC
checks every module on small instances; TLAPS proves the central theorems for every value
of the constants. Paths below are relative to
`src/price-monitor/src/price_monitor/` unless they start with `src/`.

## 1. The system

price-monitor scrapes the pages of competitors, records prices and repairs its own
scrapers. All state that survives a process is in one SQL database (PostgreSQL, SQLite in
tests) and in two directories of files (HTML artifacts, adapter specifications).

| Component | State | Operations | Interaction |
|---|---|---|---|
| Scrape queue (`services/queue.py`) | `scrape_results` rows: status, lease token and expiry, attempt count; `next_scrape_at` of a target | `enqueue_target`, `enqueue_due`, `claim_next`, `renew_lease` | called by scheduler, API, cron endpoint and workers, each in a transaction of its own |
| Scrape worker (`services/worker.py`) | one claimed job, heartbeat and watchdog timers | `process_one` | claims, fetches, validates, records |
| Result recorder (`services/results.py`) | `price_history`, `current_price`, `scraper_health`, `repair_attempts` | `record_success`, `record_invalid`, `record_failure` | inside the worker's finalising transaction |
| Repair coordinator (`services/repair_coordinator.py`) | `repair_attempts` under a lease, `active_scraper_revision` | `evaluate_one`, `deploy`, `rollback_competitor` | runs in the repair worker and the CLI; uses workflow, runner, reviewer, version store |
| Repair workflow (`repair/workflow.py`), policy, provider, reviewer, runner | none of their own | `evaluate`, `deploy` | ask a provider for a patch, gate it, test it in a container, review it, stage it |
| Version store (`repair/versions.py`) | files `staged/<key>/<rev>.json`, `versions/<key>/<rev>.json`, `state/<key>.json` | `stage_candidate`, `activate`, `rollback`, `get_active` | file lock, atomic replace; shared by competitors with one `adapter_key` |
| Artifact store (`services/artifacts.py`) | immutable HTML files | `store_html`, `read_html` | written by the worker before its finalising transaction |
| Validator (`services/validation.py`) | none | `validate` | judges an extraction against the target's snapshot |
| Fetchers (`fetchers/`) | host rate limiter, robots cache, connection pool | `fetch`, `enforce` | called by the worker |
| Scrapers (`scrapers/`) | none | `extract`, `parse_money` | pure functions of a page |
| Catalog and API (`services/catalog.py`, `api/`) | customers, products, competitors, targets | CRUD, POST scrape | one transaction per request |
| Alerts (`services/alerts.py`, `api/alerts.py`) | `alert_rules` | create, update, delete, evaluate | reads price changes |
| CLI, scheduler and cron endpoint (`cli.py`, `api/cron_router.py`) | none | loops over the above | |
| UI session (`api/ui_auth.py`), web UI (`web/app.js`) | signed cookie; route and form state | login, navigation | HTTP |
| Demo and development seed (`demo.py`, `services/development_seed.py`) | rows of a demo database | seed | |
| Bill tracker (`src/bill-tracker/`) | a list of bills in the browser | add, toggle, filter | independent of price-monitor |

### Behaviours that are hard to test

* a worker whose lease ran out while it was parsing, and that finalises late;
* two enqueuers racing for the partial unique index, and the loser finding nothing;
* a commit that was applied and whose acknowledgement was lost;
* the claim-time snapshot of a price used at commit time;
* a page that changes between two attempts of one row, which share the name of a file;
* robots rules, redirects, retries and pauses that were decided for one request and hold
  for another;
* an alert's state derived again and again from a history that keeps growing, under a rule
  that is edited;
* unlocked read-modify-write of `scraper_health` by two workers of one competitor;
* a crash between a file-system effect (artifact, staged or activated revision) and the
  database commit that refers to it;
* an adapter shared by two competitors, of which only one is deployed or rolled back.

`PROJECT.json` lists them all under `hazards`, each at its line.

### What makes each component correct

* **Queue, worker and recorder.** One unfinished row for a target; a row is finished once,
  by the holder of its current lease; each accepted price continues the history and was
  judged against the price it replaces; every queued row finishes.
* **Health and repair requests.** One open repair for a competitor, none within the
  cooldown; a site that changed gets a repair although counters are lost; a site that
  works again shows as healthy.
* **Version store.** What the state file names can be loaded after any crash; a change
  made for a baseline that is no longer active is refused; activation and rollback look
  atomic.
* **Repair coordinator.** A verdict comes from the holder of the lease; only a reviewed
  combination of candidate and baseline is promoted; store and database agree; every
  repair gets a verdict.
* **Fetchers.** Every hop and every retry goes where the target allows; the target's own URL
  is fetched only where robots.txt allows it (a redirect gets no such decision); no retry
  comes before the pause that the answer before it asked for is over; every fetch ends.
* **Artifact store, worker and recorder.** A row and its snapshot belong together: a product
  is what the snapshot says, a failure is one that the snapshot shows, although several
  attempts of the row may have written the file.
* **Money parsing, scraper, validator.** The price that is recorded is the amount the page
  shows.
* **Repair policy, providers, runner and reviewer.** What may be approved reads earlier pages
  as they were recorded and the failing one as expected.
* **Alerts.** A rule shows `triggered` exactly when an accepted price moved by its threshold
  since it was made, whatever was refused or failed in between.

## 2. Plan

Modules are ordered by how much depends on them. All of them are written, checked and,
where the last column says so, proved about.

| # | Module | Composes or implements | Run | Proofs |
|---|---|---|---|---|
| 1 | `ScrapeQueue` | implements `PriceLog` | `queue_*` | `ScrapeQueueProofs` |
| 2 | `ScraperHealth` | | `health_*` | `ScraperHealthProofs` |
| 3 | `SpecVersionStore` | implements `ActiveRevision` | `version_store`, `store_release` | `SpecVersionStoreProofs` |
| 4 | `RepairCoordinator` | uses the store at the level of `ActiveRevision`, which it implements | `repair_*` | `RepairCoordinatorProofs` |
| 5 | `HttpFetch` over `FetchPolicy` | worker's `_fetch`, limiter, retries, redirects, robots cache, browser | `fetching` | `HttpFetchProofs` |
| 6 | `ScrapeEvidence` over `MoneyParsing`, `SelectorScraper`, `ResultValidation`, `RepairReview` and with `PriceAlerts` | worker, artifact store, recorder, alerts and the review of a repair; implements `PriceLog` | `evidence` | `ScrapeEvidenceProofs`, `ScrapeEvidenceLogProofs` |

What could come next: loss of power under `SpecVersionStore`, batches of `enqueue_due`
and skewed clocks in `ScrapeQueue`, the page state of the web UI (section 6 says why they are
not there).

## 3. Modules

Each definition's lines are in `PROJECT.json` under `map`. The definitions marked
"Mutant" are variants of the definition below them with a plausible mistake; no run and no
proof uses them, and `PROJECT.json` names the property that refutes each.

### ScrapeQueue, PriceLog

State: a row of `scrape_results` is a number with `status`, `target`, `attempts`, `token`
and `lease`; a target has `active`, `due`, `current` and its `history`; each client
executes at most one `enqueue_target` or `enqueue_due`, each worker at most one job.

* Enqueueing is three statements under READ COMMITTED: the look for an unfinished row
  (`RequestScrape`, `StartDue`, `DueAlreadyQueued`), the INSERT in its savepoint
  (`InsertJob`, `InsertConflict`) and the second look (`ReselectFound`,
  `ReselectNothing`). Others run in between.
* `Claim`, `Heartbeat`, `HeartbeatLost`, `HeartbeatFails` and `Watchdog` are `claim_next`,
  `renew_lease` and the two timers. They run only while the worker awaits the page: from
  `FetchPage` to the end the worker does not await, so its lease can run out unnoticed.
* `RecordBegin` and `RecordCommit` are the finalising transaction, which holds the rows
  from `_require_live_lease` to its commit; `RecordAborts`, `CloseCommit` and the second
  disjunct of `RecordCommit` (applied, acknowledgement lost) lead to `record_failure`.
* `Tick` is time. A deadline is kept as what is left of it, so the state space is finite.

The attempt number stands for the uuid of the lease token. `Plausible` stands for the
validator: for each target, the pairs of previous and new price that it accepts.

`PriceLog` is the promise: a target has at most one pending request, which ends by
appending a price that is plausible after the last one or by being given up. It is where
`ScrapeQueue` and `ScrapeEvidence` meet: the first implements it with leases, commits and
clocks and an arbitrary `Plausible`, the second with pages, scraper and validator, where
`Plausible` is the target's own permitted ratio between two amounts that pages show.

### ScraperHealth

One competitor's `scraper_health` row and its `repair_attempts`. The row is read without
a lock, changed in memory and flushed later. The object-relational mapper writes only the
columns that differ from what was read; `StatusAfter` and `ConsecutiveAfter` say what
such a flush leaves in a row that another transaction has changed meanwhile. The UPDATE of
a flush locks the row until the commit. A failure at the threshold is flushed before the
repair decision (`Flush`), whose statements are actions of their own: `CountTargets`,
`FindOpenRepair`, `CheckCooldown`, `InsertRepair`, `CommitFailure`. The repair
coordinator's transactions on the same rows are `BeginRepair` and `CommitRepair`, one
record of tables (`From`, `To`, `Shows`, `Finishes`) for the five kinds. The site is
`page`: good (any outcome), unstable (no success), changed (the adapter fails) or fixed (it
works).

### SpecVersionStore, ActiveRevision

The files of one adapter key, its lock, and processes that stage, activate, roll back and
read. Writers hold the lock from the comparison with the expected revision to the return;
`Link` and `Point` are the two writes of an activation, with room for a crash between
them. Readers take no lock and read two files one after the other. `Release` installs a
package with another baseline while no process runs. A specification's body stands for
its digest. `ActiveRevision` is the same with a pair of specifications that changes at
once.

### RepairCoordinator

The repairs of the competitors that share an adapter. `RequestRepair` is the insert that
`ScraperHealth` explains in detail; `Claim`, `BeginTesting`, `CheckBaseline`, `Propose`,
`StageCandidate`, `Decide`, `Fails` and `LoseLease` are `evaluate_one` with the workflow it
calls; `LeaseRunsOut` is time. `Renew` is a heartbeat thread, of any attempt so far, that
renews late: it raises unless it finds its own live lease, which it leaves live. `used` is a
ghost that has the revisions a competitor has had: a failing scrape may have been queued
under any of them, and its repair has that one as baseline. `Deploy` and `RollBack` are the
first half of an operator's command, the change of the store, and `Commit`, `CommitFails`,
`CommitUnacknowledged` and `OperatorCrashes` its four ends. The competitor's row is not
locked between the halves, so the command carries what it read (`seen`), and `Column` writes
back what differs from it. The store has the atomic calls of `ActiveRevision`, which is
where the two modules meet: `SpecVersionStore` implements it from below, with files, a lock
and crashes, and `RepairCoordinator` implements it from above: `Deploy` is `Promote`,
`RollBack` and `Compensate` are `Revert`, `StageCandidate` is `Offer`. A revision here
stands for the specification it names there. That the calls compare with the expected
revision is a guard here and `PointFresh` there.

### FetchPolicy, HttpFetch

`FetchPolicy` holds what is decided about one URL or one answer: `ValidUrlSyntax` and
`ValidPublicUrl` (`fetchers/policy.py`), `ParseRetryAfter`, `RetryDelay` and
`ResponseOutcome` (`fetchers/http.py`), `BrowserOutcome` (`fetchers/browser.py`) and
`RobotsDelay` (`fetchers/robots.py`). A host is a spelling that `Canon` maps to the host it
names, so that two spellings may be one host.

`HttpFetch` runs them over time for one worker process. `pc` says where the fetch of the
current scrape stands, `stage` which call it is in (robots.txt, page, browser):

* `Start` and `Decide` are `ScrapeWorker._fetch` with `RobotsTxtPolicy.check`/`enforce`: an
  entry in the cache is used, a missing or expired one is loaded first.
* `Hop`, `HopBrowser`, `Wake` are a pass of the loop in `_fetch_attempt` up to the request:
  the loop check, the URL policy and the limiter's wait.
* `Respond`, `Disconnect`, `Navigate` are the answer; `Fail` decides between another attempt
  (`Retry`, after its pause), the file `AllowAll` for a missing robots.txt, and the error.
* `Cancel` is the watchdog; `Tick` is time. `since` is kept up to `MaxGap`, beyond which no
  interval distinguishes it.

Each key of (timeout, retries, interval) has a fetcher with a limiter of its own, as
`_http_fetcher` builds them, while the robots cache is shared. `quiet` and `hold` are
ghosts: no action reads them.

### MoneyParsing, SelectorScraper, ResultValidation, RepairReview, PriceAlerts

Pure operators, each module on top of the one before. A text is described by what the code
can tell about it: its first number as groups of digits with their separators, its currency
marks, its stock phrases. `ParseMoney` decides between decimal and grouping marks as
`parse_money` does, `DetectCurrency` falls back to the default symbols as the code does for
a site without any, `Extract` is `SelectorScraper.extract` with its rule lists and errors,
`Checks` are the validator's checks in their order. `RepairReview` has what the three
providers may propose, with their limits on the number of rules, the scope policy and the
judgement of the fixtures. `PriceAlerts`
holds the rules and derives their state as `AlertService.evaluate` does.

### ScrapeEvidence

Composes them: `Enqueue` and `Claim` are the queue as far as it matters here, `Fetch`,
`FetchFails`, `Store`, `StoreFails`, `Judge` and `JudgeFails` are `_process`, `Retain` and
`RecordFailure` are `_record_failure`, `Abandon` is a dead or cancelled worker; `Alert` is a
customer. Any worker may take a running row over while its former owner goes on, so two
attempts may write the file of one row with different pages (`CanStore`), and only the
owner ends the row (`Finished`). Every `FetchFails` has the kind `transport`; no property
tells the kinds of a failed fetch apart. `Approvable` is what a review of the row's failure may
approve from the stored pages; it changes nothing here, and what follows an approval is in
`RepairCoordinator`.

## 4. Runs

| Run | Module, cfg | Shows |
|---|---|---|
| `queue_faults` | `MCScrapeQueueFaults.cfg` | The safety of the queue and that it implements `PriceLog`: two workers, two clients, three rows, three faults |
| `queue_prompt` | `MCScrapeQueuePrompt.cfg` | If event loops run their timers on time, no job is fetched by two workers at once |
| `queue_live` | `MCScrapeQueueLive.cfg` | Every queued row finishes |
| `health_races` | `MCScraperHealthRaces.cfg` | The unique index on open repairs is never met and the cooldown is kept, also when the first of two repairs is finished while a decision about the second is taken |
| `health_live` | `MCScraperHealthLive.cfg` | A changed site gets a repair, a working site shows healthy |
| `health_lost_status` | `MCScraperHealthHealthy.cfg` | Violated: a lost update leaves "healthy" beside counted failures |
| `version_store` | `MCSpecVersionStore.cfg` | The store survives crashes, refuses stale callers and implements `ActiveRevision` |
| `store_release` | `MCSpecVersionStoreRelease.cfg` | Violated: after a release with another baseline the previous revision is gone |
| `repair_coordinator` | `MCRepairCoordinator.cfg` | Verdicts, promotions, agreement of store and database, use of the store as an `ActiveRevision`, and that repairs are decided |
| `repair_compensate` | `MCRepairCoordinatorCompensate.cfg` | Violated: a rollback activates a candidate that was never deployed |
| `fetching` | `MCHttpFetch.cfg` | Hosts and schemes hold for every hop and retry, robots rules for the target's own URL, Retry-After for the retries within one fetch, intervals and crawl delays for all requests of a fetcher; every fetch ends |
| `evidence` | `MCScrapeEvidence.cfg` | Three scrapes of a page that changes: rows, failures, snapshots, prices, alert states and approved candidates agree, and the product is a `PriceLog` |

### Bounds

* `queue_*`: three faults are what the hardest case needs: a clock unit inside synchronous
  code for each unit of the lease that the stale worker sleeps through, and another worker
  that takes the job over. Prices 2 and 5 are plausible in one direction only, so a stale
  snapshot shows. `Lease = 3`, `RenewEvery = 1`, `Margin = 1` keep the order of the code's
  Lease / 3 and Lease / 6.
* `health_*`: the counter is cut off at `Threshold` = 2, the only number it is compared
  with. Two workers and two targets give every overlap of two transactions. `health_races`
  has `MaxRepairs` = 2, because the case that `CooldownKept` is about needs two: the
  coordinator finishes the first one, which starts a cooldown, while a worker decides about
  a second one. To keep that instance small its site is unstable, so that both workers only
  record failures, repairable or not; the successes are in the other two runs, which need
  one repair: theirs is about the health row, and `Init` starts within or without the
  cooldown of an earlier repair. The theorems hold for every `MaxRepairs`. `CooldownEnds`
  needs `Room`: without it a run would ask for a row beyond the bound.
* `version_store`: two releases and three candidates, of which two have one revision and
  different bodies, so that the immutable files meet a conflict.
* `repair_*`: two competitors share the adapter and two workers race for a lease. One fault
  and one rollback in the run; the same instance with two of each was checked once
  (1.97 million states, safety only) without a difference.

* `fetching`: two hosts, of which one has two spellings; a fetcher with an interval and a
  retry, and one without either; `MaxGap` = 2 is the longest pause that occurs. Two
  redirects let a chain leave a host and come back. The answers are one for each branch of
  `ResponseOutcome`, among them each form of Retry-After on both sides of its limit.
  `CacheSeconds` = 2 lets an entry expire in the middle of a fetch.
* `evidence`: three rows of one target give two accepted prices, a third attempt that fails
  and a review of it. `Served` lets the shop change its page in steps: a row has at least
  two pages to be torn between, the third all of them, among them a pattern that picks a
  part of the amount, a redesigned page and a challenge page. One price is shown as `2.000`,
  one separator and three digits after it, which is two thousand and not two. `MaxFaults` =
  1 is one takeover, dead worker, failed write or aborted transaction; attempts overlap with
  one. The two `ManualSpecs` are a specification that keeps the old rules and one that drops
  them. One alert rule with a threshold between the two price moves.

`CHECK_DEADLOCK FALSE` is in the two configurations of `RepairCoordinator` and in
`MCScrapeEvidence.cfg`: without another request the system rests, and requests end with the
bound on repairs or rows. All other runs check for deadlock.

### Fairness

* `ScrapeQueue`: workers and the scheduler poll for ever, fetchers have timeouts, the
  database answers, time passes. All weak: a claim or an insert that can be made stays
  possible until somebody makes it. Nobody has to press a button, deactivate a target or
  fail.
* `ScraperHealth`: strong fairness of the scrapes, because a target's turn comes and goes
  with the workers that are busy, and claims are in the order of `queued_at`; strong
  fairness of a transaction's steps, because it waits for a row lock that others take again
  and again and that the database hands out in turn. Nothing is asked of repair workers.
* `HttpFetch`: the event loop runs what is due, time passes, and a site answers or the
  client's timeout does (`Respond` or `Disconnect`). All weak. `Start` and `Cancel` have none.
* `ScrapeEvidence`: none; it has safety properties only.
* `RepairCoordinator`: workers poll and finish what they do; a lease without a running
  holder runs out. A repair worker that ended on `LeaseLostError` is started again by the
  container runtime (`restart: unless-stopped` in `src/price-monitor/compose.yaml`), which
  is why `LoseLease` leads to an idle worker.

### Findings

* `FailureShows` (`services/results.py:387`): the failure read DEGRADED and therefore does
  not write the status that an overlapping success set to HEALTHY.
* `PriorRetained` (`repair/versions.py:195`): the packaged baseline is never copied, so it
  cannot be restored once the package has another one.
* `RollbackGoesBack` (`services/repair_coordinator.py:202`): the compensation of a failed
  deployment swaps the two revisions of the store; the next rollback swaps them back, which
  activates the candidate.

Facts met while modelling, without a run of their own:

* A failed scrape of a deployed repair ends its status "repairing"
  (`services/results.py:250`), which `src/price-monitor/README.md:354` describes as lasting
  until a scrape succeeds.
* The limiter belongs to a fetcher, and a worker has one for each combination of timeout,
  retries and interval: two competitors of one host with different settings are paced
  separately. A fetcher with interval zero sends its first request unrecorded, so its
  robots.txt request and its page may follow each other at once.
* A redirect is checked against hosts and addresses, not against the robots rules of the
  path it leads to (`fetchers/http.py:311`).
* A `Retry-After` is kept by the fetch that met it. The next scrape of the host, perhaps a
  second later, does not know of it: neither limiter nor queue keeps it.
* A refused price never becomes the previous one, so a price that really moved by more than
  the ratio is refused until the ratio is changed.
* The second of two rollbacks in a row makes the later revision active again and marks the
  earlier deployed repair as rolled back (`services/repair_coordinator.py:222`): a rollback
  swaps, and the statuses count as if it went one further back.
* `_failed_fields` names one field of a failure and reads warnings as well: a weak context
  counts for the price.

## 5. Proofs

TLAPS proves the theorems for every value of the constants that satisfies the named
assumptions of the modules (`TimingAssumption`, `PricesAssumption`, `TargetsAssumption` of
ScrapeQueue; `ThresholdsAssumption`, `BoundsAssumption`, `PagesAssumption` of
ScraperHealth; `SpecsAssumption`, `FaultsAssumption` of SpecVersionStore;
`RevisionsAssumption`, `BoundsAssumption` of RepairCoordinator; `TargetAssumption`,
`ResponseAssumption`, `SettingAssumption`, `BackoffAssumption` of HttpFetch;
`EvidenceAssumption`, `ReadingAssumption`, `ShownAssumption`, `SettingAssumption` of
ScrapeEvidence). TLC evaluates each of them in the runs. `ReadingAssumption` and
`BackoffAssumption` stand for facts of folded and recursive data that the prover cannot
compute: that a product read from a page has an amount, a name and a currency, and that a
power of two is a natural number. `ShownAssumption` is about the environment: the rules of
the baseline look at the element that shows the price, so that its whole text is what a
visitor sees or says no amount. It does not say that the scraper takes all of that text. Only
`Shown` and what follows from it, the refinement of `PriceLog` by shown prices, use it.
`Evidenced` says what the code guarantees without it: the accepted amount is that of the
whole text.

| Module | Theorems (property) |
|---|---|
| `ScrapeQueueProofs` | TypeCorrect (TypeOK), OneActive (OneActiveJob), Chain (HistoryChain), Validated (ChangesValidated), Observed (ObservedOnce), Finishing (FinishedByOwner), Refinement (ImplementsPriceLog), Exclusive (NoConcurrentFetch) |
| `ScraperHealthProofs` | TypeCorrect (TypeOK), Uncontested (InsertUncontested), Cooldown (CooldownKept) |
| `SpecVersionStoreProofs` | TypeCorrect (TypeOK), Resolving (StateResolves), Comparing (PointFresh), Refinement (ImplementsActiveRevision) |
| `RepairCoordinatorProofs` | TypeCorrect (TypeOK), Deciding (OwnerDecides), Promoting (PromotedWasReviewed), InStep (InSync), Refinement (ImplementsActiveRevision) |
| `HttpFetchProofs` | TypeCorrect (TypeOK), Chained (ChainSafe), Obedient (RobotsObeyed), Patient (RetryAfterHonoured), Apart (CrawlDelayKept) |
| `ScrapeEvidenceProofs` | TypeCorrect (TypeOK), Evident (EvidenceMatches), FailuresExplained (FailureExplained), Evidenced, Shown (PriceIsShown), ApprovedSound (ApprovedReads), AlertsExact (AlertsFollowPrices) |
| `PriceLog` | Chaining |
| `ScrapeEvidenceLogProofs` | Refinement (ImplementsPriceLog), Successive |

Each proof rests on an inductive invariant `IInv`, proved in a theorem or lemma
`Invariance` with one lemma for each action.

* **ScrapeQueue.** None of the properties is inductive alone: that a price was judged
  against the one it replaces needs that the snapshot of a worker with the current token is
  the current price (`SnapshotsOK`), which needs that a token belongs to one worker and a
  target to one unfinished row (`TokensOK`, `OneActiveJob`), and that the latest row by
  `observed_at` is the last one committed (`TimesOK`). The queue's steps then map to steps
  of `PriceLog` or to stutters. That no two workers fetch for one row follows from
  `LeaseAhead`: while event loops are on time, a worker that fetches holds the row's token,
  and its watchdog is set to exactly `Margin` before the end of the lease that the row
  shows, renewals included. A live lease cannot be claimed, and of two workers with one row
  only one has its token.
* **ScraperHealth.** `LockExclusive`: the flushed health row is a lock. `FindingsHold`: what
  the decision has found stays true while it holds that lock, because a repair of this
  competitor is opened only under it and no transaction of the coordinator leads from a
  closed status to an open one. `ActorsOwn` and `ActorsExclusive` say that a coordinator's
  transaction still finds its repair in the status it started from; so while a recorder
  has found no open repair, none can be finished and no cooldown can start.
* **SpecVersionStore.** `LockShape` and `HoldersLock`: writers are alone. `FilesCandidates`,
  `StateKept` and that files never change (`Grows`): what is pointed to stays found. What
  a process relies on at each point (`Relies`) then gives the comparison and the
  refinement.
* **RepairCoordinator.** The baseline of a requested repair never changes, so what a worker
  had reviewed is still about its row when it decides (`RowReviewed`, `WorkerRelies`); a
  repair with a verdict is never evaluated again, so what a command deploys stays settled
  (`OperatorRelies`). `InStep` adds `Follows`: with one operator and no faults the pair in
  the store is a competitor's, or the running command is going to write it. The refinement
  needs of `IInv` only that what is staged and validated is a revision. A late renewal
  (`Renew`) finds a live lease or changes nothing (`RenewIdles`).
* **HttpFetch.** Each decision is carried to the request that uses it: the address that was
  checked is the one that is paced and sent (`Allowed`, `OnHost`); the entry that admitted
  a page stays in the cache, and its delay in the limiter, for as long as the page is
  fetched, because only a fetch of that entry replaces it (`Admitted`); a pause never ends
  before the limiter's interval or the server's demand does, because they run on one clock
  (`Paused`, `HoldKept`); and the limiter of a paced fetcher has recorded every start
  (`Recorded`).
* **ScrapeEvidence.** A file is only written when it is empty, so what an attempt has seen
  of it stays true, and with it what a row says of its snapshot (`Attempt`, `Proven`), of
  its failure as of its product (`Explained`). That gives `Evident` and `FailuresExplained`,
  and `ApprovedSound` with the lemma that an address is not read (`HostIsNotRead`). An
  accepted row has passed each check of the validator (`AcceptedProduct`), the comparison of
  the price with its evidence among them (`Acceptable`), which is `Evidenced` and with
  `ShownAssumption` `Shown`. The alerts need the whole history: the rows of a target follow
  one another (`InTurn`), so the price an owner read at its claim is still the current one
  when it accepts (`Snapshots`), which is the price of the latest accepted row
  (`CurrentFollows`); therefore each entry of the history tells the move from one accepted
  row to the next (`HistoryFollows`), and matching an entry is the same as moving far enough
  (`MoveMatches`). The log of a target is its entries of the history in their order; the
  i-th is the one with i entries up to it (`Ranked`). The history is only appended to, so a
  new entry gets the next rank and the others keep theirs (`NextRank`), and the last one has
  the price that the target shows (`LogFollows`), which is what the validator compared with.
  `Successive` is then the theorem `Chaining` of `PriceLog`, carried over by the refinement.

Model-checked only: the liveness properties (`JobsFinish`, `ChangeGetsRepair`,
`HealthRestored`, `RepairsDecided`, `FetchEnds`), which need ENABLED. Every other property of
a passing run is a theorem. What the folds over groups of digits compute (`ParseMoney`) is
evaluated by TLC for the texts of the runs and proved of no other: the theorems treat it as
a function of the text.

## 6. Not modelled

* Loss of power in the version store: what survives depends on the file system.
* Two operators at once keep every property but `InSync`, which is false for them (the
  competitor's row is not locked) and after a crash (store and database stay apart). The
  hazards say so, and the property is limited accordingly.
* The two halves of the finalising transaction are in two modules: the price half in
  `ScrapeQueue`, the health half in `ScraperHealth`. They are one transaction, so an abort
  of one is an abort of the other; the models each have that abort.
* Clocks that differ between workers: `ScrapeQueue` has one clock. `HistoryChain` and the
  refinement of `PriceLog` are false as soon as clocks differ by more than the time between
  two commits, since the latest history row is the one with the greatest `observed_at`
  (`services/results.py:72`).
* `ScrapeQueue` takes `enqueue_due` with batches of one. A batch adds that its rows are
  committed, or rolled back, together; each of them meets what a single row meets.
* The restart of a scheduler that ended on an exception: that a due target is queued in the
  end rests on the container runtime (`restart: unless-stopped`), and `JobsFinish` begins
  with a queued row.
* A bound on the attempts of a job: the code has none, so `JobsFinish` bounds the crashes.
* Two scrapes at once in `HttpFetch`: a worker runs one at a time, and workers are processes
  with limiters of their own, which nothing coordinates.
* In `ScrapeEvidence` one product of one competitor and the adapter revision that its rows
  were queued with; adapters change in `RepairCoordinator`. Percentages are exact where the
  code rounds them to a millionth. A fixture's host comes from the base URL, as in
  `_target`.
* CSS selection and regular expressions, sockets, decoding and the phrases of challenge
  pages, the container of the sandbox and the model behind a provider: they are choices of
  the environment here.
* The UI session, the web UI's navigation, migrations, seeds, the demonstration, the analysis
  contracts and the bill tracker, for the reasons in `PROJECT.json`.
