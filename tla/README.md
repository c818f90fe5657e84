# Formal model of auction-etl

TLA+ modules, TLC configurations and TLAPS proofs for the parts of this program where
several processes, transactions or retries meet: the durable refresh of the
marketplaces, call by call and statement by statement, the path of a listing into the
warehouse and to the accounts that see it, the guarded ingestion round, the curation of a listing by an assistant and an
operator, the completeness of a copy: its evaluators, the services that edit what they
read, and the history that triggers keep of it, and the process that owns a marketplace's browser.

Contents: 1 the system · 2 what is modelled, module by module · 3 runs, bounds,
fairness · 4 proofs · 5 disagreements found · 6 what is not modelled · 7 plan ·
8 how to run.

## 1. The system

An operator tracks record auctions on three marketplaces (Buyee, eBay, Gripsweat). A web
page asks for a refresh; a persistent worker on one host runs the refresh; the result
lands in a PostgreSQL warehouse, which the operator reviews and curates, and which
account-scoped pages show.

    web pages / control plane ──create, cancel──▶ ops.refresh_job ◀──claim, heartbeat,
            │                                     (coordinator)        report── worker
            │                                                                     │ spawns, reads lines
            │                                                                     ▼
            │                                          guarded round (flock) ─▶ source refresh runner
            │                                                                     │ parse, sync, fill
            ▼                                                                     ▼
    curation services, evidence assistant ──────────────▶ warehouse.* ◀── raw.page, staging.listing

| Component | State it keeps | Operations | Interacts through | Hard behaviour | What makes it correct |
|---|---|---|---|---|---|
| Coordinator `services/refresh_jobs.py` | job, marketplace, event and input rows | create, claim, heartbeat, update, complete, fail, release, requeue, cancel | transactions, an advisory lock, row locks | expiring leases, late calls, concurrent claims | one active job per account; a job is handed to one worker at a time; two live leases only across a heartbeat under way; finished is final; a report is its owner's |
| Worker `scripts/run_cloud_refresh_worker.py` | main loop, heartbeat thread, child process, stop flag | recover, claim, spawn, read lines, settle | the coordinator's calls, a pipe, signals | crashes, orphans, stop signals, failed calls, id kept over restarts | acts only for its own claim; every job settles; a stop is honoured |
| Runner `scripts/run_latest_auction_refresh.py` | states of the marketplaces, exit status | refresh the marketplaces in turn | lines on standard output, exit status | exceptions anywhere, pending sign-ins, strict mode | the rows say what it did; success is completable |
| Durable progress (worker and coordinator) | the worker's memory of states and counters, the durable rows | consume a line, reset, finalise a failure | the pipe, `update_marketplace_state` | a reader that lags, a lost lease in the middle | rows agree with the runner; progress does not go back |
| Staging and warehouse `services/parse.py`, `services/warehouse.py` | pages, staging rows, auctions, assignments | fetch, parse, rebuild, sync, prune, promote, assign, fill, retune | the database | overlapping pages, versions of parsers, any order | staging true to its pages; queue complementary to assignments; manual choices stay |
| Guarded round `scripts/run_multisource_ingestion_round.py` | counts, keys, the lock of the host | count, drain, refresh, verify, report | flock, single queries, a child | reads before the lock, other writers, kills | evidence covers what the round brought in; nothing reported twice |
| Evidence assistant `services/collector_evidence.py` beside `services/collector_curation.py` | condition, behaviour and analysis rows of a listing | build a report, apply it; save a form | row locks at READ COMMITTED | check and write in different statements | an operator's value is kept; no deadlock |
| Account visibility `services/account_visibility.py` | account.auction_listing, a cache per process | publish, attach | the warehouse, the job's id | a cache keyed by a count, read and written around the inserts | a page that skips leaves no auction out |
| On-demand ingest job `services/auction_ingest_job.py` | status files, a lock, a worker process | start, poll, register, publish | files, pids | check then write, zombies, two accounts | a status moves on; every start ends |
| Browser owners `scripts/run_ebay_owner.py`, `scripts/ensure_ebay_owner.py`, `browser/ebay_owner.py`, and the same for Buyee | a socket at a path, its backlog, a browser window, a lock of the ensure script | ensure, ask for health, run a job, shut down | the socket, the file system, signals | clients that stop waiting, an owner that ends beside its successor, a backlog that is full, kills | an owner that serves keeps its socket; a script that asks ends |
| Completeness `services/state_safe_completeness.py`, the view and the snapshot function of the migrations | references, observations, profiles, assignments; snapshots | evaluate, capture | triggers on four tables, one history | three evaluators with different defaults; `created_at` is the transaction's beginning | evaluators do not contradict each other; the history is what the rows come to |
| Reference administration, reviewed changes `services/pressing_reference_admin.py`, `completeness_reference.py`, `media_aware_reference.py`, `media_profile_admin.py`, `reference_record_admin.py`, `auction_intake.py` | the curated tables and their audit | save, observe, seal, edit; preview, token, apply | transactions at two isolation levels, row locks | stale previews, snapshots older than locks, plain editors beside serializable ones | what was reviewed is what is applied; an observation stays with its pressing |

Everything else — parsers, text matching, crawlers, pages, authentication,
exports, migrations, operations scripts — is listed in `PROJECT.json` under
"components" with the reason it is left out (section 6).

The hazards this code is exposed to, with their lines and the properties that would
catch them, are in `PROJECT.json` under "hazards".

## 2. The modules

Names are the source's where TLA+ allows. A definition called `X_Something` beside an `X`
is a *slip*: `X` with a plausible mistake, against which the properties are tried
(`PROJECT.json`, "mutants").

### Durable refresh

| Module | Models | State | Actions |
|---|---|---|---|
| `LeaseQueue` | what the coordinator promises: an abstract specification | stage of each job, at most one (job, worker) pair | Submit, Grant, Lose, Finish, Withdraw |
| `RefreshJobs` | `refresh_jobs.py`, one action per writing function | `job`, `market`, `events`: the three tables | Create, RequeueExpired, Claim, Heartbeat, UpdateMarketplace, MarkCompleted, MarkFailed, Release, RequestCancel, CancelQueued, Tick |
| `RefreshTxn` | `refresh_jobs.py`, one action per statement | `stored` and `written` (committed and open rows), `holder` (row locks), `tx` (per connection: call, statement, age, wait), `advisory`, `account` (whose each job is) | TakeAdvisory, StartActive, LockActive, Insert, LockJob, LockMarket, PickQueued, PickExpired, Commit, Rollback, Kill, Tick, … |
| `RefreshWorker` | `run_cloud_refresh_worker.py`, EXTENDS `RefreshJobs` | `proc` (loop and heartbeat of each process), `runners` (children), `faults` | Recover, TakeJob, Spawn, Beat, Line, Reap, Settle, Finalize, Fail, RequestStop, Shutdown, Crash, Restart, … |
| `SourceRefresh` | `run_latest_auction_refresh.py`: order, outcomes, lines, exit status | the runner's own status, the pipe | RunnerNext |
| `DurableProgress` | `consume`, `finalize_runner_failure`, the row update and the web's view | the worker's memory, the durable rows | Consume, FinalizeRow |
| `RefreshExecution` | the two composed, one attempt | reader, lease, how it settled | Run, Read, LoseLease, Terminate, EndOfOutput, Complete, FinalizeFailure, Abandon |

Decisions worth knowing:

* A lease is a number of remaining clock ticks. `Tick` lowers all of them; 0 is expired,
  which is also what the database's `lease_expires_at < now()` says. Time thus passes only
  between calls; a call that compares with a `now()` older than its row locks is
  `RefreshTxn`'s subject.
* `RefreshTxn` takes each call apart into the statements of its transaction, in the code's
  order. A statement at READ COMMITTED sees what is committed when it starts, waits for rows
  that others hold, and looks again once it has them; `FOR UPDATE SKIP LOCKED` passes over
  them. A lease is the time until `lease_expires_at` and may be negative, for a transaction's
  `now()` is `age` ticks ago. `Kill` is a deadlock's victim or a lost connection, `Rollback`
  a call that raises. The rows of a job's marketplaces are one row of the model, for each
  call that locks them all meets every call that locks one of them.
* A create is one step of `RefreshJobs`. In `RefreshTxn` it takes the advisory lock, looks for the
  account's active job and locks it (`StartActive`, `LockActive`: it waits, lock in hand, for the call
  that may be ending that job), and inserts. `CreatesNeverCollide` is about these statements. A
  cancellation request is an event of its own (`job_cancel_requested`), each time it is made.
* What holds call by call does not all hold statement by statement: `OneLiveLease`, which the
  refinement of `LeaseQueue` rests on, is lost when
  a heartbeat whose transaction began in time commits beside another worker's claim.
  `LeasesMeetAcrossABeat` says that this is the only way, and `EachJobIsPromised` that every
  job still is handed to one worker at a time, by instantiating `LeaseQueue` for each job alone.
* A call that raises, or updates no row, is no step of `RefreshJobs`. `RefreshWorker`
  models what the *caller* does about it.
* `RefreshWorker` looks at the stop flag and at the lost lease exactly where the code does:
  at a line of output, after the child, and at the head of the loop.
* `RefreshJobs` and `RefreshWorker` know of a marketplace only the state and which counters
  are set; the line protocol is in `RefreshExecution`, where the lease is a flag. The split
  keeps each product small; they meet in `UpdateMarketplace` and `MarkCompleted`.

### Warehouse and rounds

`Warehouse` has one action per writer: `Fetch`, `ParseSome` (parse latest, source or page,
with and without `--force`), `Rebuild`, `Sync`, `PruneSync`, `Promote` (Gripsweat sales),
`Decide` (an operator's pressing), `Fill` and `Unfill` (the identity fill and its
retraction). A listing is a pair of marketplace and number; what a parser finds on a page is
the constant `Html`, per version of the parsers.

`AccountVisibility` EXTENDS it with the sales (`Import`, and `Enrich`, which finds the number of the
eBay listing a sale tells of), the publication of a marketplace to an account by a refresh
(`Publish`; a sale is listed under its eBay number, or while it has none under the one in its URL), and the attachment of the whole warehouse by a page: `Look` counts and compares with
what the process remembers (`attached`), `Insert` and `Attach` are the three inserts of one
transaction, `Remember` writes the count down. What the transaction has inserted is nobody else's
until it commits, and each insert sees what is committed when it starts. `GiveUp` is a database call
that raises, `Restart` the end of the process. The writers of `Warehouse` run beside all this
(`Write`).

`IngestionRound` EXTENDS `Warehouse` with the guarded round: one action per query, sync, refresh
step and check, the lock, and `Command`, an operator who runs any writer of `Warehouse` at
any time. Every SELECT is a step of its own because the script reads in autocommit.
History variables (`own`, `earlier`, `disturbed`) say what a round itself brought in, which
rounds were over when it began, and beside which somebody else wrote.

### Curation

`EvidenceApply` models the assistant's report and its transaction statement by statement
beside the operator's forms, for one listing. `stored` is what is committed, `written` adds
the open transactions, `holder` the row locks. `FOR UPDATE` on a row that is not there
locks nothing, and an insert waits for an uncommitted row of the same key: both as
PostgreSQL does at READ COMMITTED.

### Completeness

`CompletenessRules` has the three evaluators as operators over the same rows: `SnapshotStatus`
(the function behind the snapshots), `ViewStatus` (the view, with its factory-sealed exception)
and `Evaluated` (the service). A row belongs to a slot, a component and a variant of it; quantities
may be unstated, and their defaults are the code's, which differ: an observation that is
PRESENT with the quantity 0 counts as one for the service and the view, as none for the
function. `Agree` says how far the three go together.

`Completeness` has the calls that change these rows as transactions: `Begin` fixes `now()`; `Look`
takes the snapshot of a call at SERIALIZABLE; `Write` does what the call's statements do, once it
has the locks, with the row triggers of each statement (`Statement`, `News`), and refuses
where the code or the table's CHECK does; `Commit` publishes. `Preview` puts a page and its token
before the reviewed calls. Of SERIALIZABLE the model has what PostgreSQL promises: a row that was
changed since the snapshot is not written (`Conflicts`), and a dangerous structure of reads and
writes does not commit (`Dangerous`); it may end a transaction besides. `IsolationOf` says which
calls ask for that: the records, the removal of a seal and the identity fill do not.

The replacing saves delete every row and insert each again (`Cleared`, `Placed`, `Place`), and every
one of these statements fires the trigger: the intermediate states are in the history, as they are in
the code. `Worked` folds them. A record of the reference editor is created, updated where it stands or deleted
(`edit`), updated with another pressing or component (`move`), or given the state and the place an
audit event had left it with (`restore`). The trigger looks up the listings of the pressing that the
row *now* names: those of the pressing it has left (`Left`) are not captured. The captures of one statement share an id, for the id only ever orders
the snapshots of one listing.

`met` and `Standing` are no state of the database; they remember of each transaction what it has
overlapped, for the properties that hold among isolated calls only.

Left out of it: the writes of one transaction are one step, for nobody sees them apart; pressings
of a second media type; the manual-override flag of an assignment (a fill may replace any);
collisions of hashes; and the advisory locks of the reviewed calls, which order calls of the same
kind that the row locks and the isolation level order too. Giving a pressing another media type
captures nothing for the former one and has no call in the modelled services. The triggers read the setting `auction_etl.actor`, while
`apply_assignment` sets `app.actor`: the actor in the history is then UNKNOWN, which no property
is about.

### On-demand jobs

`IngestJob` models a page's calls and the worker's life as steps around what they share: the
two files (`file[j]` is `jobs/<id>.json`, `latest` is `latest.json`), the flock of `start_job`
(`lock`), and the process table. `GetLatest` reads, `Probe` signals, `WriteJob` and `WriteLatest`
replace one file each, so that whatever a page has read may be old when it writes. A worker
that ends is a zombie of the pages' process (`Alive` holds of it) until that process starts
another one (`Reaped`) or ends (`Restart`). Time is in two guards: a worker gives up waiting for
its pid (10 s) only when its page is no longer at the start, and the deadline of registration
(15 s) passes only when the worker has registered or given up.

### Browser owners

`BrowserOwner` models the owner's process (`owner[o]`: where it is, its stop flag, its window, whether
it is at a job, and the connections in line, the one it is at included), the file at the socket's path
(`sock`: whose it is), and each refresh with the ensure script it runs (`run[r]`). The owner answers one
request at a time, so that during a job whoever asks waits, times out (`TimesOut`) and leaves its
request in line, from nobody; an owner that ends closes the connections it has not accepted (`Broken`).
The script asks (`AskHealth`), probes (`Probe`: somebody listens, so that `main` tries again), removes the
file (`Remove`), starts an owner (`Spawn`) and polls until one answers, its own exits or the deadline
passes (`GiveUp`). `Check` and `Bind` are the owner's two looks at the path; `Cleanup` closes the window
and removes the path, also after a bind that failed. Time is in the guards: a client times out only
while the owner is at a job, and a script gives up an owner that is still launching only as a fault.
A killed refresh takes its ensure script with it or leaves it running, with the lock in hand. `left`, a
history variable, has the owners nobody waits for any more. One page is read per refresh.

### MC modules

`MCRefreshJobs`, `MCRefreshTxn`, `MCRefreshWorker`, `MCWarehouse`, `MCAccountVisibility`,
`MCIngestionRound` and `MCCompleteness` give values to the constants a cfg cannot write; the other
runs need none. `MCWarehouse` has more pages than `MCAccountVisibility`, and is for the configurations
that are run by hand.

### Proof modules

| Module | About |
|---|---|
| `RefreshWorkerProofs` | the coordinator `RefreshJobs`, and `RefreshWorker` over it |
| `RefreshTxnProofs` | `RefreshTxn` |
| `RefreshExecutionProofs` | `RefreshExecution` with its parts, and `BrowserOwner`, whose owners its runner asks for |
| `WarehouseProofs` | `Warehouse` |
| `AccountVisibilityProofs`, `IngestionRoundProofs` | the modules of their names, over `WarehouseProofs` |
| `EvidenceProofs` | `EvidenceApply` and `IngestJob`, which the pages run beside the refresh |
| `CompletenessProofs` | `CompletenessRules` and `Completeness` |

Section 4 has what they prove and along which argument.

## 3. The runs

| Run (cfg) | Question | Bounds | Distinct states |
|---|---|---|---|
| `refresh_jobs` (`RefreshJobs.cfg`) | do the calls, in any order, keep the invariants, and implement `LeaseQueue`? | 2 jobs, 2 accounts, 2 workers, 2 marketplaces, 2 claims and 1 cancellation request a job, lease of 2 ticks; symmetric in accounts and workers | 2.0 million |
| `refresh_txn` (`RefreshTxn.cfg`) | what of that is left when the calls are transactions of several statements? | 2 connections, 2 workers, 2 jobs of one account or of two, lease and longest transaction of 1 tick; symmetric in connections, workers, jobs and accounts | 2.2 million |
| `refresh_worker` (`RefreshWorker.cfg`) | do workers act only for their own claims, settle every job, honour a stop? | 1 job, 2 processes on one host, any 2 faults, 3 claims, 1 cancellation request, reports of done, failed and skipped | 387 thousand |
| `refresh_execution` (`RefreshExecution.cfg`) | do the durable rows and the web's view say what the runner did? | 3 marketplaces, every outcome, 2 counter lines per marketplace | 1.2 million |
| `warehouse` (`AccountVisibility.cfg`) | is staging true to its pages, the queue complementary, a manual choice kept, and a skipped attachment not needed? | 2 overlapping pages, 4 listings, 2 parser versions, a sale, an account, a page of its process | 1.4 million |
| `ingestion_round` (`IngestionRound.cfg`) | does the evidence cover the round's work, once, and are the checks quiet? | 2 rounds, 2 operator commands, 2 pages, 2 listings | 1.2 million |
| `evidence_apply` (`EvidenceApply.cfg`) | is what the operator entered kept, do applies end? | 2 sessions, 2 reports, 2 saves, 3 tables | 270 thousand |
| `first_save` (`FirstSave.cfg`) | *violated*: an unclaimed check holds until the write | as above | |
| `ingest_job` (`IngestJob.cfg`) | do two pages and their workers keep the status files true, and does every start end? | 2 accounts, a page each, 2 jobs, 1 fault | 420 thousand |
| `browser_owner` (`BrowserOwner.cfg`) | who takes an owner's socket away, and does a script that asks for one end? | 3 refreshes, an owner each, a backlog of 2, 2 tries, 1 fault | 55 thousand |
| `completeness` (`Completeness.cfg`) | do the evaluators agree, does the history follow the rows, is a review applied to what was reviewed? | 2 sessions, 3 transactions of 18 calls, 2 listings, 2 pressings, 2 slots, quantities to 2, one listing assigned, both, or one to a pressing without a reference; symmetric in sessions | 1.9 million |
| `assignment_event` (`AssignmentEvent.cfg`) | *violated*: a reviewed assignment is applied | 1 transaction | |

Eight more configurations are run by hand; each shows a disagreement of section 5: `StaleHistory.cfg`,
`MovedRecord.cfg` and `ExcludedComponent.cfg` (`MCCompleteness`), `OwnerStartedOnce.cfg` (`BrowserOwner`), `StrictMode.cfg` (`RefreshExecution`), `Prune.cfg` (`MCWarehouse`),
`OverlappingRounds.cfg` (`MCIngestionRound`), `PublishedResult.cfg` (`IngestJob`).
`Warehouse.cfg` (`MCWarehouse`) checks `Warehouse` alone,
with three pages and five listings of three marketplaces; `BrowserOwnerFaults.cfg` (`BrowserOwner`) two
faults and the type invariant (317 thousand states).

Why the bounds are enough to mean something:

* *Two jobs, workers and accounts*: the constraints of the coordinator are pairwise (no two
  live leases, no two active jobs of an account). Two claims of a job are enough for a
  lease that is lost, recovered and answered late, and one cancellation request comes before or after
  any of them. For every other number see section 4.
* *Two connections in `refresh_txn`*: what the statements add is pairwise, one call between the
  statements of another; circles of three waits need three, and are circles of the same two calls.
  Two jobs of one account are for the creates, of two for the leases. Age and lease of one tick are enough for a `now()` on either side of an expiry.
* *Three transactions in `completeness`*: a dangerous structure has three, and a plain editor can
  come between two of the others. Two slots are a component and the seal of the exception; two
  listings share a pressing or do not. For every table there can be, see section 4.
* *Two faults*: enough for a crash with an orphan followed by a second crash, stop, or
  stalled heartbeat of the successor, and for a failed call in the handler of a failed call.
  `MaxAttempts` is larger than `MaxFaults`, so the bound on claims never hides an outcome.
* *One job in `refresh_worker`*: a second one is claimed only when the first is settled or
  expired, which is `refresh_jobs`' question.
* *Two counter lines*: one before and one after the counters are known.
* *Two pages of the warehouse*: they overlap, and the second parser version loses one listing and
  finds another. A page of another marketplace, in `Warehouse.cfg`, meets them only in
  `parse_source`. *One account, one page*: other accounts share nothing but the warehouse; one thread
  meets the writers, a publication and a restart between any two of its steps. For any number of
  pages, listings, accounts and threads see section 4.
* *Two rounds*: the lock and the baseline are pairwise; two commands disturb a round before
  and after any of its queries. The model's only listings are one of each staged
  marketplace, so that a double report is visible as an intersection.
* *Two jobs, two pages*: one start beside the end of another, by either account. One fault: a page, a worker or their host dies at any
  step, or a worker cannot be started.
* *Three refreshes, three owners*: one owner ends while its successor serves and a third is asked for.
  A backlog of two fills with what one script leaves behind and one request more. One fault may be
  a kill of a refresh or of an owner, a signal, a window closed by hand, or a slow start; two by hand.
* *Two saves, two reports*: one save between any two statements and one that undoes it;
  two transactions that lock in any order.

Counters are bounded in the guards (`MaxJobs`, `MaxAttempts`, `MaxCancels`, `MaxFaults`, `MaxReports`,
`MaxCommands`, `MaxSaves`, `MaxTabs`, `MaxRefreshes`, `MaxTries`, `MaxAge`, `MaxQuantity`, `MaxBegun`); no state constraint is
used, so that liveness is checked on the whole graph. `refresh_jobs`, `refresh_txn` and the runs
of `Completeness` have `CHECK_DEADLOCK FALSE`: there every job may have finished, or every
transaction been made, with nobody left to call. Elsewhere the end of a bounded execution is an explicit
stuttering action `Over` (in `ingest_job` a page that looks and finds nothing to do), and a
deadlock would be reported.

### Fairness

| Run | Assumed | Because |
|---|---|---|
| `refresh_worker` | WF of each process's main thread and of its heartbeat | the operating system schedules threads, and no call of the loop waits for another worker for good |
| | WF of a child's next step | the runner passes timeouts to its acquisition commands |
| | WF of `Restart` | the service is deployed with `restartPolicyType=ALWAYS` (`docs/PHASE_E1_RAILWAY_IAC_MIGRATION_PLAN.md:122`) |
| | WF of the clock | time passes |
| `ingestion_round` | WF of each round's own next step | the script waits for nobody: the lock is tried with `LOCK_NB` |
| `ingest_job` | WF of a call that has begun, of a worker's next step, and of the end of its runner | calls and processes run; the runner has timeouts. No page is made to look or to start anything |
| `browser_owner` | WF of an ensure script's next step and of an owner's | processes run, every request has a timeout and so has a job's page; a script is in line for the lock behind finitely many others. No refresh is made to start, to ask or to end |
| `evidence_apply` | WF of each session's next step | statements run, and the database wakes a transaction when its row is free |

No fairness is given to crashes, signals, operators, requests, saves, or to reading lines of
a silent child (`Line`): a child that prints nothing must still not stop a job from settling.
The runs of safety alone (`refresh_jobs`, `refresh_txn`, `refresh_execution`, `warehouse`,
`ingestion_round`, `completeness`) assume none. `LockIsFreed`, which needs the round's, is checked
by hand: add `PROPERTY LockIsFreed` to `IngestionRound.cfg`. Every type invariant is proved, whether a
run lists it or not.

### What the properties say

Coordinator, call by call: `OneActivePerAccount`, `EventsTellJob` (the append-only history alone tells a
job's attempts, whether its cancellation was requested, and its state, and says nothing after the end),
and `KeepsPromise`: `RefreshJobs` implements `LeaseQueue`. Six more, `TypeOK` among them, are proved
and not run (section 4).

Coordinator, statement by statement: `LeasesMeetAcrossABeat` and `EachJobIsPromised`, above;
`CompletedRowsHold` (a completed job's rows are completable, whatever came between the check and
the update), `RecoveryNeedsExpiry` (what `docs/DATABASE_DEPLOYMENT.md:194` promises of recovery
holds, also across a heartbeat that is under way), `ReportsAreTheOwners` (a report lands only in a
job its worker still has when it commits), `CreatesNeverCollide` (an account never has two
jobs that are active, committed or about to be, so that the unique index has nothing to refuse),
`CirclesNeedAnEnd` (a circle of waits always contains one of the two calls that lock in the other
order, so that turning those two round ends the deadlocks; a create that waits for the active job of its
account while every claim waits for the create's advisory lock is none). A heartbeat that is late is
bounded, not refused: `LeasesMeetAcrossABeat` says what it takes. `WaitingRowsAreReset` and `TxnTypeOK`
are proved and not run.

Worker: `OwnerIsClaimant` (an id kept over a restart never lets a process act for a claim it did
not make), `NoStrayChild`, `CompletedByRunner` (only the exit of the current attempt's child
completes a job), `JobSettles`, `StopIsHonoured`. None of them says that work is done once: a stop that
arrives when the child has just ended with 0 releases the finished job, which then runs again.

Execution: `RowsAgree`, `FailureShowsWhere`, `ProgressIsMonotone`; `SuccessIsCompletable` and
`TimesAgree` are proved and not run.

Warehouse: `StagedByItsPage`, `NothingParsedIsLost` (what the deployed parser has found on a page is
staged, whichever page owns the row), `QueueIsComplement`, `ManualStays`.
`QueueIsComplement` is a consequence of a mistake: `--prune` never removes anything (section
5). The slip that repairs the prune breaks it, for no key ties an assignment to its auction. `SkippedIsAttached` (whatever came between a
page's count, its inserts and its note, a page that skips the attachment leaves no auction of Buyee or
eBay out, and no sale) rests on the same mistake: were anything ever removed, an equal count would say
nothing. It leaves out the sales whose own page tells a number that is not their item's: the
account goes on seeing such a sale under the number it was attached with.

Rounds: `EvidenceCoversOwn`, `SuccessorsReportOnce`, `QuietRoundAddsUp`. `RoundTypeOK`, which has the
discipline of the lock (a round has it exactly while it is between its two ends), is proved and not run.

Curation: `ReadClaimsAreKept`, `RestIsKept`, `AppliesEnd`.

Completeness: `EvaluatorsAgree`: a snapshot that says COMPLETE is borne out by the service and, where
the profile has every required component, by the view, and what either finds INCOMPLETE is
INCOMPLETE in the snapshot. The converse is not there: a required component nobody has looked for
makes the snapshot INCOMPLETE, the service INSUFFICIENT_OBSERVATION and the view UNVERIFIED
(`docs/collector-analytics-model.md:35`, "Unknown and not-visible components are never treated as
absent.", is true of the last two). `AloneMeansCurrent`: the triggers miss no table and no listing, but for the
listings of a pressing that a record is moved away from (section 5).
`PublishedIsTrue`: between the calls at SERIALIZABLE no snapshot is computed from rows that are no
longer there. With the plain editors beside them this fails, and it is not enough that a call has met
none itself: one that overlapped a plain call may have had a listing moved under it, so that what it
commits was captured for the listing's former pressing only, and a third call relies on that capture.
The property is therefore about calls that are `Sheltered`: isolated, as all that they have
overlapped were, and as all that those had overlapped before. `ReviewedIsWhatIsApplied`, `ObservedOnItsPressing` (the row lock on the assignment
keeps the identity fill out, at any isolation).

On-demand jobs: `StatusMovesOn` (nobody's late write takes a job's status back),
`UndisturbedJobEnds`.

Browser owners: `ServingOwnerIsKept`: the lock, the question and the probe together keep the socket of
an owner that serves, at a job or not, whoever asks; but not from another owner that ends, from a
script that found the backlog full, or from one that looked before an owner came up that nobody
waited for any more. `EnsureEnds`: an owner that is busy, ending or out of reach never keeps a
script, and with it the lock, for good.

## 4. Proofs

### The coordinator

`RefreshWorkerProofs` proves the following for every value of the constants (any number of jobs,
accounts, workers, marketplaces, claims, and any lease time), from `ConstantsAssumption`
alone; TLC evaluates that assumption in every run that extends `RefreshJobs`.

| Theorem | Property |
|---|---|
| `TypeCorrect` | `TypeOK` |
| `OwnedWhileRunningHolds` | `OwnedWhileRunning` |
| `OneActivePerAccountHolds` | `OneActivePerAccount` |
| `CompletedIsCompletableHolds` | `CompletedIsCompletable` |
| `QueuedIsResetHolds` | `QueuedIsReset` |
| `TerminalIsFinalHolds` | `TerminalIsFinal` |
| `LiveLeaseIsKeptHolds` | `LiveLeaseIsKept` |
| `EventsTellJobAlways` | `EventsTellJob` |
| `Refinement` | `KeepsPromise` |

The argument. The inductive invariant is

    IInv == TypeOK /\ OwnedWhileRunning /\ OneLiveLease /\ OneActivePerAccount
                   /\ CompletedIsCompletable /\ QueuedIsReset

The first four conjuncts are about the job table. A lease becomes live only in `Claim`, which
finds none live anywhere; a job becomes active only in `Create`, which finds none of the account;
recovery and release move a job between two active states and take its owner away.
`CompletedIsCompletable` and `QueuedIsReset` tie the marketplace rows to the job, and need that a
report lands in a running job only and that both ways back into the queue reset the rows. Each
conjunct is preserved in a lemma of its own (`OwnedStep`, `LeaseStep`, `AccountStep`, `RowsStep`), with
a case per action; the *Effect* lemmas say once what an action does to the job table, so that the
cases need not expand it again. The action properties follow from `IInv` step by step (`FinalStep`,
`KeptStep`). The refinement maps a row to its stage and the unexpired leases to `holders`, and rests on
`OneLiveLease`: it is why a grant finds no holder, and why a release, a completion or an expiry leaves
none. That is a fact about calls that are one step each, and is no theorem here: what is left of it
is `LeasesMeetAcrossABeat`, below. The expiry of a lease, which no function of the coordinator sees, is the abstract `Lose`; the
recovery of an expired job is a stutter. `EventsTellJob` is inductive with `TypeOK`: a call appends one
event, and of a log that is longer by one the latest event that moves the job, the number of claims and
whether there is a request follow from the event alone (`ClaimsOfLonger`, `ToldByOneMore`); that number is the size of a set of positions, so that no
induction over the log is needed.

### Its transactions

| Theorem of `RefreshTxnProofs` | Property |
|---|---|
| `TxnTypes` | `TxnTypeOK` |
| `CompletedRowsHoldAlways` | `CompletedRowsHold` |
| `WaitingRowsAreResetAlways` | `WaitingRowsAreReset` |
| `RecoveryNeedsExpiryAlways` | `RecoveryNeedsExpiry` |
| `ReportsAreTheOwnersAlways` | `ReportsAreTheOwners` |
| `EachJobIsPromisedAlways` | `EachJobIsPromised` |
| `CirclesNeedAnEndAlways` | `CirclesNeedAnEnd` |
| `CreatesNeverCollideAlways` | `CreatesNeverCollide` |
| `LeasesMeetAcrossABeatAlways` | `LeasesMeetAcrossABeat` |

For any number of connections, workers and jobs, any lease time and transactions of any length. The
inductive invariant `TxnInv` ties a transaction to the statement it is at: which rows it has locked by now
(`Keeps`), and what it has written there over what is committed (`HeldFits`). As nobody writes a row that
another has locked, what a transaction has seen under its locks still holds when it commits, and each
commit is one of few changes of one job's two rows (`Commits`). The properties of commits and the
refinement of `LeaseQueue` for one job are read off those.

`CirclesNeedAnEnd` is about the order of the locks. In a circle without a completing or failing session
nobody waits for a marketplace row: whoever has it would have the job's row too, and so has the one
that waits (`Keeps`, `HeldFits`). Whoever waits for a job row thus waits for a claim or a create that is
past its first statement, and so does whoever waits for the advisory lock; but there is one such session at
a time (`ClaimsInTurn`), and it cannot wait for itself.

`CreatesNeverCollide` is inductive with two more facts. What is active and not committed is the job of
a create that is about to commit it, and has the advisory lock (`NewIsCreated`); and a create that has looked
has every active job of its account still in its list, or may insert (`CreateFits`): while it waits no
other call can make a job active, and a row it has waited for it looks at again under the row's lock.

`LeasesMeetAcrossABeat` needs `LeaseInv`: what a claim
that began beside no heartbeat has looked at stays so until it commits (`LookIsTrue`, `GrantIsAlone`),
for a heartbeat that begins later has a later `now()`, by which those leases have expired, too.

### The workers

| Theorem of `RefreshWorkerProofs` | Statement |
|---|---|
| `WorkerInvHolds` | the inductive invariant `WorkerInv` |
| `RefinesCoordinator` | `WorkerSpec => Spec` |
| `OwnerIsClaimantHolds` | `OwnerIsClaimant` |
| `NoStrayChildHolds` | `NoStrayChild` |
| `CompletedByRunnerHolds` | `CompletedByRunner` |

For any number of processes, hosts, jobs, claims and faults, from `WorkerAssumption`: processes
do not share an id (one that is configured, or service and deployment, of which `.railway/railway.ts:5`
runs one replica, or host, pid and chance), and `finalize_runner_failure` may report `failed` and `skipped`. Every step of a worker is a call of the
coordinator or leaves its tables alone, so that all theorems about the coordinator hold beside them.
`OwnerIsClaimant` is preserved because a row's owner and attempt change only in a claim, which the
claiming process notes in the same step; a process that stops, restarts or is stalled keeps its job
and attempt or forgets both. `NoStrayChild` needs that a process has one child at most (`OneChild`) and
that an exit status is known only of a child that was there (`ExitComesLater`).

### The execution

| Theorem of `RefreshExecutionProofs` | Property |
|---|---|
| `ExecutionInvHolds` | the inductive invariant `ExecutionInv` |
| `SuccessIsCompletableHolds` | `SuccessIsCompletable` |
| `RowsAgreeHolds` | `RowsAgree` |
| `FailureShowsWhereHolds` | `FailureShowsWhere` |
| `TimesAgreeHolds` | `TimesAgree` |
| `ProgressIsMonotoneHolds` | `ProgressIsMonotone` |

For any number of counter lines, and a reader any distance behind. None of these is inductive, for
the worker knows only what it has read. `ExecutionInv` is about the unread lines: those of each
marketplace lead from what the worker has made of it to what the runner has (`Wire`), whatever lines of
others lie between. It is kept when the runner appends a line and when the worker takes one away; an
empty pipe leaves the two sides equal, from which the properties follow. The marketplaces go in turn
(`RunnerInv`), so that at most one is between its two ends when the runner dies, and the finalisation has
one row to show as failed.

### The browser owners

| Theorem of `RefreshExecutionProofs` | Statement |
|---|---|
| `OwnerInvHolds` | the inductive invariant `OwnerInv`, `OwnerTypeOK` in it |
| `ServingOwnerIsKeptHolds` | `ServingOwnerIsKept` |

For any number of refreshes and owners, any backlog, tries and faults. The path changes hands in three
steps only, `Remove`, `Cleanup` and `Bind`. An owner binds only where the path is free, and closes if it is not; one that cleans
up is the exception the property makes; what remains is the script that found nobody and is about to
remove. It has the lock of the ensure scripts (`OneScript`), and whoever waits for an owner that comes up
has that lock too (`OpeningIsAwaited`): an owner that has come up since the script looked has therefore
been left by everyone (`StaleUnlessLeft`). The other half of `OwnerInv` is about the lines: whoever asks is in
one line, once, and the owner is at the job of its head (`AskersAreInLine`, `OnceInLine`,
`BusyAtHead`).

### The evaluators of completeness

| Theorem of `CompletenessProofs` | Statement |
|---|---|
| `RulesAgree` | `Agree` for every reference, set of observations and media profile, over any slots and quantities |
| `EvaluatorsNeverContradict` | wherever the tables hold what their columns allow, `EvaluatorsAgree` |
| `EvaluatorsAgreeHolds` | `EvaluatorsAgree` |

The first two from `RulesAssumption` alone; the third needs that the calls keep the tables what they are
(below). A run can try quantities up to a bound; the theorem is for all. The
argument goes slot by slot: enough seen of a required component is present for the service and
the view (`SeenIsPresent`); what the service finds lacking the snapshot finds missing
(`LackingIsMissing`), and conversely but for what is present with the quantity 0
(`NothingLacking`). The statuses follow.

### The calls that change completeness

| Theorem of `CompletenessProofs` | Statement |
|---|---|
| `CallsInvHolds` | the inductive invariant `CallsInv` |
| `ObservedOnItsPressingHolds` | `ObservedOnItsPressing` |
| `ReviewedIsWhatIsAppliedHolds` | `ReviewedIsWhatIsApplied` |
| `DataInvHolds`, `CompletenessTypeHolds` | the invariant `DataInv` of the snapshots, and `CompletenessTypeOK` |
| `AloneMeansCurrentHolds` | `AloneMeansCurrent` |
| `PublishedIsTrueHolds` | `PublishedIsTrue` |

For any sessions, listings, pressings and calls, from `CompletenessAssumption`: calls name the listing or
the pressing they are about, a replacing save is about every slot, and slots and components are finite.
`CallsInv` says what a transaction at SERIALIZABLE knows of the present
tables: a row is as its snapshot has it, or one of the transactions that have committed since wrote it
(`SnapshotAges`, `TokenAges`), and each of these was serializable or has been met (`MetThem`).
`ObservedOnItsPressing` follows from the lock on the assignment (`PairOK`). `ReviewedIsWhatIsApplied` is
the argument for serializable snapshot isolation, for this program: had a guarded call changed the
reference since the review's snapshot, it would have read the whole of what it wrote a part of
(`ReadsReference`), as the review does; either a row that the review writes has changed, which
is a conflict, or each has read what the other wrote, and the review does not commit (`Dangerous`).

The other theorems are about the snapshots. What a call's statements leave is a fold over a finite set,
whose order nobody knows. `WorkedFollows` finds the function behind the fold, and `SubsetsInduction` (from
the well-foundedness of the naturals and the sizes of finite sets; it speaks of a set of subsets, not
of an operator) carries `Reached` from statement to statement: so far only the slots that were
treated differ, the listings captured are those the call affects, the others come to what they came
to, and of each listing captured the latest snapshot is what it comes to (`StatementRecords`).
`WorkedKeeps` says it of the whole call: what is not among `Writes` is as it was (`OffWrites`), and
whoever writes a row that a listing's payload is computed from has captured that listing
(`Captures`; a call that moves a record to another pressing is the exception, and never isolated).
`AloneMeansCurrent` is then about time only: a transaction that met no other began last, so
that no snapshot is newer than its own (`LoneOK`).

`PublishedIsTrue` is a second argument for serializable snapshot isolation. A row that a snapshot of
the call rests on, and that it has not written itself, is as it saw it or was changed since
(`AgesBy`). Who changed it was serializable, for the call is sheltered, and captured the listing, for
which it read the listing's history; the call adds to that history, and has read the row. Each
has read what the other wrote (`ChangedIsDangerous`), and one of them does not commit. That the other captured
*this* listing is where the shelter is needed: which listings an expectation concerns is read from the
assignments, and only calls that have met no plain one know those for certain (`NothingMoved`,
`ShelterOK`).

### The evidence assistant

| Theorem of `EvidenceProofs` | Property |
|---|---|
| `InvHolds` | the inductive invariant `EvidenceInv` |
| `ReadClaimsAreKeptHolds` | `ReadClaimsAreKept` |
| `RestIsKeptHolds` | `RestIsKept` |

For any number of sessions, reports and saves. `ReadClaimsAreKept` alone is not inductive, for a
decision is made in one statement and carried out in another. `EvidenceInv` bridges them
(`DecisionIsHeld`): a row the assistant has decided to write is locked by it and not the operator's,
or was not there when it looked. The lock keeps every save away until the commit.

### The on-demand jobs

| Theorem of `EvidenceProofs` | Statement |
|---|---|
| `IngestInvHolds` | the inductive invariant `IngestInv` |
| `IngestTypeHolds` | `IngestTypeOK` |
| `StatusMovesOnHolds` | `StatusMovesOn` |

For any number of accounts, pages, jobs and deaths, at any step. A page or a worker writes what it has
read or decided some steps ago; `IngestInv` says why that still fits. A page that will write queued or the pid
is the only one that opens that job, for it has the controller's lock (`OneOpens`), and its worker writes
nothing before the pid is there. A page that will write failed speaks of a worker that has ended or never
began and never will (`Dead`). It knows this by a signal to a pid that somebody has published (`Known`), or
by the deadline, after which a worker that still runs has its pid in `latest.json` (`LateInv`, `LatestInv`).
Thus the only status that a page can write over a later one is failed over completed, which have the same
rank, and that is the ninth disagreement of section 5.

### The warehouse

| Theorem of `WarehouseProofs` | Property |
|---|---|
| `InvHolds` | the inductive invariant `WarehouseInv` |
| `StagedByItsPageHolds` | `StagedByItsPage` |
| `NothingParsedIsLostHolds` | `NothingParsedIsLost` |
| `QueueIsComplementHolds` | `QueueIsComplement` |
| `ManualStaysHolds` | `ManualStays` |

For any pages, listings, parsers and versions, from `WarehouseAssumption`. `NothingParsedIsLost` speaks
of pages parsed by the deployed parser; a page may have lost its listing to one parsed by an
older parser that is then parsed again, so the invariant speaks of every version (`NewestHasIt`: a
listing that a page shows is staged by a page parsed at least as newly, unless some page was parsed
by a newer version since). `QueueIsComplement` needs that what is assigned is in the warehouse
(`AssignedIsHeld`), and that needs `PruneRemovesNothing`: a prune that is not refused has found as many
rows staged as held, so that none is obsolete.

### Account visibility

| Theorem of `AccountVisibilityProofs` | Property |
|---|---|
| `RefinesWarehouse` | `VisibilitySpec => WarehouseSpec` |
| `SkippedIsAttachedHolds` | `SkippedIsAttached` |

For any number of accounts, threads and sales. By the first, all of `WarehouseProofs` holds beside
the pages too. The second rests on `WarehouseGrows`: nothing leaves the warehouse and no sale is
deleted, so the count only grows, and a count that is equal means that the rows are. The invariant says
this of the note (`NoteIsTrue`) and of each thread on its way to it (`CountIsTrue`: what it has
inserted so far, if its count is still the present one).

### The rounds

| Theorem of `IngestionRoundProofs` | Statement |
|---|---|
| `RoundInvHolds` | the inductive invariant `RoundInv` |
| `RoundsRefineWarehouse` | `RoundSpec => WarehouseSpec` |
| `RoundTypeOKHolds` | `RoundTypeOK` |
| `EvidenceCoversOwnHolds` | `EvidenceCoversOwn` |
| `SuccessorsReportOnceHolds` | `SuccessorsReportOnce` |
| `QuietRoundAddsUpHolds` | `QuietRoundAddsUp` |

For any number of rounds and commands and any pages. The rounds write through the writers of
`Warehouse`, so that all of `WarehouseProofs` holds beside them too; it is used here, for the warehouse
only grows (`WarehouseGrows`) and the queue adds up at any moment (`QueueAddsUpNow`). The invariant says
two things of each round. Whoever writes (`Sound`): what the round brought in was not among its keys,
is there, and what earlier rounds reported was among its keys. While nobody else writes (`Quiet`): the
counts it has read are those of the warehouse as the round left it, which is why its checks pass.

### Only model-checked

* All liveness (`JobSettles`, `StopIsHonoured`, `AppliesEnd`, `UndisturbedJobEnds`, `EnsureEnds`), for
  neither fairness nor ENABLED is in the prover's reach.
* Nothing else that a run lists: every invariant and every action property of the runs has its theorem.

## 5. Disagreements found

Each is a configuration that TLC finds violated. Of the first two `PROJECT.json`, "findings",
quotes both sides.

1. **A reviewed assignment is rolled back** (`AssignmentEvent.cfg`). `apply_assignment` looks for an audit
   event of its account; the trigger that writes the event knows no account
   (`services/auction_intake.py:667`).
2. **The operator's first save can be overwritten** (`FirstSave.cfg`). There is no row to lock
   between the assistant's check and its upsert, which also clears the manual flag
   (`services/collector_evidence.py:1152`).
3. **A reference that excludes a component is never stored** (`ExcludedComponent.cfg`). The normalizer
   gives an excluded component the quantity 0, the table's CHECK wants more than 0
   (`services/pressing_reference_admin.py:649`); a test asserts the 0
   (`tests/test_pressing_reference_admin.py:79`). `reference_record_admin` has the same rule.
4. **The current completeness is not current** (`StaleHistory.cfg`). The page shows as "Current derived
   completeness" (`app/pages/12_Completeness_History.py:167`) the snapshot with the latest
   `created_at`, which is when its transaction began: of two editors at READ COMMITTED the one that
   began first and wrote last leaves a snapshot nobody takes for the latest.
5. **A record that is moved leaves a snapshot behind** (`MovedRecord.cfg`). `update_reference_record` sets
   the pressing of a record from its payload (`services/reference_record_admin.py:629`), and
   `restore_reference_event` from the event (:1253); the trigger captures the listings of
   `NEW.pressing_id` only (`d4e8b1c7a903_completeness_snapshots_and_timeline_up.sql:1028`). The
   current snapshot of a listing of the former pressing still includes the record. The record
   editor's page always passes the record's own pressing.
6. **`--require-all-sources` passes without Buyee** (`StrictMode.cfg`). Only `failed` and
   `unavailable` count as terminal failures, so a run whose Buyee waits for a sign-in ends
   with 0 (`scripts/run_latest_auction_refresh.py:4927`; :122 says "Fail if Buyee or eBay is
   unavailable instead of continuing in degraded mode.").
7. **`--prune` never prunes** (`Prune.cfg`). The guard compares staging with the warehouse *after*
   the upserts, so a single row absent from staging, the case the option is for, refuses
   the sync (`services/warehouse.py:741`; `cli/sync.py:29`).
8. **Overlapping rounds report the same auctions** (`OverlappingRounds.cfg`). Counts and keys are
   read before the lock (`scripts/run_multisource_ingestion_round.py:1352`; :870 says "Build
   stable-field evidence for newly observed records.").
9. **A published result is replaced by "stopped before publishing"** (`PublishedResult.cfg`). A page
   reads the status, looks for the worker, and writes without reading again
   (`services/auction_ingest_job.py:350`).
10. **The owner is not started once** (`OwnerStartedOnce.cfg`, with the real backlog and retries, and no
   fault). "Start the owner once and reuse it on later refreshes.", says
   `scripts/ensure_ebay_owner.py:164`. An owner that closes its window after a refresh removes the path
   last (`scripts/run_ebay_owner.py:324`); the next refresh, refused by the closed socket, has started a
   successor meanwhile, whose path it is. The successor serves on, unreachable, and the refresh after
   that opens another window beside it.

## 6. Not modelled

* *Values*: titles, prices, dates, currencies, grades, scores, percentages and phase texts. No
  property of the modules depends on them; parsing and matching are functions of text, which
  unit tests reach and TLC does not.
* *Marketplaces*: the acquisition commands are outcomes of `SourceRefresh`. Of `BrowserOwner`: owners of
  another protocol version or storage state, which the script refuses, and the jobs themselves.
* *Local dispatch* (`services/local_refresh_dispatch.py`): a pid file that the pages write and probe. A
  worker that died is a zombie of the pages' process until that starts another one, and is
  taken for alive: the mechanism is `IngestJob`'s.
* *No limit on attempts*: a job whose every attempt kills its worker is requeued for ever
  (`refresh_jobs.py:983`). Nothing in the code promises an end; `MaxAttempts` bounds the models.
* *Which of several marketplace rows a statement locks first*: in `RefreshTxn` they are one.
* *`status.json` and logs* of the runner: the durable rows are fed by its output.
* *Other counts of the round* (sales, pressings, snapshots, timeline, repository hash): more of
  the kind that is modelled.
* *One active on-demand job per account* is not stated: there is one latest status for all
  accounts, so that an account whose job another account's start has hidden starts a second
  (`services/auction_ingest_job.py:1141`). `IngestJob` has the behaviour; the test of a second
  start has a single caller.
* *Lines and targets of on-demand jobs*: the phases and the states of sources and artists that are
  read from the runner's output, the log, and a pid used again by another process.
* *Completeness*: damage values, counts, the wording of the timeline, alerts derived from it,
  attachments and sources of references, bulk batches, see section 2.
* *Scope and access of accounts* (`account_scope`, `account_access`, `tracked_listing_scope`): predicates
  of queries over the rows that `AccountVisibility` has; they keep no state.
* *Pages, authentication, exports, migrations, operations*: no shared state whose ordering matters
  beyond the calls already modelled.

## 7. Plan

Order of work; done items first.

1. `RefreshJobs`, `LeaseQueue`, the coordinator's invariants and their proofs. **Done.**
2. `RefreshWorker` over it, with liveness. **Done.**
3. `SourceRefresh`, `DurableProgress`, composed in `RefreshExecution`. **Done.**
4. `Warehouse`, then `IngestionRound` over it. **Done.**
5. `EvidenceApply`. **Done.**
6. `IngestJob`. **Done.**
7. `RefreshTxn`: the coordinator's calls statement by statement. **Done.**
8. `CompletenessRules`, `Completeness`: the evaluators, the reviewed changes and the history, with the
   agreement of the evaluators proved. **Done.**
9. Proofs: every safety property of the runs. **Done.**
10. `AccountVisibility` over `Warehouse`. **Done.**
11. `BrowserOwner`, with its proof. **Done.**
12. Candidates after that: the fresh eBay round beside the multisource one, the cohort wizard's
    stages.

## 8. How to run

In this directory:

    tlc -workers 2 -config RefreshJobs.cfg MCRefreshJobs.tla
    tlc -workers 2 -config RefreshTxn.cfg MCRefreshTxn.tla
    tlc -workers 2 -config RefreshWorker.cfg MCRefreshWorker.tla
    tlc -workers 2 -config RefreshExecution.cfg RefreshExecution.tla
    tlc -workers 2 -config AccountVisibility.cfg MCAccountVisibility.tla
    tlc -workers 2 -config IngestionRound.cfg MCIngestionRound.tla
    tlc -workers 2 -config EvidenceApply.cfg EvidenceApply.tla
    tlc -workers 2 -config FirstSave.cfg EvidenceApply.tla
    tlc -workers 2 -config IngestJob.cfg IngestJob.tla
    tlc -workers 2 -config Completeness.cfg MCCompleteness.tla
    tlc -workers 2 -config BrowserOwner.cfg BrowserOwner.tla
    tlc -workers 2 -config AssignmentEvent.cfg MCCompleteness.tla
    tlapm RefreshWorkerProofs.tla
    tlapm RefreshTxnProofs.tla
    tlapm RefreshExecutionProofs.tla
    tlapm IngestionRoundProofs.tla
    tlapm CompletenessProofs.tla
    tlapm EvidenceProofs.tla
    tlapm WarehouseProofs.tla
    tlapm AccountVisibilityProofs.tla

By hand:

    tlc -workers 2 -config StaleHistory.cfg MCCompleteness.tla
    tlc -workers 2 -config ExcludedComponent.cfg MCCompleteness.tla
    tlc -workers 2 -config OwnerStartedOnce.cfg BrowserOwner.tla
    tlc -workers 2 -config BrowserOwnerFaults.cfg BrowserOwner.tla
    tlc -workers 2 -config StrictMode.cfg RefreshExecution.tla
    tlc -workers 2 -config Warehouse.cfg MCWarehouse.tla
    tlc -workers 2 -config Prune.cfg MCWarehouse.tla
    tlc -workers 2 -config OverlappingRounds.cfg MCIngestionRound.tla
    tlc -workers 2 -config PublishedResult.cfg IngestJob.tla
    tlc -workers 2 -config MovedRecord.cfg MCCompleteness.tla
