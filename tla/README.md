# A TLA+ model of GEMP

GEMP is a retrofit-planning service for a portfolio of buildings: meter readings
arrive over MQTT and are stored as signed hash chains, a nightly job refits demand
figures from them, and an HTTP API solves budgeted allocation problems over
candidates derived from those figures. All of it runs in one process (threads, plus
subprocesses for two administrator jobs) beside one PostgreSQL/TimescaleDB database
and one append-only anchor file on another volume.

Source paths below are relative to `src/src/gemp/`.

## Inventory

| Component | State it keeps | Operations | Hard behaviour |
|---|---|---|---|
| Ingester `ingest/consumer.py` | bounded queue, chain heads, counters; tables `reading`, `anomaly`, `integrity_checkpoint` | `_on_message`, `flush`, `_write`, `_write_without_unknown`, `write_checkpoint`, `load_chain_heads`, `run`, `stop` | two threads, retry after any exception, crash between commit and heads, redelivery, unknown buildings, full queue |
| Hash chain `ingest/integrity.py` | none | `canonical`, `sign`, `verify_chain`, `verify_against_checkpoint` | lossy encoding, truncation, renumbering |
| Anchor file `ingest/anchor.py` | lines of a file | append, `latest_checkpoint` | crash inside a line, reader beside writer |
| Detector `ingest/live_anomaly.py` | one window per building, LRU | `score`, `warm_from_db`, `rollback_on_error` | memory changed before the commit, eviction inside a batch that is undone |
| Webhook `ingest/webhook.py` | bounded queue, four counters | `notify`, `_run`, `_post`, `stop` | worker death, full queue, shutdown |
| Integrity report `services.py` | none | `verify_building_chain` | three reads beside a running ingester |
| Context cache `api/main.py` | `_context`, table `candidate` | `get_context`, `reset_context`, `recompute_candidates`, `materialize_candidates` | double-checked locking, invalidation racing a build |
| Nightly refit `scheduler.py`, `ml/jobs.py` | `building.annual_kwh`, `forecast`, `anomaly` | `nightly_refit`, `run_nightly` | several transactions, failure half way |
| Jobs `api/jobs.py` | one job slot | `start`, `_run` | subprocess changes what this process has cached |
| Solver slots `api/main.py` | semaphore, count per account | `solve_slot` | two resources taken and given back in turn |
| Accounts, sessions `auth/`, `api/auth_routes.py` | `user`, `session`, throttle counters | sign-in, sign-out, password change and reset, account administration, bootstrap | middleware and handler in two transactions, concurrent attempts, expiry, last administrator |
| Judge pass, mail `auth/judge_pass.py`, `mail.py` | `judge_pass` rows, the switch, mails to send | redeem, switch, deliver | check-then-insert of limits, delivery failure |
| Optimization runs `services.py` | `optimization_run`, `allocation` | `run_optimization`, `get_run` | id and transaction |
| Candidates `domain/` | none | validation, applicability, savings, costs, bundles | double counting, rounding, missing buckets |
| Optimizer `optimize/` | none | pruning, greedy, upgrade, equal split, CP-SAT, fallback | ties, rounding, termination, empty answers |
| Simulator, seeding `sim/`, `seed.py` | data clock, active faults, ground-truth file | resume, publish, seed | resume after restart, kill inside a round |
| `/health` `api/main.py` | cached answer, lock | `health` | stale answers, waiting behind a refresh |
| Alert inbox `repository.py`, `api/main.py` | `anomaly` | insert, acknowledge, replace | two writers, two refits, a view that lags |
| Forecasting, evaluation `ml/`, `evaluate/` | none of their own | fitting, measuring | numerical |
| Frontend, deployment `web/`, `infra/` | browser state, containers | | rendering, shell |

Interactions: paho's network thread fills the queue that the ingest loop empties;
the loop writes the tables and the file that the report reads, and hands anomalies
to the webhook; the nightly refit reads readings and writes the figures the context
is derived from, then resets the cache; jobs do the first half of that in another
process. The simulator asks `/health` where to go on and publishes to the broker;
refits replace the alerts that the ingester inserts. Requests are resolved by a
middleware in a transaction of its own before their handler runs.

`PROJECT.json` lists the hazards line by line and the properties that would catch
each one.

## Modules

| Module | What it models |
|---|---|
| `Integrity`, `IntegrityProofs` | encoding, signing, the walk, the comparison with the anchor, the queries on table and file, and `IntactChain`, what a chain is without walking it; the proof that the walk decides it |
| `Ingest` | the ingester: network thread, loop thread, crash, stop, restart |
| `ReadingLog` | the abstract specification: one append-only, time-ordered log per building with an anchored prefix |
| `IngestRefinesLog` | the mapping under which `Ingest` implements it |
| `IngestInvariant`, `IngestProofs` | the inductive invariant; its proof, that of the refinement and those about the report of `Verify` |
| `Verify` | the integrity report reading in three steps beside `Ingest` |
| `ChainAudit`, `ChainAuditProofs` | the report on rows that were changed in the table |
| `Detector` | the detector's memory with eviction and rollback |
| `Webhook` | the notifier and its shutdown |
| `AnomalyProofs` | the invariants of `Detector` and `Webhook` and their proofs |
| `ContextCache`, `ContextCacheProofs` | the cache with requests, recompute, nightly refit, jobs, edits; its invariant and proof |
| `SolveSlots` | the solver pool and the runs stored inside it |
| `Accounts`, `JudgePass`, `AccountsProofs` | accounts, sessions, throttle; the pass and its mail, which extends them; the invariant of both and its proof |
| `Candidates`, `Planner` | the domain arithmetic as operators; one call of the optimizer, which uses them |
| `OptimizerProofs` | the proofs about `SolveSlots`, `Candidates` and `Planner` |
| `Station`, `Alerts`, `AlertsProofs` | simulator, `/health` and the stream; the alert table, refits and operators, which extends it; the invariant of both and its proof |
| `MCIngest`, `MCVerify`, `MCContextCache`, `MCSolveSlots`, `MCJudgePass`, `MCPlanner`, `MCAlerts` | small instances for TLC |

### Ingest

`pc` is where the loop thread stands: `down` (no process), `dead` (the thread ended
while starting), `idle`, then through a flush `begin` (transaction about to open),
`sign` (the loop over the batch), `insert` (scored, not committed), `apply`
(committed, heads not yet advanced), and the exceptional path `isolate` and `filter`
(`_write_without_unknown`); `anchor` is inside `write_checkpoint` between the
database and the file. Every stretch between two points where another thread, the
database or a crash can be observed is one action: the callback's length check and
its append are two steps, a batch is signed reading by reading, the commit and the
assignment of the heads are two steps, the anchor file grows line by line.

`Forget` is what any end of the process loses; `reading`, `anomaly`, `checkpoint`,
`portfolio` and `anchor` survive. `WriteFails` may strike at every point of a write
before the commit; `CommitUnacknowledged`, the commit that is applied although the
client sees an error, is kept out of `Spec` and added in `LossySpec`, because it
breaks the chains (see findings).

Data: a reading is a record of building, instant, power and source. Instants are
ticks, several to the second, and power is in units finer than the signed precision,
so that `canonical` really rounds. HMAC is idealised: a signature is the sequence of
canonical records it commits to, so equal signatures mean equal histories. This
hides forging and keeps everything the chain logic decides. The detector is reduced
in this module to the set of readings it has seen; `Detector` models its windows.

Assumed of the world: rows of `building` are only added while the system runs
(`import_portfolio` updates and inserts), the reading table is written by one
ingester, and `now` for checkpoints is in whole seconds, as the code truncates it.

### Verify and ChainAudit

The report reads the anchor file, the checkpoint table and the rows in that order,
each as committed at that moment. `ChainAudit` starts from a correctly signed chain
and an anchored head and applies up to three changes to columns of the stored rows;
it asks whether a clean report still means the ingested content, from the first row
to the anchored one.

### Detector

The dictionary and the rollback snapshot are sequences, because Python's insertion
order is what eviction and restoration act on. A reading is its instant. The handler of
`rollback_on_error` puts one window back per step, in the order of first touch, so that
what is true in the middle of an undoing, when a building comes back to a full
dictionary, is stated as well. The score,
the flat-line counter and the residual window are left out: they live in the same
per-building state and are saved and restored with it.

### Webhook

`worker = "ended"` is the thread after an exception `_post` does not catch.
`http.client` exceptions are not subclasses of the three it names.

### ContextCache

A context is identified with the versions of the inputs it was built from: `hashed`
for what `inputs_hash` covers, `other` for the attributes it leaves out; a refit writes
both, figures and load shapes. The
lock-free first look of `get_context` is one step: the test and the load of a module
global. `published` records the version of a refit once it has ended and `due` what
was published when a request began; they are history variables.

### SolveSlots

Every request thread goes through count, acquire, solve, release, uncount, and the
two refusals. `optimize` stores its run inside the slot, or fails to, and returns the
id after it; `compare_solvers` stores nothing. A request refused for its account
changes nothing and is not a step.

### Accounts and JudgePass

A user row holds role, state, end date and which password it accepts: `pw` is a
number, a new one for every password chosen. A sign-in is four steps (throttle check,
the shared delay, verification against the row it reads, rehash and commit); every
other request is two, the middleware that resolves the session and the handler that
acts on the identity it was given. `gen` counts the moments that end all sessions of
a user, `chosen` the password set last; `overtaken` and `unseated` record that a race
the code does not close has happened, and the properties say that nothing else breaks
them. `Budgets` (in `MCJudgePass`) bounds how often each kind of operation begins;
each budget is a scenario, and the initial states range over all of them.

`JudgePass` adds the pass to the same threads and tables: the state machine of the
settings, check, hash and insert in two steps, the mail as a task of this process.
Addresses are usernames, as in the code. CSRF tokens, cookies and the wording of
mails and audit rows are left out; an audit row that cannot be written is `LoginLost`.

### Candidates and Planner

`Candidates` translates the arithmetic of `domain/` into exact integers: fractions
are multiples of 1/`One`, and energy, money and carbon are in units fine enough for
every product, so that no division rounds where the code does not, if the figures are
multiples of the units (a portfolio for TLC is chosen that way). A power is a product
over 1..n, a sum or a product a fold over a set. What the loaders accept
(`valid_building` and its neighbours) is an assumption on the portfolios, no more: the
factors of orientations and adjustment blocks may have any sign, as the loaders let
them, and a day has `HOURS_PER_DAY` hours. `Planner` is one call of `solve`: expansion,
which may raise, pruning, then the solver. The density pass takes one option per step
and the upgrade loop one swap, with ties open. CP-SAT is external: it returns an optimum
of the programme the code builds, any feasible answer, or none. `round` is Python's, half
to even.

A condition of `applies_if` and the key of an adjustment bucket are texts. Of each the
model keeps the values it holds for (`allowed`, `matches`) and the values it can be
compared with at all (`reads`): a text that does not parse or has a bound that is no
number reads nothing, a comparison reads numbers, a list of words everything. Rules and
blocks are sequences, because `all()` and the search for a bucket stop early: `Unreadable`
is an error at a condition the rule comes to, `Finds` a bucket with no malformed key
before it. `Raises` then has every exception of the expansion, with the arithmetic exact:
a huge horizon that overflows a float is not in the model.

`BundlesHonest` says of a bundle that it saves no less than any member alone and no more
than all of them together, and strictly less where two members that each save something
act on one end use. It is about bundles in which every member alone saves nothing
negative: an orientation factor below zero, which no loader rejects, makes a solar row
save less than nothing, and such a row drags a bundle below its members.

### Station and Alerts

Data time is in steps of one reading. A run of the simulator asks `/health` (with the
two-second cache, its lock, the non-blocking look and the blocking wait; a call it
gives up goes on in the API without it), begins after
the newest stored reading, publishes building by building, and ends by a signal
between rounds or a kill anywhere. What ingestion does is reduced to a queue, because
`Ingest` models it. An answer that is no HTTP ends the process at once, because
`resume_point` does not catch `http.client`'s exceptions. `gone` records which readings
were lost with a process; `known`, in an answer and in a line of the truth file, what was
stored when it was computed. A run that is told there are no readings begins now, and
every earlier time is added to `gone`, also when a stale cached answer told it so: what
`HolesExplained` says of such a deployment begins there, and the seeded scenarios, whose
answers are never empty, carry the claim.

`Alerts` adds the table `anomaly`. The two detectors are reduced to "this reading is
faulty", the live one naming the reading and the batch one its hour. A refit loads
all series from the hourly view as the database last refreshed it (or from the table
when there is no view), then per building replaces the forecast in one transaction
and the alerts in two. `dropped` records readings whose alert a refit deleted and
will not put back.

## Runs

Passing runs (distinct states):

| Run | Bounds | States | Shows |
|---|---|---|---|
| `ingest_safety` | 2 buildings (1 without row), 3 deliveries of 3 readings, batch and queue of 2, 1 malformed, 1 failure, 1 crash or stop, 1 second | 1.4 M | the safety properties and the refinement |
| `ingest_outage` | 2 buildings (1 without row), 3 deliveries, batch and queue of 2, 2 failures, 1 crash or stop; fair | 211 k | accounting, order and progress through outages, with a full queue |
| `verify_alarm` | 1 building, 2 deliveries, 1 failure, 1 restart, 2 seconds | 197 k | no false alarm |
| `audit_edits` | 4 rows, every anchored head, 3 changes | 82 k | a clean report means untouched content |
| `webhook_safety` | queue 2, 5 notifications, 1 unexpected exception; fair | 1.7 k | counting, draining, return from stop |
| `detector_windows` | 3 buildings, 2 tracked, windows of 2, 6 readings | 179 k | undone batches, order of eviction |
| `cache_refit` | 2 request threads, 2 versions of what is hashed and of what is not, 1 exception | 5.3 M | freshness after a nightly refit |
| `slots_pool` | 5 requests, 3 accounts, 8 cores, 3 runs; symmetric, deadlock checked | 174 k | slots, counts, runs that can be read |
| `accounts` | 3 users, 2 addresses, 2 threads, 4 sessions, 4 ticks; eight budgets | 1.4 M | sessions, passwords, limits, passes |
| `planner` | 9 portfolios of up to 3 buildings and 4 interventions, 4 solvers, 4 objectives, 6 budgets, 2 caps; fair | 39 k | bundles, failing expansions, spending, pruning, fallback, termination |
| `alert_stream` | 2 buildings, 3 steps, 2 attempts, 1 other caller, 2 refits; six budgets | 1.7 M | holes, ground truth, alerts |

Why the bounds suffice: every action fires, a retry has time to meet readings that
came in behind it, a batch can hold readings of both buildings and twice the same
one, a crash can hit each point of a write and is followed by a complete write, two
readings fall into one second, and the queue and the dictionary fill up. Where a
theorem states the property (see Proofs) it does not rest on the bounds. Two threads are enough for the races of `accounts`, each of which is between
two requests, and the overruns are stated in terms of the number of threads. The nine
portfolios hold exclusive and shared end uses, equal options, a building nothing is
worth a unit for, a guard tighter than the ceiling, a missing bucket, malformed ones
before and behind the one that matches, a rule with an unknown field, come to and not, one
with a bound that is no number, and a roof with a negative factor and two generation
rows. Three steps
hold a seeded one, a fault that begins and a reading that shows it, in one hour and
across two. A run that may stop because its bounds are used up does not check
deadlock; `slots_pool` does.

One run ends in a violation, a disagreement between the code and a sentence of the
repository (quoted in `PROJECT.json`, "findings"): in `ingest_lost_ack` the retry of a
commit whose acknowledgement was lost forks the chain.

### Other disagreements met while modelling

The models behave as the code does in these cases too; the properties are stated
around them.

* `ingest/consumer.py:314`: a transient failure of the second write is raised inside
  the handler of the first, so the readings that were kept are not put back. Line 512
  says that a failed flush leaves the batch in the queue. `EveryReadingAccounted`
  counts them as lost, `NoOvertake` speaks of processes that discard none.
* `ingest/consumer.py:242`: a batch put back into a queue that has refilled discards
  the newest readings, and an append to such a queue the oldest, and `overflowed` does
  not move; line 62 says that the oldest are discarded, line 65 that discards are
  counted.
* `ingest/consumer.py:541`: shutdown flushes one batch; what is queued beyond it is
  lost with the process, although the broker's acknowledgement has been sent.
* `ingest/consumer.py:488`: an exception while starting ends the ingest thread;
  `/health` still answers "ok" for it. At line 519 a flush of an empty queue clears
  `write_failures` while checkpoints keep failing, and `api/main.py:600` shares the
  count of rejected readings between all callers.
* `services.py:216`: the anchor file and the checkpoint table are read one after the
  other, and a checkpoint in between, a crash between the two, or two checkpoints in
  one second makes them differ in untouched data; the hint at line 299 says that one
  of the two has been altered.
* `services.py:247`: the walk starts from the number it finds, so deleted first rows
  are reported as a modified row.
* `ingest/webhook.py:177`: `http.client` exceptions are not caught, end the worker and
  are counted nowhere (`CountedWhileAlive`); with a full queue `stop()` then waits for
  ever (`StopReturns`).
* `ingest/live_anomaly.py:178`: a building evicted by a batch that is rolled back is
  not restored (`UndoneUnlessEvicted`).
* `scheduler.py:43`: the nightly refit does not take the job slot, so it can overlap
  a refit job, which `api/jobs.py:16` means to exclude.
* `api/jobs.py:120`: a refit job changes `annual_kwh` in a subprocess and nothing resets
  the cached context, which `api/main.py:93` calls "rebuilt when the portfolio or
  catalog changes"; `scheduler.py:48`: nor does a nightly refit whose candidates cannot
  be stored. `RequestsSeeNightly` speaks of nightly refits that have ended.
* `api/main.py:897`: candidates are stored after the lock is released, so two
  recomputes may store in the other order than they were cached.
* `services.py:36`: `inputs_hash` leaves out glazing area, roof orientation, district and
  load shape; `materialize_candidates` then keeps rows derived from other values, and a
  stored run does not name all it was computed from (`api/main.py:1209`).
* `api/main.py:402`: on three cores or fewer the pool and the limit of an account are
  both one, so `NoMonopoly` holds from four cores on (the run has eight).

* `auth/service.py:391`: a sign-in that had checked the old password commits its session
  after a change, a reset or a disabling has revoked all (`EndedSessionsStayDead`), and
  with a rehash it writes the old password back (`PasswordIsLatest`).
* `api/auth_routes.py:377`: the rule that an administrator stays looks at the caller's
  own row only; two who demote each other at once leave none (`AdminRemains`). A judge
  promoted to administrator still expires.
* `auth/judge_pass.py:246`: the daily limit can be overrun by the requests in flight
  (`DailyLimitOverrun`).
* `auth/service.py:248`: the delay of a shared address is paid by every attempt behind
  any address. `auth/service.py:288`: the audit row is in the caller's transaction, so
  one that cannot be written fails the action.
* `auth/passwords.py:82` and `mail.py:96` say they never raise; a `KeyError` and the
  exceptions of `http.client` escape them (`DeliverUnrecorded`).
* `optimize/ilp.py:60`: costs are rounded one by one, and solar costs are not whole EGP,
  so an answer may exceed the budget by half an EGP per option (`SpendingBounded`).
* `domain/catalog.py:327`: a contract without problems can still end the expansion: with
  a `ValueError` or `TypeError` at a condition of `applies_if` that names no field, does
  not parse or compares with what is no number (lines 248 to 277, and nothing reads the
  rules before), with a `KeyError` or `ValueError` at a bucket (none for a building's
  value, or a malformed key before it, lines 186 to 221), with a `KeyError` for an
  occupancy without a row of shares, or with a `SavingsError` (a guard below the ceiling).
  `BundlesHonest` names these; the theorem shows that `Raises` has no other cause.
* `optimize/prune.py`: of options equal in cost and value one is kept by order alone.
  `PruneSafe` shows that neither the optimum of the exact solver nor what equal split may
  be worth depends on it; what the greedy heuristics return may. A stored run's
  `objective_value` is carbon for every objective.
* `ml/jobs.py:151`: a refit opens acknowledged alerts again, deletes live ones of readings
  it had not loaded, and names the hour where the ingester names the reading, so one
  fault may have two rows. A refit that dies between the two transactions leaves the
  building without alerts.
* `sim/node.py:121`: a restart forgets the active faults, so the end written to the
  ground truth is not honoured; a run that begins behind readings still in flight
  publishes, and records faults for, times that are then stored already
  (`TruthAfterHistory` speaks of what was stored when the answer was computed).
* `seed.py:213`: a seed that dies part-way leaves some buildings with history, and the
  next call without `--force` refuses. `repository.py:72` says that a reseed keeps
  anomalies and forecasts, `wipe_readings` deletes them; a running ingester keeps its
  heads after a wipe.

### Fairness

`FairSpec` of `Ingest`: the loop thread keeps taking the steps it can take (it runs
in a `while` with a 0.2 s sleep and catches every exception), a callback that has
begun finishes, and a process that is down is started (`restart` policy of the
container). Deliveries, failures, operators and the clock have no fairness;
`MaxFailures` makes failures finite, which is what "the database comes back" means
here. `Webhook`: the worker posts (`urlopen` has a timeout) and the caller's `put`
and `join` return once they can. Nothing is assumed of the exception that ends the
worker. `Planner`: a call, being one thread's computation, goes on while it can.

## Proofs

Eight modules hold theorems. Each of them speaks of every value of the constants that
the named assumptions of its modules allow; TLC evaluates those on every run. The
bounds of the models (deliveries, failures, budgets) are constants too, so no theorem
depends on how small a run was.

| Theorem | Property | For every |
|---|---|---|
| `IngestProofs`: `InvariantHolds`, `TypeCorrect`, `ChainsStayIntact`, `SequenceFollowsTime`, `AnchorsNameRows`, `DetectorStaysInStep`, `NotifiedIsStored`, `ReadingsStayAccounted`, `NoReadingOvertaken` | `IInv`, `TypeOK`, `ChainsIntact`, `SeqFollowsTime`, `AnchorsHold`, `DetectorInStep`, `NotifiedStored`, `EveryReadingAccounted`, `NoOvertake` | buildings, readings, batch and queue length |
| `IntegrityProofs`: `WalkDecidesIntact` | a lemma of the next two | table |
| `ChainAuditProofs`: `CleanReportIsHonest`, `WalkIsAlwaysExact` | `CleanMeansUntouched`, `WalkMatchesIntact` | length, anchored head, number of changes |
| `IngestProofs`: `NeverAFalseAlarm`, `IngestImplementsLog` | `NoFalseAlarm`, `ImplementsLog` | the same, and clock |
| `AnomalyProofs`: `NotificationsStayCounted`, `WorkerDrainsTheQueue` | `CountedWhileAlive`, `DrainedOnReturn` | queue length, number of notifications |
| `AnomalyProofs`: `RollbackPutsBack`, `EvictsTheUntouched` | `UndoneUnlessEvicted`, `ScoredGoLast` | buildings, windows, size of the memory, batches |
| `ContextCacheProofs`: `CacheStaysConsistent`, `NightlyReachesRequests`, `ColdBuildsOnly` | `CInv`, `RequestsSeeNightly`, `BuiltOnlyWhenCold` | set of request threads |
| `OptimizerProofs`: `SlotsStayAccounted`, `NobodyMonopolises`, `HeldRunsStayReadable` | `SlotsAccounted`, `NoMonopoly`, `HeldRunsReadable` | requests, accounts, cores |
| `OptimizerProofs`: `SpendingStaysBounded`, `NobodyLeavesEmptyHanded`, `PruningIsSafe`, `BundlesStayHonest` | `SpendingBounded`, `NeverEmptyHanded`, `PruneSafe`, `BundlesHonest` | portfolio, catalogue and contract the validators accept, budget, cap |
| `AccountsProofs`: `AccountsTypes`, `SessionsStayEnded`, `OldPasswordsStayDead`, `SharedAddressesCostTime`, `GuessesStayBounded`, `DailyLimitHolds`, `PassesEnd`, `PassesOpenNoOldAccount`, `AdministratorsRemain` | `TypeOK`, `EndedSessionsStayDead`, `PasswordIsLatest`, `NoSharedLockout`, `GuessesBounded`, `DailyLimitOverrun`, `PassEndsAccess`, `NoSecondWayIn`, `AdminRemains` | users, addresses, threads, limits |
| `AlertsProofs`: `HolesAreExplained`, `TruthFollowsHistory`, `FaultsKeepAlerts` | `HolesExplained`, `TruthAfterHistory`, `FaultsAlerted` | portfolio, callers, refits |

### The ingester

`ChainsIntact` is not inductive: it says nothing of the heads in memory or of the
rows staged for the next commit. `IInv` (module `IngestInvariant`) adds where the
process's heads stand at each point of a write. `ChainInv`: outside `apply` the heads
in memory are those of the table; in `sign` and `insert` the table together with the
staged rows is chained and the heads of the call are its heads; in `apply` the heads
of the call are those of the table. `AnchorInv` extends `AnchorsHold` to heads that
wait to be written to the file, `DetectorInv` says what the snapshot and the windows
hold before the commit, `NotifyInv` that what is about to be handed over is stored.
The key lemmas are
`SigningContinues` (a signed row continues the chain of table and staged rows),
`NothingIgnored` (no staged key is in the table, so `ON CONFLICT DO NOTHING` drops
none of them) and `RowsStay` (no action removes a row, so anchored heads stay true).

`EveryReadingAccounted` needs a second layer, `AccountInv`. `BatchInv` and `CountInv`
tie the counters of the call in progress to the batch: what it has signed, called
duplicate and not yet looked at is the batch. `RetryInv` and `OverflowInv` are about a
process without a failed write or a rejected reading: a second write still has something
to store, and a queue that is full when a reading is appended was full, and the reading
counted, when its length was looked at; so every discard is in `overflowed`.

`NoOvertake` compares two readings that may have been put back into the queue any number
of times, so its invariant, `OrderInv`, is about the whole line of unsettled readings:
the batch, the queue behind it, and the reading the network thread holds. As long as the
process has discarded nothing, there is a function from the positions of that line to
the deliveries of the process, increasing along the line (`Placed`); a delivery that is
not in the line any more came before all of its building that are, and is stored if it
arrived in order (`SettledInv`); whatever is stored was there at the start or has left
the line (`StoredInv`); and what the signing loop has come past is stored or staged
(`SignedInv`). Taking a batch, putting it back and dropping its unknown buildings each
come with the function for the new line.

`IngestImplementsLog` proves the refinement of `ReadingLog` action by action: the
commit is an append of a chained, time-ordered extension, the line in the anchor file
moves the anchored prefix forward, everything else stutters. `NeverAFalseAlarm` adds to
`IInv` what the request has read: its anchors name stored rows, and stay true while
rows are only added. It uses `WalkDecidesIntact`.

### The chain and its audit

`WalkDecidesIntact` is about chains of any length although the provers cannot do
induction over them: where one is needed, as for the numbers of the rows in sequence
order (`IntactNumbering`), the proof takes the least counterexample. The walk and
`IntactChain` then ask the same of each row. `CleanReportIsHonest` rests on
`CleanWalkIsHistory`: a signature commits to the history up to its row, so in a walk that
passes the i-th row carries a signature of i rows, and there is only one.

### Webhook and detector

`WebhookInv` adds to the types the shape of the queue (`QueueShape`: nothing stands behind
the stop mark, and nothing is left once it is taken) and that sent, failed, dropped,
suppressed and those in queue or under way add up to the notifications made, the stop mark
aside, as long as the worker lives. The counts alone are not inductive: without the shape, a mark
in the middle of the queue would end the worker with notifications behind it.

`DetectorInv` is about the middle of a batch and of its undoing. What has been saved of a
building is the window the batch found, unless the building was pushed out first; what is
not, or no longer, waiting to be put back is as the batch found it; and whatever is
missing is among those pushed out. A rollback of a batch is a loop over the snapshot; it
is a step per entry in the model, so that the invariant of the loop is an invariant of
the specification, and no fold has to be reasoned about. `RemoveAt` and the replacement of
an entry are shown to keep the order of the rest, which is what `ScoredGoLast` needs: the
buildings in the snapshot stand at the end of the memory.

### Cache and slots

`RequestsSeeNightly` needs the rest of `CacheConsistent`: that one thread at a time is
between its read and its assignment, and that nothing published is newer than what a
thread inside the lock has read, because the reset waits for the lock.

`SlotsAccounted` is inductive with the types. `NobodyMonopolises` assumes `Cores >= 4`:
below that the pool is one slot, which one account may hold, and the property is false.

### The optimizer

The first part of the proofs is about sums and products over finite sets. `SumFunction` and
`FoldFunction` are recursive functions that take their elements by `CHOOSE`. The library's
induction rules take operators, which no prover here can instantiate; the proofs state
the induction over *sets* of subsets (`SubsetInduction`) and find a smallest
counterexample instead: the recursive function exists (`FoldsExist`), it is the same on
every set it is defined on (`FoldsUnique`), and any element may be taken out first
(`SumUnfolds`, `ProductUnfolds`). From these follow that equal summands give equal
sums, that one changed summand changes the sum by its difference, that a sum may be taken
class by class (`SumByClass`), and the monotony of products.

`BundlesStayHonest` follows the code. On one end use, the product of what each measure
leaves is at least one minus the sum of what they take and at most what any of them leaves
(`ReductionsCombine`, `EndUseCombines`); generation adds; the end uses are summed class by
class; and the ceiling is applied to the whole, which takes no more away than the same
ceiling on every part (`CeilingCombines`), so the order survives it. That an expansion
fails for the reasons named and no other uses that the ceiling bounds every bundle
(`OnlyDataRaises`) and that the shares of a row `cross_validate` accepts are there.

`PlannerInv` has three parts. `StageInv` says what is settled in which phase: the options
are candidates, every candidate has one among them that is as good (`AsGood`), and every
chosen option is one of its building's. `SpendInv` says that no district is over its cap
and bounds the bill, exactly for the heuristics and by half an EGP per option for the
exact solver, because `round` moves a cost by no more (the budget and every cost are
rounded once). `OfferInv` is what makes the fallback
useful: as long as the density pass has funded nothing, no option worth something and
within the budget has been passed over; it is stated of what is left in `todo`.
All figures of an option are shown to be whole numbers, and costs positive, from what the validators
ask of a row.

`PruningIsSafe` replaces each option of a plan by one that is kept, costs no more and is
worth no less (a finite set has one, of lowest cost among the best); the new plan is
feasible and as good, so the optima agree. For equal split the best a building can buy
from the kept options is worth what it could buy from all, and a capped district keeps
its best either way.

### Accounts and passes

`AccountsInv` is the conjunction of the types and of who owns what (a session belongs
to an account that exists, a request under way names one) with one part for each
property. `PasswordInv` says that a verified sign-in holds the latest password, or has
been overtaken since; `EndsInv` that end dates and passes go together and that no session
outlasts them; `GuessInv` counts the attempts past their check together with the
failures recorded, `QuotaInv` the requests that have passed the daily limit together
with the passes of the window. The limits alone are not inductive: a check says nothing
of those that have checked and not yet written. Each action is first reduced to what it
may do to one account, one session, one window, one thread (`CredentialMove`,
`SessionMove`, `PassMove`, `ReqMove`, `QuotaMove`), and the properties are proved from
those moves.

`AccountsAssumption` asks for a finite, nonempty set of threads, that the name `"none"`
of the absent user is nobody's, and that times and limits are numbers.

### Stream and alerts

`StreamInv` is the invariant of the simulator, `/health` and the queue: there is a step
`e`, the end of the seeded history, such that every building has all of it or none and
nothing of it is published again (`SeedInv`); what lies before a stored reading is stored
or lost, and what lies before one in flight is so or in front of it (`OrderInv`); no
building is behind another, but for the round that has begun (`CoverInv`); and every
answer of `/health` that is cached or about to be used, however old, lies between `e`
and the newest stored reading (`AnswersInv`). `HolesExplained` follows from it and is far from inductive.
`AlertsInv` adds the types of alerts and refits to `FaultsAlerted`. `StationAssumption`
says that `Buildings` is a nonempty sequence.

### Assumptions

`UnitsAssumption`: the units are positive numbers and bundles may have two members.
`ScenesAssumption`: portfolio and catalogue are finite, ids of buildings are unique (the
primary key), and both have come through their validators, as has the contract.
`RequestAssumption`: budgets are whole multiples of the unit of money, caps are numbers; a
negative budget is allowed, as the code refuses it itself. `IngestAssumption`,
`EncodingAssumption`, `DetectorAssumption`, `WebhookAssumption` and the others say that
bounds and lengths are numbers of the right size; each is named next to its constants.

### Only model-checked

Every safety invariant and action property a passing run checks is a theorem as well, the refinement
included. Three properties stay with TLC:

* `ReadingReachesTable`, `StopReturns` and `SolveReturns` are liveness: fairness and
  `ENABLED` are outside the prover.

The theorems are about the models. That the code computes in floating point where the
models are exact, that HMAC is injective, and what CP-SAT may answer are idealisations
named above, and no proof reaches behind them.

## Not modelled

* Queries of the dashboards, map, metrics and reports: they read and format.
* The anchor file at the level of lines (a torn last line, the reader's tail window),
  the one-word ingest status of `/health`, a forced seed beside a running ingester.
* Numerical fitting and the detectors' statistics: floating point, out of TLC's reach.
* Cookies, CSRF tokens, mail providers' protocols, texts and layouts.
* The replay command, the evaluation harness, configuration, TimescaleDB's own
  machinery beyond the lagging view, the browser and deployment scripts.

`PROJECT.json` gives the reason for each.

## Plan

What would add most from here: the anchor file at the level of its lines, so that a torn
last line and the reader's tail window are steps of `Ingest`; and a forced seed beside a
running ingester.
