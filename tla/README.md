# Tripwire launch auditor: TLA+ models and proofs

This directory models the parts of the launch auditor whose correctness depends
on the order in which things happen: processes that share a database row,
transactions whose receipts do not show up, timers, retries, crashes. The values
the system computes (features, probabilities, hashes) are abstracted.

`PROJECT.json` lists the components, the runs, the mutants, the lines each
definition models, the findings, the hazards and the theorems.

## 1. The system

One worker process runs several loops over one Postgres database, one Redis
(BullMQ) and one RPC endpoint; an API serves what they wrote; operators run
scripts beside the worker.

| Component | State it keeps | Operations | Talks to |
|---|---|---|---|
| watcher index lane (`watcher/poller`, `ingest`, `t10`, `scripts/replay`) | `watcherCursor` row, `launch` and `feature` rows, `features` queue, the poller's `stuckPolls` | poll a window, ingest a pool, run the T+10m job, replay from a block | RPC budget, reports |
| reports (`report/*`, `assess.ts`) | `report` rows | assemble, validate, sign, upsert, create the outcome grid | commit job, outcome sweeps |
| commit job (`commit/job`, `CommitRegistry.sol`) | `commit` rows, `report.commitId`, one in-memory `unconfirmed` slot, the chain's events | a pass: resolve the held batch, select, send, wait, record; one-time and repeated artifact commits | RPC budget, chain |
| outcome sweeps (`outcomes/loop`, `enumerate`, the reset script) | `outcome` rows with status, value, `measuredAt`, `evidence.firstDeferredAt` | create the grid, pick due rows, resolve, defer, give up, reset | resolvers, backfill |
| RPC budget (`packages/rpc-budget`) | priority queue, slots, token bucket, timer, microtask flag, response cache | schedule, pump, loop, execute, retry, cache | every component that reads the chain |
| artifact commits (`commit/artifacts`, `commit:run --artifacts`, `commit-reconcile`) | ARTIFACT rows of `commit`, `ArtifactCommitted` events | post once at first run, post what changed, insert what a lost receipt left out | chain |
| features (`watcher/t10`, `cluster`, `creator`, `holders`, `primary-pool`, `scanners/*`) | the `feature`, `clusterMember` and `launch` rows of a token | nine reads that tolerate their own failure, one transaction, the reports | RPC budget, reports |
| resolvers (`outcomes/resolve*`, `block-time`) | the block cache, the decimals cache | find blocks, read trades, liquidity, transfers or quotes, decide the label | outcome sweeps |
| backfill (`backfill/*`) | none of its own | re-pool, discover, ingest, features, sweeps, under a call budget | features, sweeps |
| scorer (`scorer/*`, `packages/scoring`) | snapshots, a block-time cache | two concurrent passes over reports, outcomes and commits; statistics | reads only |
| deep dive (`deepdive/*`) | `metabolism_spend`, reports | budget gate, agent loop, persist, record spend | metabolism |
| metabolism (`metabolism/*`, `lifecycle-chain`) | key and session state, epochs, the hash-chained `lifecycle_log` | ticks, key mint, rotation and revocation, spend reconciliation, credit activation, append | external Orbio service |
| telegram poster, alerts, health server | `telegramPostedAt`, the alerts' `lastBad` | select, send, mark; evaluate, send on an edge | Telegram |
| API, web | none of its own (two queues) | receipts, verification, read queries, enqueue | all tables |

What is hard, and where it bites, is the `hazards` list of `PROJECT.json`. In
short: the commit job must survive lost receipts, reverts, crashes between the
chain and the database, and a second committing process; the watcher holds one
cursor for a window of which some pools fail, and shares it with the replay;
sweeps of two processes update the same rows with no check of what they read;
the RPC scheduler relies on exactly one timer or microtask to wake it; the
metabolism judges spend that is billed before it is recorded, in three loops of one
process; the log, the feed and the activations are written by an old and a new
container at once; the feature job and the resolvers must keep a failed read apart
from an answer.

What makes each component correct:

- **commit job**: a report that points at a commit row has a proof that verifies
  on chain; with one committer it is anchored once; every validated report is
  eventually anchored.
- **watcher**: no pool is passed over silently; the cursor always gets to the
  head; every launch gets its job, its features and its reports.
- **outcome sweeps**: a failed measurement is never an outcome; a row is given
  up only after its window; final rows stay; every due row ends.
- **RPC budget**: no lost wakeup, no leaked slot, strict priority, no stale null.
- **metabolism and deep dives**: spend stays within the day's cap but for what the
  gate cannot see; a halted runner makes no key; a usable agent ends up serving.
- **lifecycle log**: neither a fork nor a break.
- **artifacts, receipts**: the table ends up naming the file that is on chain; a
  receipt verifies exactly when it is the report's own.
- **features, resolvers, scorer, backfill**: what could not be read is never a fact,
  a verdict, a score or a finished run.
- **feed, alerts, activation**: said once, told on an edge, activated within the day's
  cap, up to the crashes that forget and to what another container cannot see.

## 2. Modules

| Module | Models | Kind |
|---|---|---|
| `CommitJob` | `runCommitBatch`, `recordBatch`, `waitReceipt`, `runCommitLoop`, `commit:run`, `commitBatch` of the contract | detailed specification |
| `ReportAnchor` | what the pipeline promises about a report | abstract specification, refined by `CommitJob` |
| `RpcBudget` | scheduler, priority queue, token bucket, `budgetedHttp`, response cache | detailed specification |
| `Watcher` | `runPoller`/`pollOnce`/`ingestPool`, the T+10m job, `watcher:replay` | detailed specification |
| `LaunchLane` | what the index lane promises about a launch, its job and its reports | abstract specification, refined by `Watcher` |
| `OutcomeSweep` | `ensureOutcomeRows`, `sweepDueOutcomes`, the loop, the backfill's sweep, the reset | detailed specification |
| `KeyLifecycle` | a tick of `runLifecycleLoop`: readings, epoch and grade, `decideLifecycle`, rows, mint, revoke, restart; the reference machine of `state.ts` | detailed specification |
| `DeepDive` | the deep dive's sweep, queue, budget gate, run and spend row; EXTENDS `KeyLifecycle`, with which it shares ledger and provider | composition |
| `Artifacts` | the worker's first posts, the operator's recommit, the reconcile script | detailed specification |
| `Eligibility` | `classifyEligibility`, used by the scorer and the API | operators |
| `Receipts` | the Merkle tree level by level, the API's receipt, `verify-receipt` | algorithm and protocol |
| `LifecycleLog` | `LifecycleLogWriter` in two containers, `verifyLifecycleRows` | detailed specification |
| `CreditActivation` | `activationDecision` and its caller in two containers, over `Activated` events | detailed specification |
| `Notifications` | the Telegram feed and the alert loop, in two containers | detailed specification |
| `Backfill` | `runBackfill` | detailed specification |
| `Scorer` | the scoring tick: collect, eligibility, base rates, AUROC, claims | detailed specification |
| `Resolvers` | `blockAtTime`, the series, `resolveOneOutcome` for the five labels | algorithm |
| `Features` | `runT10ForLaunch` | detailed specification |
| `Ascending`, `Halving` | the order of rows and log entries; what halvings leave of a range | operators |
| `Services` | the nine components that share no state, one running per behaviour (`part`), the others at rest | composition |
| `MC*` | instances for TLC | |
| `DataInduction` | lemmas: induction over naturals and finite sets, recursion, sums, order, halvings | TLAPS |
| `*Proofs` | theorems; `EvidenceProofs` and `ForecastProofs` take several components each | TLAPS |

Definitions called "Mutant of X" stand just before X: they are what X would be
with a plausible mistake, and each property is shown to fail under one of them.

### CommitJob

Every `await` of a pass is a step boundary (`pc`). `unconfirmed[p]` is the
module-level slot of process p; `commit:run` exits after its pass, so its slot
and locals vanish. A Merkle root is its set of leaves: the tree's hashing is not
modelled, so "the root is on chain" means "a successful `commitBatch` carried
exactly these leaves". `runCommitJob` first makes sure the artifacts are
committed; the model starts where that is done (`Artifacts` models how).
A report is stored by an upsert (`persist.ts:55`): the row of a content stored before gets
its verdict anew, which differs only under another build and counts as a fault. So
`EventuallyCommitted` promises a link to the reports that from some time on stay validated.
Ages replace timestamps and are capped at the threshold the code compares them
with. Faults (a crash, a throwing `writeContract` that may or may not have
broadcast, a lagging receipt, a revert, a dropped transaction, a failing
database call) are bounded by `MaxFaults`; `fate` is a history variable that
remembers what the sender knows of each transaction, for the properties only.
A transaction that gets no receipt because it was dropped costs no fault at the
timeout: the drop already did.

### RpcBudget

One action is one uninterrupted run of JavaScript: the microtask of `pump`, the
timer's callback, the settlement of a request with the `finally` that frees the
slot and runs `loop` again, the continuation of `request` that fills the cache.
`loop` is stated by what it does (how many calls it starts, whether it arms the
timer), not iteration by iteration. Whole tokens are the only amounts `tryTake`
tells apart. The nodes behind the load balancer are external: an object is
known to some of them (a read may answer null) or to all.

The header of `scheduler.ts` gives the default burst as
`max(ceil(rpm/10), 10)` and its constructor uses `max(ceil(rpm/30), 3)`; the
model takes any `Burst`, so nothing here depends on it.

### Watcher

`head` is the settled head, `cursor` the shared row. A poll reads the head, then
the cursor, then the window's logs, ingests pool by pool (check, create,
enqueue) and stores `nextCursor`. `Poison` pools always fail, `Preexisting` ones
are no launches, and other failures are faults. `abandonThrough` is the escape
hatch, `stuckPolls` its counter. The T+10m job is one transaction, then the
reports, with the errors the code swallows, then BullMQ (external) ends it: a job has one
attempt, and one that a crash has interrupted anywhere before its end is delivered again.
`LaunchLane` tells the same without polls, cursors, windows and replays: of each token,
whether it is indexed, queued, computed, ending or ended, and which have complete
features and reports. `StageOf` maps row and job to that, so `ImplementsLaunchLane` says
that two pollers never index a token twice, that an ended job is never revived, and
that only features just stored complete are reported on, through any crash. A chain always has a cursor:
`Init` is the state after `startAtHeadIfEmpty`, whatever the head was, and a
replay starts from a block the cursor has passed.

### OutcomeSweep

`Runs` are calls of `sweepDueOutcomes` that are alive at the same time. A process
starts one only when it waits for none, but a run that rejected (`DeferFails`)
goes on in its other workers, so runs of one process do overlap; the backfill is
another process on the same rows. `seen` is the evidence as the run read it,
which is what decides between deferring and giving up; the update is by id,
whatever the row has become. The five queries of the `fair` order are one read.
`order: 'spread'` (by id) is not used by a modelled caller. A verdict `NA` is
only given at creation, since `outcomeApplies` cannot change later. The rows of a
sweep that a deadline has cut off are covered: the resolver's late answer is
discarded by `withDeadline`.

### KeyLifecycle and DeepDive

A tick is `Grade` (all reads and the epoch row), `Apply` (the reconciliation of the
ledger and the decision), then one step per row or call of the decision
(`WriteRow`, `Mint`, `RevokeKey`): `plan` is what is left of it. A tick that throws
(`TickFails`) keeps the loop's variables, a process that dies (`Dies`) rebuilds
them from the newest row (`Boot`). The provider is external: a charge is owed
from the call on and settles when it likes, keys get lost, credits arrive,
somebody else may call. Money is in units of a dive's price, the day is one UTC
day; the factor of a reconciliation is kept exactly as the code's rounding would
at that unit. `DeepDive` adds the two lanes: `Gate` reads ledger, newest row and
cap, `Invoke` incurs the charge, `Record` writes what it is known to have cost.
`hidden` is a history of the charges no ledger row carries.

Read from the code, and visible in the model: a crash in the middle of a
revocation makes the next boot treat the key as active again; the failure of
`orbio_revoke_key` is swallowed while the rows say NO_KEY; the `stale` billing of an old row
masks a phantom or an anomaly; a housekeeping revocation halts the runner as a phantom one
does, although the comment above it speaks of phantoms only (`lifecycle-runner.ts:855`);
`lagRequestCount` counts rows that the previous epoch has already stamped and so is
0; a halt whose row was not written is forgotten by a restart; agent runs that
fail spend without a ledger row.

### LifecycleLog, CreditActivation, Notifications

A log writer stamps (`Stamp`), then inserts under the lock (`Persist`): the head is
the row with the greatest `createdAt`, which another container's clock may have
stamped ahead. Hence `ChainLinked` assumes `ClocksAgree` (stamps in the order
of insertion); without it the log does fork, and a second `HeadMovedError` loses
the row. An activation is decided, sent (the send may throw and yet have been
broadcast), mined; the in-memory note expires after ten minutes, on a rising
balance and on a restart. The old and the new container of a deploy (`Loops`) share the
wallet, and each has a note of its own (`acLast`): both can read the day's events before
either activation is mined, so the day can exceed its cap by one chunk for each other
loop with nothing forgotten, and TLC's instance reaches that. `acForgotten` is the sum of
what was in flight when its loop dropped the note of it. `ActivationBounded` is the cap
with both terms; it says no more because the code guarantees no more.
The feed sends and then marks; a report is sent again
after a lost mark, and by the other container during a deploy. The alert loop runs in
both containers too. What is wrong (`ntTrouble`) changes at any time (external), also
while a message is awaited; a tick takes it down (`AlertsEvaluate`), then tells it key
by key (`ApplyAlertTransitions`). Messages are counted per container and key, so
`AlertsOnEdge` fails if a lasting condition is told every tick, or if a recovery is told
that no 'bad' preceded. An attempt counts as a message: `lastBad` is set whether or not it
was sent, so an alert whose send fails is not sent again. A restart forgets what was
bad (`ntForgotten`): it is told again if it lasts, and its recovery is never told if not.

### Artifacts, Receipts

Posting and recording are two steps and the receipt's status is looked at
nowhere, so a reverted transaction leaves a row without an event. The first run's
posts stop for good once any row exists; an operator's recommit finishes them. A
file rolled back to an earlier hash after a lost row makes the recommit skip it while the
reconcile script calls the row stale. `Receipts` builds a tree as
the code does (an odd node is carried up) and hashes symbolically: a pair's hash is
the set of the two, and `LeafHash` is any function without collisions (in TLC's
instance, nested singletons).

### Features, Resolvers, Backfill, Scorer

`FtWorlds` are small chains: pools, transfers, ages. `Features` runs the job twice over
one, with a failing read anywhere; `ftRow`, `ftLaunch` and `ftMembers` are the
stored rows. The head moves under the job (`BlocksMined`). The job reads it once and
clamps its windows to what it found (`toBlock`), but the recipients' range is not clamped
(`cluster.ts:114`), nor is any when the head could not be read: past the head, one kind of node
throws and the other answers with what there is (`ReadFails`, `Reached`), which no rule marks
`partial`. So a job that begins before its window has ended can store and report on a
cluster that lacks the later recipients, although the comment at `t10.ts:270` takes
`partial = []` for complete; `FeaturesHonest` promises the cluster as of a block no earlier than
the head the job began at (`ftComputed`), which is all of it only from the window's end on.
Two failures become facts, and the property grants them by name: a reference quote that
fails says the token does not sell (`sellimpact.ts:89`, `feature9.ts:93`), and decimals that
cannot be read are 18 for the rest of the process's life (`t10.ts:26-28`), which sizes the sells
of every later launch with that quote (`ftDecimals`; an impact is known by the decimals
its sell was sized with). A sized sell that fails leaves its impact null while the token stays
sellable; a pool whose activity cannot be read counts no swaps.
A job that has saved its row keeps its head while it makes the reports, so the pool
it has chosen is judged against the window it was chosen in.
Overlapping runs of one job are not modelled.

`Resolvers` evaluates each label over every small history and quote, with the
block search's bound (`MaxIters`) and its never-emptied cache: a head that lags behind
the clock is answered and cached for good, as is a default number of decimals; a v4 pool
without its id is FALSE for TRADING_ALIVE despite the gap. Decimals are the unit
that goes with them (`QuoteUnit` when read, `DefaultUnit` when the read failed), and
`SellFounded` speaks of the former. A drawdown is judged at the later of the horizon and
the end of the reference window. The properties say what a verdict means given
those answers; the bound on a found block's distance holds for times from the first
block's on, before which every answer is that block.

`Backfill` looks at the call budget between items only; a scan past its deadline
goes on calling (`OrphanCalls`). Launches an aborted run has ingested get features
only from `--resolve-only`. `Scorer` interleaves two passes with sweeps and
commits: `loop.ts:73` takes their difference for the retrospective rows,
which is wrong when the two read at different times, and a trailing base rate
uses labels whose horizon had not ended. Rows of det_v0 reported twice count
twice towards the claim's minimum.

## 3. Runs

| Run | Question | Result |
|---|---|---|
| `CommitJob_worker` | the loop alone, 3 reports, batches of 2, 3 faults | passes: `AnchoredProof`, `ResentOnlyIfForgotten`, `CommitIdStable`, `ImplementsReportAnchor` |
| `CommitJob_cli` | beside `commit:run`, 2 reports, 1 fault: are links sound, and does every report that stays validated get one? | passes: `AnchoredProof`, `EventuallyCommitted` (the single-committer properties do not hold here, and are not claimed) |
| `RpcBudget_load` | 3 calls, 2 tiers, 2 slots, 2 tokens, cache of 1 | passes: `NoLostWakeup`, `SlotsMatchCalls`, `NoFrozenNull`, `AdmittedInOrder`, `TopTierServed` |
| `Watcher_safety` | poller and replay, a poison pool, two pools of one token, 1 fault | passes: `NoSilentSkip`, `ImplementsLaunchLane` (2.2M states) |
| `Watcher_live` | poller alone, a poison pool, 3 faults | passes: `AbandonedOnlyWhenStuck`, `CursorReachesHead` |
| `Watcher_enqueue` | "create the row and enqueue the T+10m job" | violated |
| `OutcomeSweep_overlap` | two loop runs and the backfill on 2 rows, 1 fault, 1 reset | passes: `UnresolvableIsNoOutcome`, `GiveUpEarned` |
| `OutcomeSweep_loop` | the loop alone on 4 rows: one NA, one broken, one reset, 1 fault | passes: `FinalStays`, `FairAcrossLabels`, `EventuallySettled` |
| `Metabolism_spend` | two lanes of dives beside the tick, 1 crash or failed call (1.5M states) | passes: `SpendBounded` |
| `Metabolism_keys` | the key lifecycle in its three modes, 4 faults, top-ups, foreign charges or lost keys | passes: `HaltHolds`, `OnlyLostKeyDiverges`, `EventuallyServes` |
| `Metabolism_phantom` | the comment that phantom spend means somebody else holds the key | violated |
| `Services` | each of the nine services, one per behaviour | passes: `ArtifactsSettle`, `ReceiptSound`, `ChainLinked`, `ActivationBounded`, `SaidOnce`, `AlertsOnEdge`, `NothingLeftOut`, `ScoresEarned`, `VerdictsFounded`, `FeaturesHonest` |

One run of each component also checks its type invariant.

**What the violated runs show** (details and quotes under `findings`): a launch
whose enqueue failed never gets its job, because the retry sees the row; a tick
that reads the provider while a dive has been billed and not recorded calls it
phantom spend, and revokes the key.

**Seen while modelling, without a run.** The commit job's one slot forgets an
earlier held batch when a second receipt is late (`commit/job.ts:312`, against the
message of line 314), so its reports are anchored twice. A partial T+10m result
completes its job and nothing runs it again (`t10.ts:270-272`). A replay beside a
running worker can lose its rewind to the poll in flight (`replay.ts:27`). Two containers can
activate a chunk each on the last of the day's cap (`lifecycle-runner.ts:558`, against "a
timeout must not become a second activation"). A
reset row keeps `firstDeferredAt` and may be given up at its first new error
(`reset-stale-outcomes.ts:45`, against `loop.ts:25`). The response cache is filled after the
answer, so concurrent callers of one question each hit the node (`cache.ts:7`
says they share one hit). `quotaExceeded` is stored but only the deep dive's
selection reads it: such launches get their job and their reports
(`quota.ts:11` says "not scored"). The escape hatch covers a whole window, so a
pool that fails once behind a stuck one is abandoned with it, under a log line
that says "after repeated failure"; `AbandonedOnlyWhenStuck` states what does
hold. The header of `scheduler.ts` gives another default burst than its
constructor.

**Bounds.** Batches of 2 with 3 reports give a full batch, a leftover, and a held
batch beside a newer one; 3 faults give a lost receipt, its expiry and a
crash. For the RPC budget, three calls exceed both the slots and the tokens, two
share a tier and two share a question, and a cache of one entry evicts. For the
watcher, three blocks with windows of two and three give a window with a failure
in its middle, one at its end, and a second window; a stuck limit of 1 or 2 stands
for 6, and failures are counted per block up to that limit. For the sweeps, a
give-up window longer than the backoff (overlap) or equal to it (loop) lets a row be
deferred, retried and given up, three due rows exceed a batch of two, and two
workers beside an orphaned run and the backfill give every overlap of three
writers; the loop's two runs are interchangeable, and the overlap run, which checks
invariants only, uses that symmetry. For the metabolism, a price of 1 and a
cap of 1 with two queued jobs and a sweep let two lanes pass the gate before either records; a
reserve, a low-water mark and a first balance around them reach every grade and
decision. For the services, three rows and two writers fork a log that is inserted
blindly, batches of 1 to 7 leaves have an odd level at each height, four launches with
eight reports give every eligibility, and nine blocks give a clipped, a capped and an exact
block search. Two loops with a chunk of 2 under a cap of 3, and CREDIT for two chunks,
let both spend the day's cap before either is seen; two troubles, one restart and two
containers let a condition come back, move between two messages and be forgotten; a head
inside the ten-minute window and one past it let a job begin, read and report on either
side of its end.

**Fairness.** Only steps the code itself guarantees: the loops never return
(`runCommitLoop`, `runPoller`, `runOutcomesLoop`), `waitReceipt`, `withDeadline`
and `http` have deadlines, time passes, the event loop runs its microtasks and
timers, BullMQ serves its queue; of the metabolism, that the loop's timer and its
awaited calls come back and a dead worker is booted (`DFairSpec`). For the commit job also that the chain includes
what stays in its mempool; a transaction that never mines is a fault. No fairness
is assumed of faults, of operators or of the lower RPC tiers, which may starve.

## 4. Proofs

Every safety property and every action property of the passing runs is a theorem; so is
every component's type invariant. They hold for every value of the constants under the
modules' named assumptions (`...Assumption`), which are of three kinds:

- types and non-zero limits (all modules);
- finite sets where the code counts a list: containers, loops, launches, the launches known
  to a backfill (`Notifications`, `CreditActivation`, `Scorer`, `Backfill`);
- facts of the world: hashes without collisions (`Receipts`), at least one hash a file
  may have (`Artifacts`), block times that never decrease (`Resolvers`), and, of
  `Features`, a token deployed and a creator first seen no later than the launch block, a
  primary pool initialised in it, and no head behind it.

- **`CommitJobProofs`**. `AnchoredProof` speaks of linked reports only and is not
  inductive: linking relies on what the pass had in its locals since it sent.
  `AnchorInv` adds that every commit row records a successful transaction with
  its own leaves (`RowsSound`), that links point into their row (`LinksSound`),
  that the slot's batch is the leaves of its transaction (`SlotSound`), and that
  a pass past its receipt has a successful transaction in hand (`PassSound`).
  One lemma per action; `TypeCorrect` and `LinkedReportsAnchored` follow. With
  `Procs = {Worker}`, `InHand` says that what the worker holds, in the slot or
  in its pass, is unlinked and disjoint: `SingleCommitterStable` follows, and
  `Refinement` maps mining to `Publish`, linking to `Attach`, and every other
  step to a stutter of `ReportAnchor`. `FatesTrue` ties the history of what is known
  of each transaction to the worker's memory (held: in the slot; in flight: in the
  pass under way; recorded: all its reports linked), so what is sent is in no root
  that is still known, and nothing forgotten is remembered: `SentOnceWhileKnown`.
- **`RpcBudgetProofs`**. `WakeInv` is `NoLostWakeup` with the types of the
  scheduler's variables; the key lemma `LoopWakes` says that any run of `loop`
  ends with the queue empty, the slots full, or the timer armed. `CallInv` adds that the
  queue lists each queued call once and that the slots in use count the running
  calls (`SlotsAlwaysMatch`); `OrderInv` that the queue is sorted by tier, so what
  `loop` starts is a prefix of it (`AlwaysAdmittedInOrder`); `DataInv` the types of
  the bucket and the cache, and that no poll made when every node had the object has a
  null in hand (`NeverFreezesNull`, `BudgetTypeCorrect`).
- **`WatcherProofs`**. `SkipInv` relates the stored cursor to what a poll in
  progress has settled up to its window's end, less the pools it has still to
  look at and the earliest failure it holds; from it `NothingSkippedSilently`
  holds even with concurrent replays, because a cursor write always stores a
  block up to which that poll accounted for everything. `LonePollerMonotone`
  needs in addition that the cursor is still the one the poll read, and
  `HatchOnlyWhenStuck` (`HatchInv`) that the polls counted as stuck are failures of
  the very block that holds the cursor, and that an open hatch reaches one window
  beyond it. `WatcherTypeCorrect` is the type invariant. `LaneInv` says who may create and
queue: a process about to queue a job has found the token without a row and created the
row itself, no two such processes have the same token, and a job past its features has
them complete. One lemma per kind of step maps it to `LaunchLane` (`CreateIndexes`,
`EnqueueQueues`, `DeliveryMoves`, `CrashRedelivers`, the rest to a stutter):
`LaneRefinement`.
- **`OutcomeSweepProofs`**. `ClockInv`: every clock, stored or read by a run, is
  backed by a failure at least as old, for the rows no reset reopens
  (`Lasting`); hence `GivingUpIsEarned`.
  `ValueInv`: a value goes with RESOLVED, and a row without a row in the table is
  never worked on; `FailedMeasurementIsNoOutcome`. `LoneInv`: with one process
  and before any fault, rows in a run's hands (`Hands`) are PENDING and in
  nobody else's; `LoneSweeperKeepsFinal`. The order of a pick is a strict total one
  (`BeforeTotal`) and gives every due row a place of its own, so a fair pick takes
  turns among the labels (`PicksAreFair`). `SweepTypeCorrect` includes that no run
  works on more rows at once than its concurrency.
- **`EvidenceProofs`**. *The log.* `Chained`: while the stamps are in the order of
  insertion (`ClocksAgree`), every row names the one inserted just before it, because
  the newest row under the lock is then the last one. From it `LogNeverForks`:
  the verifier's order is the order of insertion and finds no fork and no break, for
  any number of writers, deaths, lost answers and retries.
  `OneClockNeverForks` discharges `ClocksAgree` where it can be: if the writers read
  one clock (`Skew = 0`, two containers of one host) that gives no stamp twice, a row
  being appended was stamped after the row it names (`Timely`), which the lock requires
  to be the newest; so the stamps are in the order of insertion. What is left to break
  the chain is clocks that differ, or two rows within one tick.
  *Activations.* What a loop may add is what the events leave of the cap (`acToday`), but
  they do not show what the other loops have in flight, at most a chunk each (`Spare`), nor
  what was in flight when its note was dropped, which is what `acForgotten` sums. `ActivationInv`
  says that a loop's own activation is covered by its note and that those without a note are
  among the forgotten; a loop that decides has nothing of its own in flight but what it has just
  forgotten; `DayBounded`.
  *Receipts.* Every leaf is in exactly one node of the level under construction
  (`Partitioned`), and folding its proof over its hash gives that node (`ProofsHold`; a
  level adds one hash at the end, `FoldAppend`). A stored row has the root and the
  proofs of one tree (`Stored`), and a receipt that verifies against it is the report's
  own, because folding one proof over two leaves gives two roots (`FoldInjective`);
  `ReceiptsProve`.
  *Artifacts.* `RowsName`: a row names an event of its label and hash, or a
  reverted transaction. While nothing has reverted and nobody else posts (`Alone`), each
  label the operator's run is past is recorded with its file's hash (`Behind`), so when the
  run ends the table agrees with the chain; `ArtifactsAgree`.
  *Resolvers.* `RvInv` is the types of row and task with, of what the cache holds, that each
  block is near the time it was asked for (`WorldInv`), that a row past its first
  reads has the blocks it asked for and the history it was given (`TaskInv`), and that a
  verdict given rests on its label's rule (`VerdictOK`). The search keeps a bracket (`Bracket`)
  around the block it looks for, which every round halves, so what is left after
  `MaxIters` rounds bounds the error; `VerdictsHold`.
- **`DeepDiveProofs`**. `HaltHolds` is not inductive: a plan that halts in its
  third row must do no harm after it. `HaltInv` adds that (`HaltsCleanly`), that a
  halted runner's plan is `Harmless`, and that a dead process has none;
  `HaltedMintsNothing` follows with the lanes of dives beside the tick. `Decides`
  lists what `decideLifecycle` may answer in each state, and `OnlyLostKeys` compares
  it with `state.ts`. `TypesHold` is the type invariant of the composition: a
  lane past its gate may spend at most the cap of a run and bills at most a step more
  (`Sound`). `SpendInv` says that the charges are in the ledger, in a lane's bill or
  hidden, and that those not hidden leave room, within the cap and one run of the other
  lane, for what both lanes have reserved: a gate never sees less than the ledger carries
  and reserves no more than is left. Hence `SpendWithinCap`.
- **`ForecastProofs`**. *Features.* `FtRowInv` says of the stored rows what
  `FeaturesHonest` promises, `FtJobInv` the same of the job's local copy, and what it
  takes for it to become the row: past the first cluster rule, unless a lookup has failed,
  the launch block's buyers are in, past the second the cluster as of a head no earlier than
  the one the job began at (`FoundOK`, over `Whole(head)`, which is kept while the head moves
  on); a share was taken of the members in hand at an allowed block (`SharesOK`); a sell's
  impact needs an answered reference quote (`Sells`) and is in the quote's decimals or, after
  a failure, in the default ones (`ImpactsOK`, also of the cache). `rankCandidates` is a strict order (`AheadOrder`), so
  of a finite set of candidates some pool is first (`FirstExists`, by induction); the two
  searches keep a bracket that each round halves (`Rounds`, `CodeAtIs`, `NonceAtIs`).
  `FeaturesAreHonest`.
  *Feed and alerts.* `Counted` balances, report by report, the messages sent against the
  marks, the lost marks and the sweeps that have it in hand; `MessagesSaidOnce`. `KeyInv`
  balances, key by key and container by container, the alerts: a 'bad' is answered, still
  held in `lastBad` or forgotten (`SaidIs`), and of the times the key turned bad one is kept for
  what the tick found and has not told yet and one for what the next tick will find
  (`ToSay`), whatever moves while a message is awaited; `AlertsOnlyOnEdges`.
  *Backfill.* Each chunk before the next one is scanned or a hole (`Searched`), every
  launch this run owes features was tried or is left to try (`Tried`), and the sweep ends when
  nothing is due or the run says so (`Swept`); `BackfillOmitsNothing`.
  *Scorer.* `Table` is what a pass may have collected: pairs of reports that were eligible
  when read (`Earned`), in each forecast's list once; a pass keeps it although the rows
  grow under it (`PassInv`), so the launches a published claim compares two forecasts over had both outcomes
  (`Founded`); `ScoresAreEarned`.
  *Services.* A behaviour of `Services` is one of each component (`ServicesTogether`): the
  one that runs takes its own steps, the others stutter. Hence the nine type invariants
  (`ServicesTypeCorrect`) and the ten safety invariants (`ServicesSafe`) hold together.
- **`DataInduction`**. The library's induction theorems take an operator, which the
  provers cannot instantiate. Stated with a set in its place they are ordinary facts:
  `NatSetInduction` (from the least element of a set of naturals), `FiniteSetInduction` (over a
  set of subsets), `NatRecursion` (a recursion has a solution). From these: the sum over a
  finite set (`SumIs`, `SumAdd`), its greatest element, its ascending enumeration, the
  halving of a range (`LeftOfIs`).

Only model-checked: the liveness properties (`EventuallyCommitted`, `TopTierServed`,
`CursorReachesHead`, `EventuallySettled`, `EventuallyServes`), since fairness and ENABLED
are out of the prover's reach. Every other property of a passing run is a theorem.
Only proved: `CursorMonotone`, that a lone poller never moves its cursor back.

## 5. Not modelled

- ABI decoding, address tables, chunked log reads (`packages/chain`, `history`), the
  environment, start-up and health server: wiring and pure I/O.
- The features of the index lane, prior launches, drainer approvals, the field
  maps of the two scanners; evidence texts of the outcomes; the coverage counters, the
  interval of the DeLong test and Brier scores of the scorer: values no property tells
  apart. `coverage.ts` counts can go below zero (`pendingNotDue`), which nothing reads.
- Prompts, tools and answers of the deep dive, OAuth refresh, the MCP transport and the
  encryption of the token file: external behaviour behind one call that ends or fails.
- Validation and signing of reports; the base-rate report and `--dry-run` of the
  backfill; read-only operator scripts; the API's queries; the web pages.

## 6. Plan

1. Proofs: what the sweeps and the resolvers say together of a RESOLVED row.
2. `Features`: two overlapping jobs of one launch; the index lane's features.
3. `Metabolism` over midnight: a second UTC day, over which the caps reset.
4. An abstract specification of the lifecycle log (append-only, one chain) refined by
   `LifecycleLog` under `ClocksAgree`.

## 7. Running

    tlc -config CommitJob_worker.cfg MCCommitJob
    tlapm CommitJobProofs.tla
