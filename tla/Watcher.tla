------------------------------ MODULE Watcher ------------------------------
(***************************************************************************)
(* The index lane of the worker (apps/worker/src/watcher): the poller      *)
(* walks the pool-creation cursor up to the settled head, ingests every    *)
(* detected pool as a launch row and enqueues its T+10m job; the features  *)
(* worker runs the job and stores the launch's reports.  `pnpm             *)
(* watcher:replay` is a second process that rewinds the same cursor and    *)
(* polls forward from there.                                               *)
(*                                                                         *)
(* Time is counted in blocks.  `head` is the settled head, which is        *)
(* HeadLag blocks behind the chain, and eth_getLogs is complete up to it.  *)
(***************************************************************************)
EXTENDS Naturals, FiniteSets

CONSTANTS
    Procs,          \* the processes that poll
    Live,           \* the one of them that is the worker's runPoller
    Pools,          \* pool-creation events
    Tokens,
    blockOf,        \* the block of each pool
    tokenOf,        \* its token
    creatorOf,      \* tx.from of its transaction
    Preexisting,    \* pools whose token is not a new launch
    Poison,         \* pools that can never be ingested (bad data)
    MaxBlock,       \* bound: last block
    MaxSpan,        \* maxSpan of each process: env.maxSpanBlocks, --span
    HeadLag,        \* env.headLagBlocks
    StuckLimit,     \* STUCK_POLLS_BEFORE_SKIP
    Quota,          \* env.quotaPerCreator24h
    Day,            \* 24 h, in blocks
    MaxFaults       \* bound: crashes and failed calls

ASSUME WatcherAssumption ==
    /\ Live \in Procs
    /\ MaxBlock \in Nat
    /\ blockOf \in [Pools -> 1..MaxBlock]
    /\ tokenOf \in [Pools -> Tokens]
    /\ Preexisting \subseteq Pools
    /\ Poison \subseteq Pools
    /\ MaxSpan \in [Procs -> Nat \ {0}]
    /\ HeadLag \in Nat
    /\ StuckLimit \in Nat \ {0}
    /\ Quota \in Nat
    /\ Day \in Nat
    /\ MaxFaults \in Nat

VARIABLES
    head,           \* settled head of the chain
    cursor,         \* watcherCursor.lastBlock
    launch,         \* launch rows: the set of [pool, quotaExceeded]
    job,            \* the t10 job of a token
    t10,            \* feature.t10ComputedAt: "null", "partial" (null again), "set"
    reports,        \* tokens with stored launch reports
    pc,             \* where each process is
    from,           \* --from of a replay
    target,         \* the head a replay runs to
    last,           \* local `cursor` of pollOnce
    to,             \* local `safeHead`, then `to`
    todo,           \* detected pools not looked at yet
    dp,             \* the set with the pool being ingested
    over,           \* local `quotaExceeded`
    heldFailure,    \* earliestHeldFailure, 0 for null
    failed,         \* failed > 0
    abandonThrough, \* abandonFailuresThroughBlock, 0 for undefined
    stuckPolls,     \* of runPoller, up to StuckLimit
    base,           \* history: where the first poll ever started
    abandoned,      \* history: pools logged as ABANDONING
    misses,         \* history: failed ingests per block, up to StuckLimit
    faults

poll == <<last, to, todo, dp, over, heldFailure, failed>>
replay == <<from, target>>
lane == <<job, t10, reports>>
history == <<abandoned, misses>>
vars == <<head, cursor, launch, job, t10, reports, pc, from, target, last, to,
          todo, dp, over, heldFailure, failed, abandonThrough, stuckPolls, base,
          abandoned, misses, faults>>

Point == {"idle", "rewound", "head", "read", "ingest", "check", "create", "enqueue", "after",
          "done", "exited"}

Least(a, b) == IF a <= b THEN a ELSE b

HasRow(t) == \E r \in launch : tokenOf[r.pool] = t

\* A database without a cursor: the first poll sets it to the settled head
\* (startAtHeadIfEmpty).
Init ==
    /\ head \in 0..MaxBlock
    /\ cursor = head
    /\ base = head
    /\ launch = {}
    /\ job = [t \in Tokens |-> "none"]
    /\ t10 = [t \in Tokens |-> "null"]
    /\ reports = {}
    /\ pc = [p \in Procs |-> "idle"]
    /\ from = 0
    /\ target = 0
    /\ last = [p \in Procs |-> 0]
    /\ to = [p \in Procs |-> 0]
    /\ todo = [p \in Procs |-> {}]
    /\ dp = [p \in Procs |-> {}]
    /\ over = [p \in Procs |-> FALSE]
    /\ heldFailure = [p \in Procs |-> 0]
    /\ failed = [p \in Procs |-> FALSE]
    /\ abandonThrough = [p \in Procs |-> 0]
    /\ stuckPolls = 0
    /\ abandoned = {}
    /\ misses = [b \in 1..MaxBlock |-> 0]
    /\ faults = 0

Fault ==
    /\ faults < MaxFaults
    /\ faults' = faults + 1

NewBlock ==
    /\ head < MaxBlock
    /\ head' = head + 1
    /\ UNCHANGED <<cursor, launch, lane, pc, replay, poll, abandonThrough,
                   stuckPolls, base, history, faults>>

-----------------------------------------------------------------------------
(***************************************************************************)
(* pollOnce, called by runPoller and by replay.                            *)
(***************************************************************************)

\* Mutant of StartPoll: the hatch opens one stalled poll too early.
StartPollEager ==
    /\ pc[Live] = "idle"
    /\ pc' = [pc EXCEPT ![Live] = "head"]
    /\ abandonThrough' = [abandonThrough EXCEPT ![Live] =
          IF stuckPolls + 1 >= StuckLimit THEN cursor + MaxSpan[Live] ELSE 0]
    /\ UNCHANGED <<head, cursor, launch, lane, replay, poll, stuckPolls, base,
                   history, faults>>

\* runPoller: a stalled poller reads the cursor to place its escape hatch.
StartPoll ==
    /\ pc[Live] = "idle"
    /\ pc' = [pc EXCEPT ![Live] = "head"]
    /\ abandonThrough' = [abandonThrough EXCEPT ![Live] =
          IF stuckPolls >= StuckLimit THEN cursor + MaxSpan[Live] ELSE 0]
    /\ UNCHANGED <<head, cursor, launch, lane, replay, poll, stuckPolls, base,
                   history, faults>>

\* watcher:replay --from f, for a block f that has been passed.
StartReplay(p, f) ==
    /\ p # Live
    /\ pc[p] = "idle"
    /\ f <= cursor
    /\ cursor' = f - 1
    /\ from' = f
    /\ pc' = [pc EXCEPT ![p] = "rewound"]
    /\ UNCHANGED <<head, launch, lane, target, poll, abandonThrough, stuckPolls,
                   base, history, faults>>

\* The chain's head, up to which the replay runs.
ReplayTarget(p) ==
    /\ pc[p] = "rewound"
    /\ target' = head + HeadLag
    /\ pc' = [pc EXCEPT ![p] = "head"]
    /\ UNCHANGED <<head, cursor, launch, lane, from, poll, abandonThrough,
                   stuckPolls, base, history, faults>>

\* pollOnce reads the head before it reads the cursor.
ReadHead(p) ==
    /\ pc[p] = "head"
    /\ to' = [to EXCEPT ![p] = head]
    /\ pc' = [pc EXCEPT ![p] = "read"]
    /\ UNCHANGED <<head, cursor, launch, lane, replay, last, todo, dp, over,
                   heldFailure, failed, abandonThrough, stuckPolls, base,
                   history, faults>>

\* The end of an iteration of the caller's loop.
Return(p) == pc' = [pc EXCEPT ![p] = IF p = Live THEN "idle" ELSE "after"]

\* pollOnce finds nothing new: it reports from = to = cursor.
NothingNew(p) ==
    /\ pc[p] = "read"
    /\ cursor >= to[p]
    /\ last' = [last EXCEPT ![p] = cursor]
    /\ to' = [to EXCEPT ![p] = cursor]
    /\ dp' = [dp EXCEPT ![p] = {}]
    /\ Return(p)
    /\ UNCHANGED <<head, cursor, launch, lane, replay, todo, over, heldFailure,
                   failed, abandonThrough, stuckPolls, base, history, faults>>

\* Mutant of Detect: the window is not clipped to the settled head.
DetectUnclipped(p) ==
    LET end == cursor + MaxSpan[p]
    IN /\ pc[p] = "read"
       /\ cursor < to[p]
       /\ last' = [last EXCEPT ![p] = cursor]
       /\ to' = [to EXCEPT ![p] = end]
       /\ todo' = [todo EXCEPT ![p] =
             {d \in Pools : cursor < blockOf[d] /\ blockOf[d] <= end}]
       /\ heldFailure' = [heldFailure EXCEPT ![p] = 0]
       /\ failed' = [failed EXCEPT ![p] = FALSE]
       /\ pc' = [pc EXCEPT ![p] = "ingest"]
       /\ UNCHANGED <<head, cursor, launch, lane, replay, dp, over,
                      abandonThrough, stuckPolls, base, history, faults>>

\* Reads the cursor and the logs of the next window.
Detect(p) ==
    LET end == Least(cursor + MaxSpan[p], to[p])
    IN /\ pc[p] = "read"
       /\ cursor < to[p]
       /\ last' = [last EXCEPT ![p] = cursor]
       /\ to' = [to EXCEPT ![p] = end]
       /\ todo' = [todo EXCEPT ![p] =
             {d \in Pools : cursor < blockOf[d] /\ blockOf[d] <= end}]
       /\ heldFailure' = [heldFailure EXCEPT ![p] = 0]
       /\ failed' = [failed EXCEPT ![p] = FALSE]
       /\ pc' = [pc EXCEPT ![p] = "ingest"]
       /\ UNCHANGED <<head, cursor, launch, lane, replay, dp, over,
                      abandonThrough, stuckPolls, base, history, faults>>

\* The loop over `detected`, in block order.
NextPool(p) ==
    /\ pc[p] = "ingest"
    /\ \E d \in todo[p] :
         /\ \A e \in todo[p] : blockOf[d] <= blockOf[e]
         /\ dp' = [dp EXCEPT ![p] = {d}]
         /\ todo' = [todo EXCEPT ![p] = todo[p] \ {d}]
    /\ pc' = [pc EXCEPT ![p] = "check"]
    /\ UNCHANGED <<head, cursor, launch, lane, replay, last, to, over,
                   heldFailure, failed, abandonThrough, stuckPolls, base,
                   history, faults>>

\* ingestPool returns null: already indexed, or not a new-token launch.
Known(p) ==
    /\ pc[p] = "check"
    /\ \A d \in dp[p] : HasRow(tokenOf[d]) \/ d \in Preexisting
    /\ pc' = [pc EXCEPT ![p] = "ingest"]
    /\ UNCHANGED <<head, cursor, launch, lane, replay, poll, abandonThrough,
                   stuckPolls, base, history, faults>>

\* creatorQuotaExceeded: launches of the creator in the day up to this one.
creatorQuotaExceeded(d) ==
    Quota <= Cardinality({r \in launch :
        /\ creatorOf[r.pool] = creatorOf[d]
        /\ blockOf[r.pool] <= blockOf[d]
        /\ blockOf[d] <= blockOf[r.pool] + Day})

\* The lookups succeed and the quota is counted.
Check(p) ==
    /\ pc[p] = "check"
    /\ \A d \in dp[p] :
         /\ ~HasRow(tokenOf[d])
         /\ d \notin Preexisting
         /\ d \notin Poison
    /\ over' = [over EXCEPT ![p] = \E d \in dp[p] : creatorQuotaExceeded(d)]
    /\ pc' = [pc EXCEPT ![p] = "create"]
    /\ UNCHANGED <<head, cursor, launch, lane, replay, last, to, todo, dp,
                   heldFailure, failed, abandonThrough, stuckPolls, base,
                   history, faults>>

\* Mutant of CreateLaunch: an upsert, without the unique key.
CreateLaunchUpsert(p) ==
    /\ pc[p] = "create"
    /\ launch' = launch \union {[pool |-> d, quotaExceeded |-> over[p]] : d \in dp[p]}
    /\ pc' = [pc EXCEPT ![p] = "enqueue"]
    /\ UNCHANGED <<head, cursor, lane, replay, poll, abandonThrough, stuckPolls,
                   base, history, faults>>

\* prisma.launch.create.
CreateLaunch(p) ==
    /\ pc[p] = "create"
    /\ \A d \in dp[p] : ~HasRow(tokenOf[d])
    /\ launch' = launch \union {[pool |-> d, quotaExceeded |-> over[p]] : d \in dp[p]}
    /\ pc' = [pc EXCEPT ![p] = "enqueue"]
    /\ UNCHANGED <<head, cursor, lane, replay, poll, abandonThrough, stuckPolls,
                   base, history, faults>>

\* features.add with jobId t10-<launch>.
EnqueueT10(p) ==
    /\ pc[p] = "enqueue"
    /\ job' = [t \in Tokens |-> IF \E d \in dp[p] : t = tokenOf[d] THEN "queued" ELSE job[t]]
    /\ pc' = [pc EXCEPT ![p] = "ingest"]
    /\ UNCHANGED <<head, cursor, launch, t10, reports, replay, poll,
                   abandonThrough, stuckPolls, base, history, faults>>

\* The catch of pollOnce: the failure is abandoned, or holds the cursor.
IngestFails(p) ==
    /\ pc[p] \in {"check", "create", "enqueue"}
    /\ failed' = [failed EXCEPT ![p] = TRUE]
    /\ misses' = [b \in 1..MaxBlock |-> IF \E d \in dp[p] : b = blockOf[d]
                    THEN Least(misses[b] + 1, StuckLimit) ELSE misses[b]]
    /\ LET abandon == {d \in dp[p] : blockOf[d] <= abandonThrough[p]}
           held == {d \in dp[p] \ abandon :
                      heldFailure[p] = 0 \/ blockOf[d] < heldFailure[p]}
       IN /\ abandoned' = abandoned \union abandon
          /\ heldFailure' = IF held = {} THEN heldFailure
                            ELSE [heldFailure EXCEPT ![p] = blockOf[CHOOSE d \in held : TRUE]]
    /\ pc' = [pc EXCEPT ![p] = "ingest"]
    /\ UNCHANGED <<head, cursor, launch, lane, replay, last, to, todo, dp, over,
                   abandonThrough, stuckPolls, base>>

\* Bad data and the unique key on (chainId, tokenAddress) fail every time ...
IngestCannot(p) ==
    /\ IngestFails(p)
    /\ \A d \in dp[p] :
         \/ pc[p] = "check" /\ d \in Poison /\ d \notin Preexisting /\ ~HasRow(tokenOf[d])
         \/ pc[p] = "create" /\ HasRow(tokenOf[d])
    /\ UNCHANGED faults

\* ... an RPC, database or queue call fails now and then.
IngestMisses(p) ==
    /\ IngestFails(p)
    /\ Fault

\* Mutant of nextCursor: the held block itself is skipped.
NextCursorPastFailure(p) == IF heldFailure[p] # 0 THEN heldFailure[p] ELSE to[p]

nextCursor(p) == IF heldFailure[p] # 0 THEN heldFailure[p] - 1 ELSE to[p]

\* Mutant of Stuck: the counter restarts after every failing poll.
StuckForgotten(p) == 0

\* runPoller counts the polls that failed without moving the cursor.
Stuck(p) ==
    IF nextCursor(p) > last[p] THEN 0
    ELSE IF failed[p] THEN Least(stuckPolls + 1, StuckLimit) ELSE stuckPolls

\* setCursor, and what the caller does with the result; pollOnce's other
\* locals are gone.
SaveCursor(p) ==
    /\ pc[p] = "ingest"
    /\ todo[p] = {}
    /\ cursor' = nextCursor(p)
    /\ to' = [to EXCEPT ![p] = nextCursor(p)]
    /\ stuckPolls' = IF p = Live THEN Stuck(p) ELSE stuckPolls
    /\ over' = [over EXCEPT ![p] = FALSE]
    /\ heldFailure' = [heldFailure EXCEPT ![p] = 0]
    /\ failed' = [failed EXCEPT ![p] = FALSE]
    /\ Return(p)
    /\ UNCHANGED <<head, launch, lane, replay, last, todo, dp, abandonThrough,
                   base, history, faults>>

\* replay's loop stops at the head it saw, or on an empty window of at most
\* one block (dp = {} when the poll looked at no pool).
ReplayLoop(p) ==
    /\ pc[p] = "after"
    /\ pc' = [pc EXCEPT ![p] =
          IF cursor + 2 >= target \/ (to[p] <= last[p] + 1 /\ dp[p] = {})
          THEN "done" ELSE "head"]
    /\ dp' = [dp EXCEPT ![p] = {}]
    /\ UNCHANGED <<head, cursor, launch, lane, replay, last, to, todo, over,
                   heldFailure, failed, abandonThrough, stuckPolls, base,
                   history, faults>>

\* A call outside the per-pool try throws: runPoller logs and polls again,
\* replay exits.
PollError(p) ==
    /\ Fault
    /\ \/ pc[p] \in {"rewound", "head", "read", "after"}
       \/ pc[p] = "ingest" /\ todo[p] = {}
    /\ pc' = [pc EXCEPT ![p] = IF p = Live THEN "idle" ELSE "exited"]
    /\ UNCHANGED <<head, cursor, launch, lane, replay, poll, abandonThrough,
                   stuckPolls, base, history>>

PollStep(p) ==
    \/ ReadHead(p) \/ NothingNew(p) \/ Detect(p) \/ NextPool(p) \/ Known(p)
    \/ Check(p) \/ CreateLaunch(p) \/ EnqueueT10(p) \/ IngestCannot(p)
    \/ SaveCursor(p) \/ ReplayTarget(p) \/ ReplayLoop(p)

-----------------------------------------------------------------------------
(***************************************************************************)
(* The features queue (BullMQ, external) and runT10ForLaunch.              *)
(***************************************************************************)

\* The delay has passed and a worker slot is free.  The transaction stores
\* the features: complete, ...
T10Features(t) ==
    /\ job[t] = "queued"
    /\ t10' = [t10 EXCEPT ![t] = "set"]
    /\ job' = [job EXCEPT ![t] = "report"]
    /\ UNCHANGED <<head, cursor, launch, reports, pc, replay, poll,
                   abandonThrough, stuckPolls, base, history, faults>>

\* ... or without some cluster lookups: t10ComputedAt stays null, no report
\* is assembled and the handler returns.
T10Partial(t) ==
    /\ Fault
    /\ job[t] = "queued"
    /\ t10' = [t10 EXCEPT ![t] = "partial"]
    /\ job' = [job EXCEPT ![t] = "ending"]
    /\ UNCHANGED <<head, cursor, launch, reports, pc, replay, poll,
                   abandonThrough, stuckPolls, base, history>>

\* A lookup throws, and the job has a single attempt; or the launch has no
\* liquidity source and the handler returns early.
T10Fails(t) ==
    /\ Fault
    /\ job[t] = "queued"
    /\ job' = [job EXCEPT ![t] = "ending"]
    /\ UNCHANGED <<head, cursor, launch, t10, reports, pc, replay, poll,
                   abandonThrough, stuckPolls, base, history>>

\* buildLaunchReports and persistLaunchReports.
T10Report(t) ==
    /\ job[t] = "report"
    /\ reports' = reports \union {t}
    /\ job' = [job EXCEPT ![t] = "ending"]
    /\ UNCHANGED <<head, cursor, launch, t10, pc, replay, poll, abandonThrough,
                   stuckPolls, base, history, faults>>

\* Their exceptions are recorded and swallowed.
T10ReportFails(t) ==
    /\ Fault
    /\ job[t] = "report"
    /\ job' = [job EXCEPT ![t] = "ending"]
    /\ UNCHANGED <<head, cursor, launch, t10, reports, pc, replay, poll,
                   abandonThrough, stuckPolls, base, history>>

\* The handler has returned or thrown, and BullMQ ends the job.
T10Ends(t) ==
    /\ job[t] = "ending"
    /\ job' = [job EXCEPT ![t] = "gone"]
    /\ UNCHANGED <<head, cursor, launch, t10, reports, pc, replay, poll,
                   abandonThrough, stuckPolls, base, history, faults>>

T10Step(t) == T10Features(t) \/ T10Report(t) \/ T10Ends(t)

\* The worker dies: its locals are gone and BullMQ re-queues stalled jobs.
CrashWorker ==
    /\ Fault
    /\ pc' = [pc EXCEPT ![Live] = "idle"]
    /\ stuckPolls' = 0
    /\ job' = [t \in Tokens |-> IF job[t] \in {"report", "ending"} THEN "queued" ELSE job[t]]
    /\ UNCHANGED <<head, cursor, launch, t10, reports, replay, poll,
                   abandonThrough, base, history>>

CrashReplay(p) ==
    /\ Fault
    /\ p # Live
    /\ pc[p] \notin {"idle", "done", "exited"}
    /\ pc' = [pc EXCEPT ![p] = "exited"]
    /\ UNCHANGED <<head, cursor, launch, lane, replay, poll, abandonThrough,
                   stuckPolls, base, history>>

Next ==
    \/ NewBlock \/ StartPoll \/ CrashWorker
    \/ \E p \in Procs :
         \/ PollStep(p) \/ IngestMisses(p) \/ PollError(p) \/ CrashReplay(p)
         \/ \E f \in 1..MaxBlock : StartReplay(p, f)
    \/ \E t \in Tokens : T10Step(t) \/ T10Partial(t) \/ T10Fails(t) \/ T10ReportFails(t)

Spec == Init /\ [][Next]_vars

\* runPoller never returns and BullMQ serves its queue.
Fairness ==
    /\ WF_vars(StartPoll \/ PollStep(Live))
    /\ \A t \in Tokens : WF_vars(T10Step(t))

FairSpec == Spec /\ Fairness

-----------------------------------------------------------------------------
(***************************************************************************)
(* Properties                                                              *)
(***************************************************************************)

\* The local and stored values of the index lane keep their types.
TypeOK ==
    /\ head \in 0..MaxBlock
    /\ cursor \in 0..MaxBlock
    /\ base \in 0..MaxBlock
    /\ launch \subseteq [pool : Pools, quotaExceeded : BOOLEAN]
    /\ job \in [Tokens -> {"none", "queued", "report", "ending", "gone"}]
    /\ t10 \in [Tokens -> {"null", "partial", "set"}]
    /\ reports \subseteq Tokens
    /\ pc \in [Procs -> Point]
    /\ from \in 0..MaxBlock
    /\ target \in 0..(MaxBlock + HeadLag)
    /\ last \in [Procs -> 0..MaxBlock]
    /\ to \in [Procs -> 0..MaxBlock]
    /\ todo \in [Procs -> SUBSET Pools]
    /\ dp \in [Procs -> SUBSET Pools]
    /\ over \in [Procs -> BOOLEAN]
    /\ heldFailure \in [Procs -> 0..MaxBlock]
    /\ failed \in [Procs -> BOOLEAN]
    /\ abandonThrough \in [Procs -> Nat]
    /\ stuckPolls \in 0..StuckLimit
    /\ abandoned \subseteq Pools
    /\ misses \in [1..MaxBlock -> 0..StuckLimit]
    /\ faults \in 0..MaxFaults

\* A pool is settled: indexed, no launch at all, or abandoned in the log.
Settled(d) == HasRow(tokenOf[d]) \/ d \in Preexisting \/ d \in abandoned

SettledThrough(b) ==
    \A d \in Pools : base < blockOf[d] /\ blockOf[d] <= b => Settled(d)

\* The life of a launch, as LaunchLane tells it.
StageOf(t) ==
    CASE job[t] = "none" -> IF HasRow(t) THEN "indexed" ELSE "absent"
      [] job[t] = "queued" -> "queued"
      [] job[t] = "report" -> "computed"
      [] job[t] = "ending" -> "ending"
      [] job[t] = "gone" -> "ended"

Lane == INSTANCE LaunchLane WITH
            stage <- [t \in Tokens |-> StageOf(t)],
            complete <- {t \in Tokens : t10[t] = "set"},
            published <- reports

\* Whatever processes poll, replay and crash, a launch is indexed once and its job
\* queued once, a job that has ended is never revived, and reports are published only
\* of complete features.
ImplementsLaunchLane == Lane!Spec

\* No pool is lost silently: whatever failed, crashed or ran concurrently,
\* every pool the stored cursor has passed is settled (pollOnce holds the
\* cursor just before the earliest failed block).
NoSilentSkip == SettledThrough(cursor)

\* The poller alone never moves the cursor back, even when it holds it
\* before a failed block.
CursorMonotone == [][cursor' >= cursor]_cursor

\* The poller alone gets past every settled block: a pool that can never be
\* ingested wedges it only until runPoller's escape hatch opens.
CursorReachesHead == \A b \in 1..MaxBlock : head >= b ~> cursor >= b

\* ingest.ts: ingestPool persists the launch "and enqueue[s] the T+10m job";
\* the retry of a failed ingest makes up for a failed enqueue.
LaunchGetsJob == \A t \in Tokens : HasRow(t) ~> job[t] # "none"

\* The escape hatch opens for a wedged poller only: a pool is abandoned in a
\* window whose first block has failed in StuckLimit polls (runPoller alone).
AbandonedOnlyWhenStuck ==
    \A d \in abandoned : \E b \in 1..MaxBlock :
       /\ b <= blockOf[d] /\ blockOf[d] < b + MaxSpan[Live]
       /\ misses[b] = StuckLimit
=============================================================================
