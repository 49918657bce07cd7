------------------------------ MODULE DeepDive ------------------------------
(***************************************************************************)
(* The deep dives of apps/worker beside the key lifecycle: the qualified   *)
(* lane's sweep and the on-demand queue each run one dive at a time.  A    *)
(* dive asks the budget gate, calls the model, stores its report and only  *)
(* then records what it spent.  Both lanes and the lifecycle loop share    *)
(* one process; what they share otherwise is the ledger, the epochs, the   *)
(* log's newest row and the provider.  The model covers one UTC day, and   *)
(* the newest row may be older than three polls at any moment.             *)
(***************************************************************************)
EXTENDS KeyLifecycle, Ascending

CONSTANTS
    Launches,       \* 1..n: qualified launches, in createdAt order
    SweepLimit,     \* the sweep's limit
    CapPerRun,      \* deepdiveCapPerRunUsd
    DailyCap,       \* deepdiveDailyCapUsd
    Trailing,       \* what trailingCreditsUsd may answer
    StepOver,       \* what the last step of an agent run may cost over maxCost
    MaxJobs,        \* bound: on-demand jobs
    MaxCharged      \* bound: no model run starts once this much was charged

ASSUME DeepDiveAssumption ==
    /\ Launches \subseteq Nat /\ IsFiniteSet(Launches)
    /\ Trailing \subseteq Nat
    /\ {SweepLimit, CapPerRun, DailyCap, StepOver, MaxJobs, MaxCharged}
           \subseteq Nat

Lanes == {"sweep", "queue"}

VARIABLES
    lane,           \* each lane's dive: where it is, its launch, its maxCostUsd,
                    \* what its calls have cost
    todo,           \* the launches the sweep has read and not tried yet
    jobs,           \* on-demand jobs in the queue, which holds them at will
    reported,       \* launches with an llm_deepdive_v0 report
    hidden          \* history: charges the ledger does not carry

dives == <<lane, todo, jobs, reported, hidden>>
allVars == <<vars, lane, todo, jobs, reported, hidden>>

NoDive == [at |-> "idle", launch |-> 0, max |-> 0, bill |-> 0]

charged == spent + owed - foreign

DInit ==
    /\ Init
    /\ lane = [l \in Lanes |-> NoDive]
    /\ todo = <<>>
    /\ jobs = MaxJobs
    /\ reported = {}
    /\ hidden = 0

MinOf(a, b) == IF a < b THEN a ELSE b
MaxOf(a, b) == IF a > b THEN a ELSE b

-----------------------------------------------------------------------------
(***************************************************************************)
(* The budget.                                                             *)
(***************************************************************************)

\* dailyDeepdiveBudget: the smallest of the cap, half the credits of the last
\* day, and what the balance leaves above the reserve.
dailyDeepdiveBudget(trailing, left) ==
    MaxOf(0, MinOf(DailyCap, MinOf(trailing \div 2, left)))

\* The flat cap stands in when the chain cannot be read or is not configured.
dynamicDailyCapUsd(left) ==
    {DailyCap} \union {dailyDeepdiveBudget(t, left) : t \in Trailing}

\* defaultLoadBudget.
spendableUsd == IF last.balance = -1 THEN DailyCap ELSE last.balance - Reserve
billingSeen == {last.billing, "stale"}

\* Mutant of spentToday: the gate trusts the provider's figure alone.
SpentByProvider == epochs.today

spentToday == MaxOf(totalSpendUsd, epochs.today)

\* Mutant of maxRunCostUsd: what is left is not compared with zero.
MaxRunCostUnclamped(cap, billing) ==
    IF billingBlocksInference(billing) THEN 0
    ELSE MinOf(CapPerRun, MinOf(cap - spentToday, spendableUsd))

\* deepdiveRunGate: what the run may cost, 0 when the gate is closed.
maxRunCostUsd(cap, billing) ==
    IF billingBlocksInference(billing) \/ spendableUsd <= 0 THEN 0
    ELSE MaxOf(0, MinOf(CapPerRun, MinOf(cap - spentToday, spendableUsd)))

-----------------------------------------------------------------------------
(***************************************************************************)
(* The lanes.                                                              *)
(***************************************************************************)

Free(l) == lane' = [lane EXCEPT ![l] = NoDive]

\* sweepDeepdiveEligible reads up to `limit` launches without a report.
SweepStarts ==
    /\ lane["sweep"].at = "idle" /\ todo = <<>> /\ pc # "down"
    /\ Launches \ reported # {}
    /\ todo' = SubSeq(Ascending(Launches \ reported), 1,
                      MinOf(SweepLimit, Cardinality(Launches \ reported)))
    /\ UNCHANGED <<vars, lane, jobs, reported, hidden>>

\* runDeepdive's budget gate.  A closed one also ends the sweep.
Gate(l, n, rest) ==
    \E cap \in dynamicDailyCapUsd(spendableUsd), billing \in billingSeen :
       LET max == maxRunCostUsd(cap, billing)
       IN  /\ todo' = IF l = "sweep" /\ max = 0 THEN <<>> ELSE rest
           /\ lane' = [lane EXCEPT ![l] =
                          IF max = 0 THEN NoDive
                          ELSE [at |-> "call", launch |-> n, max |-> max,
                                bill |-> 0]]

\* The sweep asks whether a report exists by now; the queue's runs are forced.
Sweep ==
    /\ lane["sweep"].at = "idle" /\ todo # <<>> /\ pc # "down"
    /\ IF Head(todo) \in reported
       THEN todo' = Tail(todo) /\ UNCHANGED lane
       ELSE Gate("sweep", Head(todo), Tail(todo))
    /\ UNCHANGED <<vars, jobs, reported, hidden>>

Job ==
    /\ lane["queue"].at = "idle" /\ jobs > 0 /\ pc # "down"
    /\ jobs' = jobs - 1
    /\ \E n \in Launches : Gate("queue", n, todo)
    /\ UNCHANGED <<vars, reported, hidden>>

\* runDeepdiveAgent: the model's turns, until it ends or a stop condition
\* holds.  The provider owes the charge from here on.
Invoke(l) ==
    /\ lane[l].at = "call" /\ charged < MaxCharged
    /\ \E c \in 1..(lane[l].max + StepOver) :
          /\ lane' = [lane EXCEPT ![l].bill = c, ![l].at = "answer"]
          /\ owed' = owed + c
    /\ UNCHANGED <<mode, balance, spent, key, secret, baseline, ledger, epochs,
                   last, memory, events, foreign, todo, jobs, reported,
                   hidden>>

\* The packet cannot be built, the run stops with an error, its output is not
\* valid, the report or the ledger row cannot be stored: no ledger row.
DiveFails(l) ==
    /\ lane[l].at \in {"call", "answer"}
    /\ Event
    /\ reported' \in IF lane[l].at = "call" THEN {reported}
                     ELSE {reported, reported \union {lane[l].launch}}
    /\ hidden' = hidden + lane[l].bill
    /\ Free(l)
    /\ UNCHANGED <<mode, provider, secret, baseline, ledger, epochs, last,
                   memory, todo, jobs>>

\* recordDeepdiveSpend.  The basis: what the provider reported, else the
\* estimate from the token counts, else nothing.
costBasis(bill) ==
    {[est |-> 0, cost |-> 0], [est |-> 0, cost |-> bill],
     [est |-> bill, cost |-> bill]}

\* Store the report, then record what it cost.
Record(l) ==
    /\ lane[l].at = "answer"
    /\ reported' = reported \union {lane[l].launch}
    /\ \E basis \in costBasis(lane[l].bill) :
          /\ ledger' = Append(ledger, [est |-> basis.est, cost |-> basis.cost,
                                       stamped |-> FALSE])
          /\ hidden' = hidden + lane[l].bill - basis.cost
    /\ Free(l)
    /\ UNCHANGED <<mode, provider, secret, baseline, epochs, last, memory,
                   events, todo, jobs>>

\* The process dies with both lanes; BullMQ hands the job out again.
Crash ==
    /\ Dies
    /\ lane' = [l \in Lanes |-> NoDive]
    /\ todo' = <<>>
    /\ jobs' = IF lane["queue"].at = "idle" THEN jobs
               ELSE jobs + 1
    /\ hidden' = hidden + lane["sweep"].bill + lane["queue"].bill
                     + MaxOf(0, totalSpendUsd - totalSpendUsd')
    /\ reported' \in SUBSET (reported \union
           {lane[l].launch : l \in {m \in Lanes : lane[m].at = "answer"}})
    /\ reported \subseteq reported'

-----------------------------------------------------------------------------
(***************************************************************************)
(* The whole metabolism.  A step of the lifecycle loop may lower the       *)
(* ledger's figures: it scales estimates to what the provider shows so far.*)
(***************************************************************************)

External == Settle \/ ForeignCall \/ TopUp \/ KeyLost
Tick == Grade \/ Apply \/ WriteRow \/ Mint \/ RevokeKey \/ Boot

Lifecycle ==
    /\ Tick \/ TickFails
    /\ hidden' = hidden + MaxOf(0, totalSpendUsd - totalSpendUsd')
    /\ UNCHANGED <<lane, todo, jobs, reported>>

Lane(l) ==
    Invoke(l) \/ DiveFails(l) \/ Record(l)

DNext ==
    \/ External /\ UNCHANGED dives
    \/ Lifecycle
    \/ SweepStarts \/ Sweep
    \/ Job
    \/ \E l \in Lanes : Lane(l)
    \/ Crash

DSpec == DInit /\ [][DNext]_allVars

\* The loop's timer and the awaited calls come back; a restart policy boots a
\* dead worker.
DFairSpec == DSpec /\ WF_allVars(Tick /\ Lifecycle)

-----------------------------------------------------------------------------
(***************************************************************************)
(* Properties.                                                             *)
(***************************************************************************)

RowType == [est : Nat, cost : Nat, stamped : BOOLEAN]

\* The type of every variable.
DTypeOK ==
    /\ mode \in Modes
    /\ {balance, spent, owed, foreign, events, anomalies,
        jobs, hidden, epochs.today} \subseteq Nat
    /\ {key, halted} \subseteq BOOLEAN
    /\ {secret, baseline.of} \subseteq {"none", "current", "stale"}
    /\ {state, last.state} \subseteq States
    /\ {reading.billing, last.billing} \subseteq Billing \union {"null"}
    /\ ledger \in Seq(RowType)
    /\ epochs.prevMark <= epochs.mark /\ epochs.mark <= Len(ledger)
    /\ pc \in {"idle", "apply", "act", "down"}
    /\ reading.win \subseteq DOMAIN ledger
    /\ \A l \in Lanes : /\ lane[l].at \in {"idle", "call", "answer"}
                        /\ lane[l].max \in IF lane[l].at = "idle" THEN {0}
                                           ELSE 1..CapPerRun
    /\ reported \subseteq Launches

\* deepdiveRunGate and recordDeepdiveSpend: the gate reads the ledger before a
\* run and the run is written to it after, in two lanes.  The day's cap is
\* exceeded by no more than one run of the other lane, the last step of each,
\* and what the ledger never carried: failed runs, crashes between the report
\* and the row, missing prices, estimates scaled down to a bill still to grow.
SpendBounded == charged <= DailyCap + CapPerRun + 2 * StepOver + hidden

\* revoke in runLifecycleLoop and the rows a restart reads: a runner that is
\* halted is in NO_KEY and has no key to make on its list, whatever ticks,
\* charges, credits and failures come.
HaltHolds ==
    halted => /\ state = "NO_KEY"
              /\ \A i \in DOMAIN plan : plan[i].op # "mint"

\* checkAgainstStateMachine only warns.  Of all decisions the runner reaches,
\* the one the reference machine of state.ts does not know is that of a key
\* lost outside the runner.
OnlyLostKeyDiverges ==
    LET phantom == reading.billing = "phantom"
        d       == decision(phantom)
    IN  pc = "apply" => \/ agrees(state, d)
                        \/ d.event = "REVOKED" /\ ~hasKey

Usable ==
    /\ ~halted /\ pc # "down"
    /\ balance > Reserve
    /\ mode # "managed" => key /\ secret = "current"

Serving ==
    /\ state \in {"ACTIVE", "DRAINING"}
    /\ key /\ secret = "current"

\* runLifecycleLoop: as long as there is credit and the runner is not halted,
\* failed ticks, lost answers, rotations and restarts end with the agent
\* serving on a key whose secret it holds.
EventuallyServes == <>[]Usable => <>[]Serving

-----------------------------------------------------------------------------
\* The comment of decideLifecycle: phantom spend is "the provider charged us
\* while we made no calls", "the one signal that means someone else holds the
\* key".
PhantomMeansForeign == reading.billing = "phantom" => foreign > 0
=============================================================================
