---------------------------- MODULE KeyLifecycle ----------------------------
(***************************************************************************)
(* The metabolism of apps/worker: runLifecycleLoop reads the provider's    *)
(* balance, key and total spend on every tick, grades the spend against    *)
(* the local ledger in an epoch, decides what to do with the gateway key,  *)
(* and writes what it did to lifecycle_log.  The provider charges for a    *)
(* call when it likes: a charge is first owed, then it settles.            *)
(*                                                                         *)
(* The reads of a tick and its epoch row are one step: a charge that       *)
(* settles between them is one that settles after them.  Every later await *)
(* is a step; a tick may throw at any of them and the process may die at   *)
(* any of them.  Money is in units of a deep dive's price.  The position   *)
(* of an epoch among the rows of the ledger stands for its time, and a key *)
(* has no name: the store's is the provider's current one or it is not.    *)
(***************************************************************************)
EXTENDS Integers, FiniteSets, Sequences, SequencesExt

CONSTANTS
    Modes,              \* which of "managed", "observe", "gateway" may run
    Reserve,            \* metabolismReserveUsd
    LowWater,           \* metabolismLowWaterUsd
    PhantomTolerance,   \* metabolismPhantomToleranceUsd
    MinGrade,           \* minGradeUsd
    AnomalyPct,         \* metabolismAnomalyPct
    AnomalyEpochs,      \* metabolismAnomalyEpochs
    IdsBand,            \* the larger of idsToleranceUsd and idsGraceUsd
    FirstBalance,       \* the balance the agent starts with
    TopUpUsd,           \* the credits that arrive at once
    MaxEvents           \* bound: failed calls, crashes, calls of somebody else,
                        \* arrivals of credits

ASSUME KeyLifecycleAssumption ==
    /\ Modes \subseteq {"managed", "observe", "gateway"}
    /\ {Reserve, LowWater, PhantomTolerance, MinGrade, AnomalyPct,
        AnomalyEpochs, IdsBand} \subseteq Nat
    /\ {FirstBalance, TopUpUsd, MaxEvents} \subseteq Nat

VARIABLES
    mode,           \* keyManagementMode, "gateway" when that is the source
    balance, spent, \* the provider's balance and total spend
    owed,           \* charges that have not settled
    key,            \* the provider has a key for the agent
    secret,         \* the secret the agent holds: "none", of the "current" key,
                    \* or of a "stale" one
    baseline,       \* blob.spendBaseline
    ledger,         \* the rows of metabolism_spend
    epochs,         \* metabolism_epoch: its last two rows, the sum of the deltas
    last,           \* the newest row of lifecycle_log
    pc,             \* where the tick is
    state, halted, anomalies,   \* the loop's variables
    reading,        \* what the tick has read, and the grade of its epoch
    plan,           \* what is left of the tick's decision
    events,
    foreign         \* what somebody else's calls have cost

provider == <<balance, spent, owed, key, foreign>>
memory == <<pc, state, halted, anomalies, reading, plan>>
vars == <<mode, balance, spent, owed, key, secret, baseline, ledger, epochs,
          last, pc, state, halted, anomalies, reading, plan, events, foreign>>

States == {"NO_KEY", "ACTIVE", "DRAINING", "ROTATING", "STARVED", "REVOKING"}
Billing == {"phantom", "anomaly", "aggregate_only", "unavailable"}
NoRow == [state |-> "NO_KEY", ids |-> FALSE, billing |-> "null", balance |-> -1]
NoBaseline == [of |-> "none", spent |-> 0, cost |-> 0]
NoReading == [balance |-> 0, spent |-> 0, key |-> FALSE, old |-> FALSE,
              holds |-> FALSE, cost |-> 0, win |-> {}, delta |-> 0, est |-> 0,
              graded |-> FALSE, billing |-> "null", ids |-> FALSE]

Init ==
    /\ mode \in Modes
    /\ balance = FirstBalance
    /\ spent = 0 /\ owed = 0
    /\ key \in CASE mode = "managed" -> {FALSE} [] mode = "observe" -> {TRUE}
                 [] mode = "gateway" -> BOOLEAN
    /\ secret = IF mode = "managed" THEN "none" ELSE "current"
    /\ baseline = NoBaseline
    /\ ledger = <<>>
    /\ epochs = [any |-> FALSE, spent |-> 0, mark |-> 0, prevMark |-> 0,
                 today |-> 0]
    /\ last = NoRow
    /\ pc = "idle"
    /\ state = "NO_KEY" /\ halted = FALSE /\ anomalies = 0
    /\ reading = NoReading
    /\ plan = <<>>
    /\ events = 0 /\ foreign = 0

Event ==
    /\ events < MaxEvents
    /\ events' = events + 1

-----------------------------------------------------------------------------
(***************************************************************************)
(* The provider (external).  What it shows of a charge it shows late: the  *)
(* charge is owed from the call on and settles later.                      *)
(***************************************************************************)

Settle ==
    /\ \E c \in 1..owed :
          /\ owed' = owed - c
          /\ spent' = spent + c
          /\ balance' = IF c > balance THEN 0 ELSE balance - c
    /\ UNCHANGED <<mode, key, secret, baseline, ledger, epochs, last, memory,
                   events, foreign>>

\* Somebody else calls the model with the agent's key.
ForeignCall ==
    /\ Event
    /\ key
    /\ foreign' = foreign + 1
    /\ owed' = owed + 1
    /\ UNCHANGED <<mode, balance, spent, key, secret, baseline, ledger, epochs,
                   last, memory>>

\* Credits arrive: an activation or the operator's funding.  The first one
\* makes a wallet's signature key known to the gateway.
TopUp ==
    /\ Event
    /\ balance' = balance + TopUpUsd
    /\ key' = (key \/ mode = "gateway")
    /\ UNCHANGED <<mode, spent, owed, secret, baseline, ledger, epochs, last,
                   memory, foreign>>

\* What the store and the baseline say of a key that has been replaced.
Outdated(k) == IF k = "current" THEN "stale" ELSE k

\* The key is revoked, or replaced, outside the runner.
KeyLost ==
    /\ Event
    /\ key /\ mode # "gateway"
    /\ key' \in BOOLEAN
    /\ secret' = Outdated(secret)
    /\ baseline' = [baseline EXCEPT !.of = Outdated(@)]
    /\ UNCHANGED <<mode, balance, spent, owed, ledger, epochs, last, memory,
                   foreign>>

-----------------------------------------------------------------------------
(***************************************************************************)
(* spend-ledger.ts: rows of a window that no epoch has stamped yet, and    *)
(* the sum of costUsd.                                                     *)
(***************************************************************************)

windowRows(since, until) ==
    {i \in (since + 1)..until : i \in DOMAIN ledger /\ ~ledger[i].stamped}

windowEstimate(rows) == SumFunctionOnSet([i \in rows |-> ledger[i].est], rows)

totalSpendUsd == SumFunction([i \in DOMAIN ledger |-> ledger[i].cost])

\* applyReconciliation for the rows `rows`: stamp each, and unless the factor
\* is null scale those that carry an estimate.
applyReconciliation(rows) ==
    [i \in DOMAIN ledger |->
        IF i \notin rows THEN ledger[i]
        ELSE [ledger[i] EXCEPT
                 !.stamped = TRUE,
                 !.cost = IF reading.graded /\ reading.delta > 0
                             /\ ledger[i].est > 0
                          THEN (ledger[i].est * reading.delta) \div reading.est
                          ELSE @]]

(***************************************************************************)
(* reconcile.ts: the grade of one window.                                  *)
(***************************************************************************)

reconcileEpoch(delta, est, count, lag) ==
    CASE count = 0 /\ lag = 0 /\ delta > PhantomTolerance -> "phantom"
      [] count = 0 /\ ~(lag = 0 /\ delta > PhantomTolerance) -> "aggregate_only"
      [] count # 0 /\ est <= 0 -> "unavailable"
      [] count # 0 /\ est > 0 /\ est < MinGrade /\ delta < MinGrade ->
             "aggregate_only"
      [] OTHER ->
             IF 100 * (delta - est) > AnomalyPct * est
                \/ 100 * (est - delta) > AnomalyPct * est
             THEN "anomaly" ELSE "aggregate_only"

\* The window was graded, so a reconciliation factor exists.
graded(delta, est, count) ==
    count > 0 /\ est > 0 /\ ~(est < MinGrade /\ delta < MinGrade)

\* ids-reconcile.ts: the provider charged this key more than the ledger knows.
reconcileIds(has, base, cost) ==
    /\ has
    /\ base.of = "current"
    /\ (spent - base.spent) - (cost - base.cost) > IdsBand

billingBlocksInference(status) == status \in {"anomaly", "phantom"}

-----------------------------------------------------------------------------
(***************************************************************************)
(* decideLifecycle, and what observe mode leaves of its decision.          *)
(***************************************************************************)

Steady(s) == [kind |-> "steady", to |-> s, event |-> "none", mint |-> FALSE]
Move(s, e, m) == [kind |-> "transition", to |-> s, event |-> e, mint |-> m]
Rotate == [kind |-> "rotate", to |-> "ACTIVE", event |-> "HYGIENE_DUE",
           mint |-> TRUE]
Revoke(e) == [kind |-> "revoke", to |-> "NO_KEY", event |-> e, mint |-> FALSE]

spendable == reading.balance - Reserve
hasKey == reading.key

\* The secret of the provider's key is the one inference uses: the gateway has
\* just authenticated it, or the prefixes agree.
holdSecret(has) ==
    IF mode = "gateway" THEN has
    ELSE secret # "none" /\ (~has \/ secret = "current")

\* Mutant of decideLifecycle: a halted runner mints when there is credit.
DecideWithoutHalt(S, phantom) ==
    CASE phantom /\ S \notin {"NO_KEY", "REVOKING"} -> Revoke("PHANTOM_SPEND")
      [] S = "NO_KEY" /\ spendable > 0 -> Move("ACTIVE", "KEY_CLAIMED", TRUE)
      [] OTHER -> Steady(S)

\* Mutant of decideLifecycle: a rotation that was interrupted is left alone.
DecideLeavesRotating(S, phantom) ==
    CASE S = "NO_KEY" /\ ~halted /\ spendable > 0 ->
             Move("ACTIVE", "KEY_CLAIMED", TRUE)
      [] S = "ACTIVE" /\ hasKey /\ reading.holds /\ reading.old -> Rotate
      [] OTHER -> Steady(S)

\* Mutant of decideLifecycle: a starved key is drained first.
DecideDrainsStarved(S, phantom) ==
    CASE S = "NO_KEY" /\ spendable <= 0 -> Move("STARVED", "NO_CREDITS", FALSE)
      [] S = "NO_KEY" /\ spendable > 0 -> Move("ACTIVE", "KEY_CLAIMED", TRUE)
      [] S \in {"ACTIVE", "DRAINING"} /\ spendable <= 0 ->
             Move("STARVED", "NO_CREDITS", FALSE)
      [] S = "STARVED" -> Move("DRAINING", "LOW_BALANCE", FALSE)
      [] OTHER -> Steady(S)

decideLifecycle(S, phantom) ==
    CASE phantom /\ S \notin {"NO_KEY", "REVOKING"} -> Revoke("PHANTOM_SPEND")
      [] S = "REVOKING" -> Move("NO_KEY", "REVOKED", FALSE)
      [] S = "NO_KEY" /\ halted -> Steady(S)
      [] S = "NO_KEY" /\ ~halted /\ spendable <= 0 ->
             Move("STARVED", "NO_CREDITS", FALSE)
      [] S = "NO_KEY" /\ ~halted /\ spendable > 0 ->
             Move("ACTIVE", "KEY_CLAIMED", TRUE)
      [] ~phantom /\ S = "ROTATING" -> Move("ACTIVE", "KEY_CLAIMED", TRUE)
      [] ~phantom /\ S = "STARVED" ->
             IF spendable > 0
             THEN Move("ACTIVE", "KEY_CLAIMED", ~(hasKey /\ reading.holds))
             ELSE Steady(S)
      [] ~phantom /\ S \in {"ACTIVE", "DRAINING"} ->
             IF ~hasKey THEN Move("NO_KEY", "REVOKED", FALSE)
             ELSE IF ~reading.holds THEN Revoke("IDS_MISMATCH")
             ELSE IF reading.old THEN Rotate
             ELSE IF spendable <= 0 THEN Move("STARVED", "NO_CREDITS", FALSE)
             ELSE IF reading.balance < LowWater
                  THEN IF S = "ACTIVE" THEN Move("DRAINING", "LOW_BALANCE", FALSE)
                       ELSE Steady(S)
             ELSE IF S = "DRAINING" THEN Move("ACTIVE", "STATUS_OK", FALSE)
             ELSE Steady(S)

restrictToObserve(d, S) ==
    CASE d.kind = "steady" \/ (d.kind = "transition" /\ ~d.mint) -> d
      [] d.kind = "transition" /\ d.mint /\ hasKey /\ reading.holds ->
             [d EXCEPT !.mint = FALSE]
      [] OTHER -> Steady(S)

decision(phantom) ==
    LET d == decideLifecycle(state, phantom)
    IN  IF mode = "managed" THEN d ELSE restrictToObserve(d, state)

\* state.ts: the reference machine.  "null" where it knows no transition.
nextState(s, e) ==
    CASE e \in {"PHANTOM_SPEND", "IDS_MISMATCH"} ->
             IF s = "NO_KEY" THEN "null" ELSE "REVOKING"
      [] e = "REVOKED" -> IF s = "REVOKING" THEN "NO_KEY" ELSE "null"
      [] e = "KEY_CLAIMED" ->
             IF s \in {"NO_KEY", "ROTATING", "STARVED"} THEN "ACTIVE" ELSE "null"
      [] e = "ROTATED" -> IF s = "ROTATING" THEN "ACTIVE" ELSE "null"
      [] e = "NO_CREDITS" ->
             IF s \in {"NO_KEY", "ACTIVE", "DRAINING", "ROTATING"}
             THEN "STARVED" ELSE "null"
      [] e = "LOW_BALANCE" -> IF s = "ACTIVE" THEN "DRAINING" ELSE "null"
      [] e \in {"DRAINED", "HYGIENE_DUE"} ->
             IF s \in {"ACTIVE", "DRAINING"} THEN "ROTATING" ELSE "null"
      [] e = "STATUS_OK" -> IF s \in {"ACTIVE", "DRAINING"} THEN "ACTIVE" ELSE "null"
      [] e = "CREDITS_RETURNED" -> IF s = "STARVED" THEN "ROTATING" ELSE "null"

\* checkAgainstStateMachine for the first transition of a decision.
agrees(S, d) ==
    \/ d.kind = "steady"
    \/ nextState(S, d.event) =
           CASE d.kind = "transition" -> d.to
             [] d.kind = "rotate" -> "ROTATING"
             [] d.kind = "revoke" -> "REVOKING"

-----------------------------------------------------------------------------
(***************************************************************************)
(* The tick.                                                               *)
(***************************************************************************)

\* Read the balance and the key (a wallet key the gateway does not know yet
\* reads as no account), set the baseline of a key that has none, grade the
\* window since the last epoch and create the epoch row.  The first epoch
\* starts at the baseline, which that very tick has set.
Grade ==
    LET blank == mode = "gateway" /\ ~key
        now   == Len(ledger)
        cost  == totalSpendUsd
        total == IF blank THEN 0 ELSE spent
        base  == IF key /\ baseline.of # "current"
                 THEN [of |-> "current", spent |-> spent, cost |-> cost]
                 ELSE baseline
        prev  == IF epochs.any THEN epochs.spent ELSE total
        win   == IF epochs.any THEN windowRows(epochs.mark, now) ELSE {}
        lag   == windowRows(epochs.prevMark, epochs.mark)
        delta == IF total > prev THEN total - prev ELSE 0
        est   == windowEstimate(win)
        g     == reconcileEpoch(delta, est, Cardinality(win), Cardinality(lag))
        more  == IF g # "anomaly" THEN 0
                 ELSE IF anomalies < AnomalyEpochs THEN anomalies + 1
                 ELSE anomalies
    IN  /\ pc = "idle"
        /\ baseline' = base
        /\ anomalies' = more
        /\ epochs' = [any |-> TRUE, spent |-> total, mark |-> now, prevMark |-> epochs.mark,
                      today |-> epochs.today + delta]
        /\ \E old \in {FALSE, key} :
              reading' =
                 [balance |-> IF blank THEN 0 ELSE balance, spent |-> total,
                  key |-> key, old |-> old, holds |-> holdSecret(key),
                  cost |-> cost, win |-> win, delta |-> delta, est |-> est,
                  graded |-> graded(delta, est, Cardinality(win)),
                  billing |-> IF g = "phantom" THEN g
                              ELSE IF more >= AnomalyEpochs THEN "anomaly"
                              ELSE IF g = "anomaly" THEN "aggregate_only"
                              ELSE g,
                  ids |-> reconcileIds(key, base, cost)]
        /\ pc' = "apply"
        /\ UNCHANGED <<mode, provider, secret, ledger, last, state, halted, plan,
                       events>>

\* The rows and calls a decision leaves to do.  `sets` says what the loop
\* assigns once the row is written: nothing, `state`, or `state` and `halted`.
\* The snapshot that repeats a transition's row is that row.
Row(s, ids, sets) == [op |-> "row", to |-> s, ids |-> ids, sets |-> sets]
Call(c) == [op |-> c, to |-> "NO_KEY", ids |-> FALSE, sets |-> "none"]

Plan(d, phantom, ids) ==
    CASE d.kind = "steady" -> <<Row(state, ids, "none")>>
      [] d.kind = "transition" ->
             IF d.mint THEN <<Call("mint"), Row(d.to, ids, "state")>>
             ELSE <<Row(d.to, ids, "state")>>
      [] d.kind = "rotate" ->
             <<Row("ROTATING", ids, "none"), Call("mint"),
               Row("ACTIVE", ids, "state")>>
      [] d.kind = "revoke" ->
             <<Row("REVOKING", phantom, "none"), Call("revoke"),
               Row("NO_KEY", phantom, "halt"), Row("NO_KEY", TRUE, "none")>>

\* applyReconciliation, then the decision; the rest of the tick reads no more
\* than what it logs.
Apply ==
    LET phantom == reading.billing = "phantom"
    IN  /\ pc = "apply"
        /\ ledger' = applyReconciliation(reading.win)
        /\ plan' = Plan(decision(phantom), phantom, reading.ids)
        /\ pc' = "act"
        /\ reading' = [NoReading EXCEPT !.balance = reading.balance,
                          !.spent = reading.spent, !.cost = reading.cost,
                          !.billing = reading.billing]
        /\ UNCHANGED <<mode, provider, secret, baseline, epochs, last, state,
                       halted, anomalies, events>>

EndTick ==
    /\ pc' = "idle"
    /\ plan' = <<>>
    /\ reading' = NoReading

Continue ==
    IF Len(plan) = 1 THEN EndTick
    ELSE plan' = Tail(plan) /\ UNCHANGED <<pc, reading>>

Doing(op) == pc = "act" /\ plan # <<>> /\ Head(plan).op = op

appended == [state |-> Head(plan).to, ids |-> Head(plan).ids,
             billing |-> reading.billing, balance |-> reading.balance]

WriteRow ==
    /\ Doing("row")
    /\ last' = appended
    /\ state' = IF Head(plan).sets = "none" THEN state ELSE Head(plan).to
    /\ halted' = (halted \/ Head(plan).sets = "halt")
    /\ Continue
    /\ UNCHANGED <<mode, provider, secret, baseline, ledger, epochs, anomalies,
                   events>>

\* orbio_create_key, and the secret with its baseline into the store.
Mint ==
    /\ Doing("mint")
    /\ key' = TRUE
    /\ secret' = "current"
    /\ baseline' = [of |-> "current", spent |-> reading.spent,
                    cost |-> reading.cost]
    /\ Continue
    /\ UNCHANGED <<mode, balance, spent, owed, ledger, epochs, last, state,
                   halted, anomalies, events, foreign>>

\* orbio_revoke_key, whose failure is swallowed; the store is cleared either way.
RevokeKey ==
    /\ Doing("revoke")
    /\ \/ key' = FALSE /\ UNCHANGED events
       \/ Event /\ UNCHANGED key
    /\ secret' = "none"
    /\ baseline' = NoBaseline
    /\ Continue
    /\ UNCHANGED <<mode, balance, spent, owed, ledger, epochs, last, state,
                   halted, anomalies, foreign>>

(***************************************************************************)
(* A call of the tick throws, and the loop waits for the next tick with    *)
(* the state it has; or the process dies.  The call itself may have        *)
(* happened: rows stamped, a row written, a key created whose secret never *)
(* arrived.                                                                *)
(***************************************************************************)

Interrupted ==
    \/ /\ pc = "idle"
       /\ UNCHANGED <<key, secret, baseline, ledger, last>>
    \/ /\ pc = "apply"
       /\ \E done \in IF reading.graded THEN SUBSET reading.win
                      ELSE {{}, reading.win} :
              ledger' = applyReconciliation(done)
       /\ UNCHANGED <<key, secret, baseline, last>>
    \/ /\ Doing("row")
       /\ last' \in {last, appended}
       /\ UNCHANGED <<key, secret, baseline, ledger>>
    \/ /\ Doing("mint")
       /\ \/ /\ key' = TRUE
             /\ secret' = Outdated(secret)
             /\ baseline' = [baseline EXCEPT !.of = Outdated(@)]
          \/ UNCHANGED <<key, secret, baseline>>
       /\ UNCHANGED <<ledger, last>>

TickFails ==
    /\ Event
    /\ Interrupted
    /\ EndTick
    /\ UNCHANGED <<mode, balance, spent, owed, epochs, state, halted, anomalies,
                   foreign>>

Dies ==
    /\ Event
    /\ \/ Interrupted
       \/ /\ Doing("revoke")
          /\ \/ /\ key' = FALSE
                /\ secret' = Outdated(secret)
                /\ baseline' = [baseline EXCEPT !.of = Outdated(@)]
             \/ UNCHANGED <<key, secret, baseline>>
          /\ UNCHANGED <<ledger, last>>
    /\ pc' = "down"
    /\ plan' = <<>>
    /\ state' = "NO_KEY" /\ halted' = FALSE /\ anomalies' = 0
    /\ reading' = NoReading
    /\ UNCHANGED <<mode, balance, spent, owed, epochs, foreign>>

\* The loop's variables come from the newest row of the log.
Boot ==
    /\ pc = "down"
    /\ pc' = "idle"
    /\ state' = last.state
    /\ halted' = (last.state = "NO_KEY"
                      /\ (last.ids \/ last.billing = "phantom"))
    /\ UNCHANGED <<mode, provider, secret, baseline, ledger, epochs, last,
                   anomalies, reading, plan, events>>
=============================================================================
