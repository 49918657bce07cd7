---------------------------- MODULE OutcomeSweep ----------------------------
(***************************************************************************)
(* The outcome rows of apps/worker/src/outcomes: ensureOutcomeRows creates *)
(* a report's grid, and sweepDueOutcomes picks due PENDING rows and        *)
(* resolves, defers or gives up each of them.  runOutcomesLoop of the      *)
(* worker and the backfill script are two processes that sweep the same    *)
(* table, and a sweep that rejects leaves its other workers running beside *)
(* the next sweep.  reset-stale-outcomes puts final rows back to PENDING.  *)
(*                                                                         *)
(* Rows are numbered in horizonAt order.  Timestamps are kept as ages,     *)
(* capped at the threshold the code compares them with; ticks are minutes  *)
(* to hours.                                                               *)
(***************************************************************************)
EXTENDS Naturals, FiniteSets

CONSTANTS
    MaxRows,        \* bound: outcome rows
    Labels,
    label,          \* the label of each row
    rank,           \* the position of each label in ALL_OUTCOME_LABELS
    grid,           \* the report anchor whose grid each row belongs to
    applies,        \* the rows for which outcomeApplies
    Broken,         \* rows whose resolver always throws a non-transient error
    Resettable,     \* rows that reset-stale-outcomes selects once final
    Sweepers,       \* the processes that sweep
    Live,           \* the one of them that is the worker's loop
    Runs,           \* bound: calls of sweepDueOutcomes at the same time
    owner,          \* the process of each of them
    wanted,         \* the rows the filter of each process lets through
    fair,           \* order = 'fair' (else 'horizon')
    Batch,          \* limit
    Concurrency,    \* concurrency
    Backoff,        \* retryBackoffMs, in ticks
    GiveUp,         \* giveUpAfterMs, in ticks
    NoClock,        \* evidence without firstDeferredAt
    MaxFaults,      \* bound: crashes and failed deferrals
    MaxResets       \* bound: runs of reset-stale-outcomes

Rows == 1..MaxRows

ASSUME OutcomeSweepAssumption ==
    /\ MaxRows \in Nat
    /\ label \in [Rows -> Labels]
    /\ rank \in [Labels -> Nat]
    /\ \A l, m \in Labels : rank[l] = rank[m] => l = m
    /\ applies \subseteq Rows
    /\ Live \in Sweepers
    /\ owner \in [Runs -> Sweepers]
    /\ wanted \in [Sweepers -> SUBSET Rows]
    /\ fair \in [Sweepers -> BOOLEAN]
    /\ Batch \in [Sweepers -> Nat \ {0}]
    /\ Concurrency \in [Sweepers -> Nat \ {0}]
    /\ Backoff \in Nat
    /\ GiveUp \in Nat \ {0}
    /\ NoClock \notin Nat
    /\ MaxFaults \in Nat
    /\ MaxResets \in Nat

VARIABLES
    status,         \* outcome.status, "none" before the row exists
    value,          \* outcome.value
    rest,           \* time since measuredAt; Backoff for null
    clock,          \* time since evidence.firstDeferredAt
    gaveUp,         \* evidence.reason says "gave up after ..."
    passed,         \* rows 1..passed have horizonAt in the past
    todo,           \* `due` of a run: the rows no worker has taken yet
    place,          \* their positions in `due`
    working,        \* the row each worker of a run is resolving
    seen,           \* clock of the rows as the run read them
    awaited,        \* the run's process still waits for it
    failing,        \* history: time since the row's first transient failure
    faults,
    resets

table == <<status, value, rest, clock, gaveUp>>
sweep == <<todo, place, working, seen, awaited>>
vars == <<status, value, rest, clock, gaveUp, passed, todo, place, working,
          seen, awaited, failing, faults, resets>>

Status == {"none", "PENDING", "RESOLVED", "NA", "UNRESOLVABLE"}
Final == {"RESOLVED", "NA", "UNRESOLVABLE"}
Clock == 0..GiveUp \union {NoClock}

Init ==
    /\ status = [r \in Rows |-> "none"]
    /\ value = [r \in Rows |-> "null"]
    /\ rest = [r \in Rows |-> Backoff]
    /\ clock = [r \in Rows |-> NoClock]
    /\ gaveUp = [r \in Rows |-> FALSE]
    /\ passed = 0
    /\ todo = [s \in Runs |-> {}]
    /\ place = [s \in Runs |-> [r \in Rows |-> 0]]
    /\ working = [s \in Runs |-> {}]
    /\ seen = [s \in Runs |-> [r \in Rows |-> NoClock]]
    /\ awaited = [s \in Runs |-> FALSE]
    /\ failing = [r \in Rows |-> NoClock]
    /\ faults = 0
    /\ resets = 0

Fault ==
    /\ faults < MaxFaults
    /\ faults' = faults + 1

-----------------------------------------------------------------------------
(***************************************************************************)
(* Time, and the rows.                                                     *)
(***************************************************************************)

HorizonPasses ==
    /\ passed < MaxRows
    /\ passed' = passed + 1
    /\ UNCHANGED <<table, sweep, failing, faults, resets>>

Older(a) == IF a = NoClock \/ a = GiveUp THEN a ELSE a + 1

Tick ==
    /\ rest' = [r \in Rows |-> IF rest[r] < Backoff THEN rest[r] + 1 ELSE rest[r]]
    /\ clock' = [r \in Rows |-> Older(clock[r])]
    /\ seen' = [s \in Runs |-> [r \in Rows |-> Older(seen[s][r])]]
    /\ failing' = [r \in Rows |-> Older(failing[r])]
    /\ UNCHANGED <<status, value, gaveUp, passed, todo, place, working, awaited,
                   faults, resets>>

\* createMany with skipDuplicates, for every report stored for this anchor.
ensureOutcomeRows(g) ==
    /\ \E r \in Rows : grid[r] = g
    /\ status' = [r \in Rows |-> IF grid[r] = g /\ status[r] = "none"
                    THEN IF r \in applies THEN "PENDING" ELSE "NA" ELSE status[r]]
    /\ UNCHANGED <<value, rest, clock, gaveUp, passed, sweep, failing, faults, resets>>

\* reset-stale-outcomes --commit: the evidence is kept.
ResetStale ==
    LET ids == {r \in Resettable : status[r] \in {"RESOLVED", "UNRESOLVABLE"}}
    IN /\ resets < MaxResets
       /\ ids # {}
       /\ resets' = resets + 1
       /\ status' = [r \in Rows |-> IF r \in ids THEN "PENDING" ELSE status[r]]
       /\ value' = [r \in Rows |-> IF r \in ids THEN "null" ELSE value[r]]
       /\ rest' = [r \in Rows |-> IF r \in ids THEN Backoff ELSE rest[r]]
       /\ failing' = [r \in Rows |-> IF r \in ids THEN NoClock ELSE failing[r]]
       /\ UNCHANGED <<clock, gaveUp, passed, sweep, faults>>

-----------------------------------------------------------------------------
(***************************************************************************)
(* sweepDueOutcomes: the pick.                                             *)
(***************************************************************************)

\* Mutant of Due: the status is not looked at.
DueAnyStatus(o) ==
    {r \in wanted[o] : status[r] # "none" /\ r <= passed /\ rest[r] = Backoff}

\* The `where` of the query.
Due(o) ==
    {r \in wanted[o] : status[r] = "PENDING" /\ r <= passed /\ rest[r] = Backoff}

\* The position of r among the rows of its label, oldest horizon first.
Turn(D, r) == Cardinality({q \in D : label[q] = label[r] /\ q < r})

\* Mutant of Before: oldest horizon first, whatever the label.
BeforeByHorizon(o, D, q, r) == q < r

\* The order of `due`: interleave takes one row of each label per turn.
Before(o, D, q, r) ==
    IF fair[o]
    THEN \/ Turn(D, q) < Turn(D, r)
         \/ Turn(D, q) = Turn(D, r) /\ rank[label[q]] < rank[label[r]]
    ELSE q < r

Place(o, D, r) == Cardinality({q \in D : Before(o, D, q, r)})

\* `due`: at most Batch rows.
Picked(o, D) == {r \in D : Place(o, D, r) < Batch[o]}

\* The workers of the run start on the first rows.
StartSweep(s) ==
    LET o == owner[s]
        D == Due(o)
        first == {r \in Picked(o, D) : Place(o, D, r) < Concurrency[o]}
        later == Picked(o, D) \ first
    IN /\ \A t \in Runs : owner[t] = o => ~awaited[t]
       /\ working[s] = {}
       /\ D # {}
       /\ working' = [working EXCEPT ![s] = first]
       /\ todo' = [todo EXCEPT ![s] = later]
       /\ place' = [place EXCEPT ![s] =
                      [r \in Rows |-> IF r \in later THEN Place(o, D, r) ELSE 0]]
       /\ seen' = [seen EXCEPT ![s] =
                     [r \in Rows |-> IF r \in Picked(o, D) THEN clock[r] ELSE NoClock]]
       /\ awaited' = [awaited EXCEPT ![s] = TRUE]
       /\ UNCHANGED <<table, passed, failing, faults, resets>>

-----------------------------------------------------------------------------
(***************************************************************************)
(* sweepDueOutcomes: the workers.                                          *)
(***************************************************************************)

\* due[cursor]: the set with the next row, if there is one.
Foremost(s) == {r \in todo[s] : \A q \in todo[s] : place[s][r] <= place[s][q]}

\* Mutant of TakeNext: resolveRow is not awaited before the next row starts.
TakeNextUnawaited(s, r) ==
    /\ working' = [working EXCEPT ![s] = working[s] \union Foremost(s)]
    /\ todo' = [todo EXCEPT ![s] = todo[s] \ Foremost(s)]
    /\ seen' = [seen EXCEPT ![s][r] = NoClock]
    /\ awaited' = [awaited EXCEPT ![s] = awaited[s] /\ (todo[s] # {} \/ working[s] # {r})]
    /\ UNCHANGED <<place, passed, resets>>

\* resolveRow of r has returned: its worker takes the next row, and the run
\* returns after its last one.
TakeNext(s, r) ==
    /\ working' = [working EXCEPT ![s] = (working[s] \ {r}) \union Foremost(s)]
    /\ todo' = [todo EXCEPT ![s] = todo[s] \ Foremost(s)]
    /\ seen' = [seen EXCEPT ![s][r] = NoClock]
    /\ awaited' = [awaited EXCEPT ![s] = awaited[s] /\ (todo[s] # {} \/ working[s] # {r})]
    /\ UNCHANGED <<place, passed, resets>>

\* resolveOneOutcome returns a verdict, which replaces status, value and
\* evidence of the row, whatever they are by now.
Verdict(s, r) ==
    /\ r \in working[s]
    /\ r \notin Broken
    /\ \E v \in {"true", "false", "null"} :
         /\ status' = [status EXCEPT ![r] = IF v = "null" THEN "UNRESOLVABLE" ELSE "RESOLVED"]
         /\ value' = [value EXCEPT ![r] = v]
    /\ rest' = [rest EXCEPT ![r] = 0]
    /\ clock' = [clock EXCEPT ![r] = NoClock]
    /\ gaveUp' = [gaveUp EXCEPT ![r] = FALSE]
    /\ TakeNext(s, r)
    /\ UNCHANGED <<failing, faults>>

\* Mutant of deferOrGiveUp: a row without a clock counts as overdue.
GiveUpWithoutClock(a) ==
    [action |-> IF a = NoClock \/ a = GiveUp THEN "give_up" ELSE "defer",
     first |-> IF a = NoClock THEN 0 ELSE a]

\* Mutant of deferOrGiveUp: every deferral restarts the clock.
RestartClock(a) == [action |-> "defer", first |-> 0]

deferOrGiveUp(a) ==
    LET first == IF a = NoClock THEN 0 ELSE a
    IN [action |-> IF first = GiveUp THEN "give_up" ELSE "defer", first |-> first]

\* The row failed on a transient error (now known for failing[r] ticks).
Noted(r) == failing' = [failing EXCEPT ![r] = IF failing[r] = NoClock THEN 0 ELSE failing[r]]

\* Mutant of deferRow: giving up leaves the value alone.
DeferKeepsValue(s, r) ==
    LET d == deferOrGiveUp(seen[s][r])
    IN /\ status' = IF d.action = "give_up"
                    THEN [status EXCEPT ![r] = "UNRESOLVABLE"] ELSE status
       /\ UNCHANGED value
       /\ rest' = [rest EXCEPT ![r] = 0]
       /\ clock' = [clock EXCEPT ![r] = d.first]
       /\ gaveUp' = [gaveUp EXCEPT ![r] = d.action = "give_up"]

\* deferRow: decided by the row as the run read it, applied to the row as it
\* is now.  A deferral leaves status and value alone.
deferRow(s, r) ==
    LET d == deferOrGiveUp(seen[s][r])
    IN /\ status' = IF d.action = "give_up"
                    THEN [status EXCEPT ![r] = "UNRESOLVABLE"] ELSE status
       /\ value' = IF d.action = "give_up" THEN [value EXCEPT ![r] = "null"] ELSE value
       /\ rest' = [rest EXCEPT ![r] = 0]
       /\ clock' = [clock EXCEPT ![r] = d.first]
       /\ gaveUp' = [gaveUp EXCEPT ![r] = d.action = "give_up"]

\* A transient reason, a transient error or the deadline.
Defer(s, r) ==
    /\ r \in working[s]
    /\ r \notin Broken
    /\ deferRow(s, r)
    /\ Noted(r)
    /\ TakeNext(s, r)
    /\ UNCHANGED faults

\* Any other error only starts the backoff, unless that update fails too.
CodeError(s, r) ==
    /\ r \in working[s]
    /\ \/ r \in Broken /\ UNCHANGED faults
       \/ Fault
    /\ \/ rest' = [rest EXCEPT ![r] = 0]
       \/ UNCHANGED rest /\ faults' # faults
    /\ TakeNext(s, r)
    /\ UNCHANGED <<status, value, clock, gaveUp, failing>>

\* The update of deferRow throws: the worker dies and Promise.all rejects,
\* while the run's other workers go on.
DeferFails(s, r) ==
    /\ Fault
    /\ r \in working[s]
    /\ r \notin Broken
    /\ Noted(r)
    /\ working' = [working EXCEPT ![s] = working[s] \ {r}]
    /\ todo' = [todo EXCEPT ![s] = IF working[s] = {r} THEN {} ELSE todo[s]]
    /\ seen' = [seen EXCEPT ![s][r] = NoClock]
    /\ awaited' = [awaited EXCEPT ![s] = FALSE]
    /\ UNCHANGED <<table, passed, place, resets>>

\* The process dies and takes its runs along.
Crash(o) ==
    /\ Fault
    /\ \E s \in Runs : owner[s] = o /\ working[s] # {}
    /\ working' = [s \in Runs |-> IF owner[s] = o THEN {} ELSE working[s]]
    /\ todo' = [s \in Runs |-> IF owner[s] = o THEN {} ELSE todo[s]]
    /\ awaited' = [s \in Runs |-> owner[s] # o /\ awaited[s]]
    /\ UNCHANGED <<table, passed, place, seen, failing, resets>>

Finish(s, r) == Verdict(s, r) \/ Defer(s, r) \/ CodeError(s, r)

Next ==
    \/ HorizonPasses \/ Tick \/ ResetStale
    \/ \E g \in {grid[r] : r \in Rows} : ensureOutcomeRows(g)
    \/ \E s \in Runs :
         \/ StartSweep(s)
         \/ \E r \in Rows : Finish(s, r) \/ DeferFails(s, r)
    \/ \E o \in Sweepers : Crash(o)

Spec == Init /\ [][Next]_vars

\* runOutcomesLoop keeps sweeping, every resolveRow ends (its deadline is
\* 120 s), and time passes.
Fairness ==
    /\ WF_vars(\E s \in Runs : owner[s] = Live /\ StartSweep(s))
    /\ \A s \in Runs : \A r \in Rows : WF_vars(Finish(s, r))
    /\ WF_vars(Tick)

FairSpec == Spec /\ Fairness

-----------------------------------------------------------------------------
(***************************************************************************)
(* Properties                                                              *)
(***************************************************************************)

TableType ==
    /\ status \in [Rows -> Status]
    /\ value \in [Rows -> {"null", "true", "false"}]
    /\ rest \in [Rows -> 0..Backoff]
    /\ clock \in [Rows -> Clock]
    /\ gaveUp \in [Rows -> BOOLEAN]
    /\ failing \in [Rows -> Clock]

SweepType ==
    /\ todo \in [Runs -> SUBSET Rows]
    /\ place \in [Runs -> [Rows -> Nat]]
    /\ working \in [Runs -> SUBSET Rows]
    /\ seen \in [Runs -> [Rows -> Clock]]
    /\ awaited \in [Runs -> BOOLEAN]

\* The table and the memory of the sweeps keep their types, and a sweep never
\* resolves more rows at a time than its concurrency.
TypeOK ==
    /\ TableType
    /\ SweepType
    /\ passed \in 0..MaxRows
    /\ faults \in 0..MaxFaults
    /\ resets \in 0..MaxResets
    /\ \A s \in Runs : Cardinality(working[s]) <= Concurrency[owner[s]]

\* "failed measurements are unresolvable, never an outcome": a row has a value
\* exactly while it is RESOLVED, even when a stale sweep gives up a row that
\* another one has resolved meanwhile (deferRow, resolveRow).
UnresolvableIsNoOutcome == \A r \in Rows : status[r] = "RESOLVED" <=> value[r] # "null"

\* A row that no reset reopens is given up only when transient failures have
\* gone on for the whole give-up window, whatever overlapping sweeps write to
\* its clock.
GiveUpEarned ==
    \A r \in Rows \ Resettable : status[r] = "UNRESOLVABLE" /\ gaveUp[r] => failing[r] = GiveUp

\* One sweeping process never changes a final row until a deferral is lost:
\* only the reset script does.
FinalStays ==
    [][faults' = 0 /\ resets' = resets =>
         \A r \in Rows : status[r] \in Final =>
            status'[r] = status[r] /\ value'[r] = value[r]]_vars

\* The rows of label l that run s has just picked.
PickedOf(s, l) == {r \in working[s] \union todo[s] : label[r] = l}

\* "so no single label's backlog takes every slot": a label gets a second row
\* more than another one into a pick only if the other has no due row left.
FairAcrossLabels ==
    [][\A s \in Runs : StartSweep(s) =>
         \A l, m \in Labels :
            Cardinality(PickedOf(s, l)') > Cardinality(PickedOf(s, m)') + 1 =>
               \A r \in Due(owner[s]) : label[r] = m => r \in PickedOf(s, m)']_vars

\* Every due row that the loop's filter lets through and whose resolver works
\* or fails only transiently becomes final, although rows that always throw
\* come back for ever.
EventuallySettled ==
    \A r \in wanted[Live] \ Broken :
       (status[r] = "PENDING" /\ r <= passed) ~> (status[r] \in Final)
=============================================================================
