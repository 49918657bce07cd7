------------------------- MODULE OutcomeSweepProofs -------------------------
(***************************************************************************)
(* What outcome rows keep through any number of rows, processes and        *)
(* overlapping sweeps, and the fairness of a pick among the labels.        *)
(***************************************************************************)
EXTENDS OutcomeSweep, FiniteSetTheorems, TLAPS

\* An age a that is known of a row never exceeds the time the row has been
\* failing.
Backed(a, f) == a # NoClock => f # NoClock /\ a <= f

\* The part of the types that the arguments about time need.
ClockType ==
    /\ clock \in [Rows -> Clock]
    /\ failing \in [Rows -> Clock]
    /\ seen \in [Runs -> [Rows -> Clock]]
    /\ status \in [Rows -> Status]
    /\ gaveUp \in [Rows -> BOOLEAN]

\* The rows that no reset reopens.
Lasting == Rows \ Resettable

\* The stored clocks and the copies that the sweeps hold of these rows
\* are all backed by failures, so that an expired one is earned.
ClockInv ==
    /\ ClockType
    /\ \A r \in Lasting : Backed(clock[r], failing[r])
    /\ \A s \in Runs : \A r \in Lasting : Backed(seen[s][r], failing[r])
    /\ GiveUpEarned

\* Ages grow together, up to the give-up window.
LEMMA OlderBacked ==
    ASSUME NEW a \in Clock, NEW f \in Clock, Backed(a, f)
    PROVE  /\ Older(a) \in Clock
           /\ Backed(Older(a), Older(f))
           /\ f = GiveUp => Older(f) = GiveUp
           /\ f # NoClock => Older(f) # NoClock
BY OutcomeSweepAssumption DEF Older, Backed, Clock

\* A failure starts the row's failing time or leaves it as it is: whatever
\* was backed stays backed.
LEMMA NotedBacked ==
    ASSUME ClockInv, NEW r \in Rows, Noted(r)
    PROVE  /\ failing' \in [Rows -> Clock]
           /\ failing'[r] # NoClock
           /\ \A q \in Rows : failing[q] # NoClock => failing'[q] = failing[q]
           /\ \A q \in Rows : \A a \in Clock :
                 Backed(a, failing[q]) => Backed(a, failing'[q])
<1>1. failing \in [Rows -> Clock] /\ 0 \in Clock /\ 0 # NoClock
  BY OutcomeSweepAssumption DEF ClockInv, ClockType, Clock
<1>2. \A q \in Rows : failing'[q] = IF q = r /\ failing[q] = NoClock THEN 0 ELSE failing[q]
  BY <1>1 DEF Noted
<1> QED
  BY <1>1, <1>2 DEF Noted, Backed

\* deferOrGiveUp keeps a backed clock, or starts one at zero.
LEMMA DecisionBacked ==
    ASSUME NEW a \in Clock
    PROVE  /\ deferOrGiveUp(a).first \in 0..GiveUp
           /\ deferOrGiveUp(a).first = IF a = NoClock THEN 0 ELSE a
           /\ deferOrGiveUp(a).action = "give_up" => a = GiveUp
BY OutcomeSweepAssumption DEF deferOrGiveUp, Clock

\* Every step keeps the clocks of these rows backed.
LEMMA ClockNext ==
    ASSUME ClockInv, [Next]_vars
    PROVE  ClockInv'
<1> USE DEF ClockInv, Lasting
<1>0. /\ NoClock \in Clock /\ NoClock \notin Nat /\ GiveUp \in Nat \ {0}
      /\ \A f : Backed(NoClock, f)
  BY OutcomeSweepAssumption DEF Clock, Backed
<1>1. CASE HorizonPasses \/ \E o \in Sweepers : Crash(o)
  BY <1>1 DEF HorizonPasses, Crash, table, sweep, ClockType, GiveUpEarned
<1>2. CASE Tick
  <2>1. /\ clock' = [r \in Rows |-> Older(clock[r])]
        /\ seen' = [s \in Runs |-> [r \in Rows |-> Older(seen[s][r])]]
        /\ failing' = [r \in Rows |-> Older(failing[r])]
        /\ UNCHANGED <<status, gaveUp>>
    BY <1>2 DEF Tick
  <2>2. \A r \in Rows : Backed(failing[r], failing[r])
    BY <1>0 DEF ClockType, Backed, Clock
  <2>3. ClockType'
    <3>1. \A a \in Clock : Older(a) \in Clock
      BY OutcomeSweepAssumption DEF Older, Clock
    <3> QED
      BY <2>1, <3>1 DEF ClockType
  <2>4. \A r \in Lasting : Backed(clock'[r], failing'[r])
    BY <2>1, OlderBacked DEF ClockType
  <2>5. \A s \in Runs : \A r \in Lasting : Backed(seen'[s][r], failing'[r])
    BY <2>1, OlderBacked DEF ClockType
  <2>6. GiveUpEarned'
    BY <2>1, <2>2, OlderBacked DEF ClockType, GiveUpEarned
  <2> QED
    BY <2>3, <2>4, <2>5, <2>6
<1>3. CASE ResetStale
  <2>1. /\ UNCHANGED <<clock, seen, gaveUp>>
        /\ status' \in [Rows -> Status]
        /\ failing' \in [Rows -> Clock]
    BY <1>0, <1>3 DEF ResetStale, sweep, Status, ClockType
  <2>2. \A r \in Lasting : status'[r] = status[r] /\ failing'[r] = failing[r]
    BY <1>3 DEF ResetStale
  <2> QED
    BY <2>1, <2>2 DEF ClockType, GiveUpEarned
<1>4. CASE \E g \in {grid[r] : r \in Rows} : ensureOutcomeRows(g)
  <2>1. UNCHANGED <<clock, failing, seen, gaveUp>>
    BY <1>4 DEF ensureOutcomeRows, sweep
  <2>2. /\ status' \in [Rows -> Status]
        /\ \A r \in Rows : status'[r] = "UNRESOLVABLE" => status[r] = "UNRESOLVABLE"
    BY <1>4 DEF ensureOutcomeRows, Status, ClockType
  <2> QED
    BY <2>1, <2>2 DEF ClockType, GiveUpEarned
<1>5. ASSUME NEW s \in Runs, StartSweep(s) PROVE ClockInv'
  <2>1. /\ UNCHANGED <<status, clock, failing, gaveUp>>
        /\ \E S \in SUBSET Rows :
             seen' = [seen EXCEPT ![s] = [r \in Rows |-> IF r \in S THEN clock[r] ELSE NoClock]]
    <3>1. Picked(owner[s], Due(owner[s])) \in SUBSET Rows
      BY OutcomeSweepAssumption DEF Picked, Due
    <3> QED
      BY <1>5, <3>1 DEF StartSweep, table
  <2>2. /\ seen' \in [Runs -> [Rows -> Clock]]
        /\ \A t \in Runs : \A r \in Rows :
              seen'[t][r] = seen[t][r] \/ seen'[t][r] = clock[r] \/ seen'[t][r] = NoClock
    BY <1>0, <2>1 DEF ClockType
  <2> QED
    BY <1>0, <2>1, <2>2 DEF ClockType, GiveUpEarned
<1>6. ASSUME NEW s \in Runs, NEW r \in Rows, seen' = [seen EXCEPT ![s][r] = NoClock]
      PROVE  /\ seen' \in [Runs -> [Rows -> Clock]]
             /\ \A t \in Runs : \A q \in Rows :
                   seen'[t][q] = seen[t][q] \/ seen'[t][q] = NoClock
  BY <1>0, <1>6 DEF ClockType
<1>7. ASSUME NEW s \in Runs, NEW r \in Rows, Verdict(s, r) PROVE ClockInv'
  <2>1. /\ status' \in [Rows -> Status]
        /\ \A q \in Rows : q # r => status'[q] = status[q]
    BY <1>7 DEF Verdict, ClockType, Status
  <2>2. /\ clock' = [clock EXCEPT ![r] = NoClock]
        /\ gaveUp' = [gaveUp EXCEPT ![r] = FALSE]
        /\ seen' = [seen EXCEPT ![s][r] = NoClock]
        /\ failing' = failing
    BY <1>7 DEF Verdict, TakeNext
  <2> QED
    BY <1>0, <1>6, <2>1, <2>2 DEF ClockType, GiveUpEarned
<1>8. ASSUME NEW s \in Runs, NEW r \in Rows, Defer(s, r) PROVE ClockInv'
  <2> DEFINE a == seen[s][r]
             d == deferOrGiveUp(a)
  <2>1. a \in Clock /\ (r \in Lasting => Backed(a, failing[r]))
    BY DEF ClockType
  <2>2. /\ clock' = [clock EXCEPT ![r] = d.first]
        /\ gaveUp' = [gaveUp EXCEPT ![r] = d.action = "give_up"]
        /\ status' = IF d.action = "give_up"
                     THEN [status EXCEPT ![r] = "UNRESOLVABLE"] ELSE status
        /\ seen' = [seen EXCEPT ![s][r] = NoClock]
        /\ Noted(r)
    BY <1>8 DEF Defer, deferRow, TakeNext
  <2>3. /\ d.first \in 0..GiveUp
        /\ d.first = IF a = NoClock THEN 0 ELSE a
        /\ d.action = "give_up" => a = GiveUp
    BY <2>1, DecisionBacked
  <2>4. /\ failing' \in [Rows -> Clock]
        /\ failing'[r] # NoClock
        /\ \A q \in Rows : failing[q] # NoClock => failing'[q] = failing[q]
        /\ \A q \in Rows : \A b \in Clock :
              Backed(b, failing[q]) => Backed(b, failing'[q])
    BY <2>2, NotedBacked
  <2>5. r \in Lasting => Backed(d.first, failing'[r])
    BY <1>0, <2>1, <2>3, <2>4 DEF Backed, Clock
  <2>6. r \in Lasting /\ d.action = "give_up" => failing'[r] = GiveUp
    BY <1>0, <2>1, <2>3, <2>4 DEF Backed, Clock
  <2>7. ClockType'
    <3>1. status' \in [Rows -> Status]
      BY <2>2 DEF ClockType, Status
    <3>2. clock' \in [Rows -> Clock]
      BY <2>2, <2>3 DEF ClockType, Clock
    <3>3. gaveUp' \in [Rows -> BOOLEAN]
      BY <2>2 DEF ClockType
    <3> QED
      BY <3>1, <3>2, <3>3, <2>2, <2>4, <1>6 DEF ClockType
  <2>8. \A q \in Lasting : Backed(clock'[q], failing'[q])
    <3>1. clock'[r] = d.first /\ \A q \in Rows : q # r => clock'[q] = clock[q]
      BY <2>2 DEF ClockType
    <3> QED
      BY <3>1, <2>4, <2>5 DEF ClockType
  <2>9. \A t \in Runs : \A q \in Lasting : Backed(seen'[t][q], failing'[q])
    BY <1>0, <1>6, <2>2, <2>4 DEF ClockType
  <2>10. GiveUpEarned'
    <3>1. gaveUp'[r] => d.action = "give_up"
      BY <2>2 DEF ClockType
    <3>2. \A q \in Rows : q # r => gaveUp'[q] = gaveUp[q] /\ status'[q] = status[q]
      BY <2>2 DEF ClockType
    <3> QED
      BY <1>0, <3>1, <3>2, <2>4, <2>6 DEF GiveUpEarned
  <2> QED
    BY <2>7, <2>8, <2>9, <2>10
<1>9. ASSUME NEW s \in Runs, NEW r \in Rows, CodeError(s, r) PROVE ClockInv'
  <2>1. /\ UNCHANGED <<status, clock, gaveUp, failing>>
        /\ seen' = [seen EXCEPT ![s][r] = NoClock]
    BY <1>9 DEF CodeError, TakeNext
  <2> QED
    BY <1>0, <1>6, <2>1 DEF ClockType, GiveUpEarned
<1>10. ASSUME NEW s \in Runs, NEW r \in Rows, DeferFails(s, r) PROVE ClockInv'
  <2>1. /\ UNCHANGED <<status, clock, gaveUp>>
        /\ seen' = [seen EXCEPT ![s][r] = NoClock]
        /\ Noted(r)
    BY <1>10 DEF DeferFails, table
  <2>2. /\ failing' \in [Rows -> Clock]
        /\ \A q \in Rows : failing[q] # NoClock => failing'[q] = failing[q]
        /\ \A q \in Rows : \A b \in Clock :
              Backed(b, failing[q]) => Backed(b, failing'[q])
    BY <2>1, NotedBacked
  <2> QED
    BY <1>0, <1>6, <2>1, <2>2 DEF ClockType, GiveUpEarned
<1>11. CASE UNCHANGED vars
  BY <1>11 DEF vars, ClockType, GiveUpEarned
<1> QED
  BY <1>1, <1>2, <1>3, <1>4, <1>5, <1>7, <1>8, <1>9, <1>10, <1>11 DEF Next, Finish

\* A row that no reset reopens is given up only after a whole give-up window
\* of transient failures (deferOrGiveUp), for any number of processes, rows and
\* overlapping sweeps: a stale copy of the clock can only postpone it.
THEOREM GivingUpIsEarned == Spec => []GiveUpEarned
<1>1. Init => ClockInv
  BY OutcomeSweepAssumption
  DEF Init, ClockInv, Lasting, ClockType, Clock, Status, Backed, GiveUpEarned
<1>2. ClockInv /\ [Next]_vars => ClockInv'
  BY ClockNext
<1>3. ClockInv => GiveUpEarned
  BY DEF ClockInv
<1> QED
  BY <1>1, <1>2, <1>3, PTL DEF Spec

-----------------------------------------------------------------------------
\* The table as the verdict argument needs it.
ValueInv ==
    /\ status \in [Rows -> Status]
    /\ value \in [Rows -> {"null", "true", "false"}]
    /\ UnresolvableIsNoOutcome

\* A row has a value exactly while it is RESOLVED, for any number of
\* processes, overlapping sweeps, crashes and resets: every write that ends
\* or reopens a row sets status and value together (resolveRow, deferRow,
\* reset-stale-outcomes).
THEOREM FailedMeasurementIsNoOutcome == Spec => []UnresolvableIsNoOutcome
<1>1. Init => ValueInv
  BY DEF Init, ValueInv, Status, UnresolvableIsNoOutcome
<1>2. ValueInv /\ [Next]_vars => ValueInv'
  <2> SUFFICES ASSUME ValueInv, [Next]_vars PROVE ValueInv'
    OBVIOUS
  <2> USE DEF ValueInv, UnresolvableIsNoOutcome, Status
  <2>1. CASE UNCHANGED <<status, value>>
    BY <2>1
  <2>2. CASE ResetStale
    BY <2>2 DEF ResetStale
  <2>3. CASE \E g \in {grid[r] : r \in Rows} : ensureOutcomeRows(g)
    BY <2>3 DEF ensureOutcomeRows
  <2>4. ASSUME NEW s \in Runs, NEW r \in Rows, Verdict(s, r) PROVE ValueInv'
    BY <2>4 DEF Verdict
  <2>5. ASSUME NEW s \in Runs, NEW r \in Rows, Defer(s, r) PROVE ValueInv'
    <3>1. \/ UNCHANGED <<status, value>>
          \/ /\ status' = [status EXCEPT ![r] = "UNRESOLVABLE"]
             /\ value' = [value EXCEPT ![r] = "null"]
      BY <2>5 DEF Defer, deferRow
    <3> QED
      BY <3>1
  <2> QED
    BY <2>1, <2>2, <2>3, <2>4, <2>5
    DEF Next, Finish, vars, table, HorizonPasses, Tick, StartSweep, CodeError,
        DeferFails, Crash
<1>3. ValueInv => UnresolvableIsNoOutcome
  BY DEF ValueInv
<1> QED
  BY <1>1, <1>2, <1>3, PTL DEF Spec

-----------------------------------------------------------------------------
Counted == faults \in Nat /\ resets \in Nat

\* One process whose deferrals all reach the table has one sweep at a time,
\* and every row in its hands is PENDING and in one place.
Hands ==
    /\ status \in [Rows -> Status]
    /\ value \in [Rows -> {"null", "true", "false"}]
    /\ todo \in [Runs -> SUBSET Rows]
    /\ working \in [Runs -> SUBSET Rows]
    /\ awaited \in [Runs -> BOOLEAN]
    /\ \A s \in Runs : working[s] # {} \/ todo[s] # {} => awaited[s]
    /\ \A s, t \in Runs : awaited[s] /\ awaited[t] => s = t
    /\ \A s \in Runs : \A r \in working[s] \union todo[s] : status[r] = "PENDING"
    /\ \A s \in Runs : working[s] \cap todo[s] = {}

\* Every step keeps the hands of the lone sweep in order and leaves final
\* rows alone.
LEMMA LoneNext ==
    ASSUME Sweepers = {Live}, Counted, faults = 0, faults' = 0, Hands, [Next]_vars
    PROVE  /\ Hands'
           /\ resets' = resets => \A r \in Rows : status[r] \in Final =>
                 status'[r] = status[r] /\ value'[r] = value[r]
<1> USE DEF Hands
<1>1. ~Fault
  BY DEF Fault
<1>2. CASE ResetStale
  <2>1. /\ status' \in [Rows -> Status]
        /\ value' \in [Rows -> {"null", "true", "false"}]
        /\ \A r \in Rows : status[r] = "PENDING" => status'[r] = "PENDING"
        /\ UNCHANGED <<todo, working, awaited>>
    BY <1>2 DEF ResetStale, sweep, Status
  <2>2. (resets' = resets) => UNCHANGED <<status, value>>
    BY <1>2, OutcomeSweepAssumption DEF ResetStale, Counted
  <2> QED
    BY <2>1, <2>2
<1>3. CASE HorizonPasses
  BY <1>3 DEF HorizonPasses, table, sweep
<1>4. CASE Tick
  BY <1>4 DEF Tick
<1>5. CASE \E g \in {grid[r] : r \in Rows} : ensureOutcomeRows(g)
  <2>1. UNCHANGED <<value, todo, working, awaited, faults, resets>>
    BY <1>5 DEF ensureOutcomeRows, sweep
  <2>2. /\ status' \in [Rows -> Status]
        /\ \A r \in Rows : status[r] # "none" => status'[r] = status[r]
    BY <1>5 DEF ensureOutcomeRows, Status
  <2> QED
    BY <2>1, <2>2 DEF Final
<1>6. ASSUME NEW s \in Runs, StartSweep(s)
      PROVE  Hands' /\ UNCHANGED <<status, value>>
  <2> DEFINE D == Due(owner[s])
             first == {r \in Picked(owner[s], D) : Place(owner[s], D, r) < Concurrency[owner[s]]}
             later == Picked(owner[s], D) \ first
  <2>1. /\ working' = [working EXCEPT ![s] = first]
        /\ todo' = [todo EXCEPT ![s] = later]
        /\ awaited' = [awaited EXCEPT ![s] = TRUE]
        /\ UNCHANGED <<status, value, faults, resets>>
    BY <1>6 DEF StartSweep, table
  <2>2. \A t \in Runs : ~awaited[t]
    <3>1. \A t \in Runs : owner[t] = owner[s] => ~awaited[t]
      BY <1>6 DEF StartSweep
    <3>2. \A t \in Runs : owner[t] = Live
      BY OutcomeSweepAssumption
    <3> QED
      BY <3>1, <3>2
  <2>3. D \subseteq Rows /\ \A r \in D : status[r] = "PENDING"
    BY OutcomeSweepAssumption DEF Due
  <2>4. first \subseteq D /\ later \subseteq D /\ first \cap later = {}
    BY DEF Picked
  <2> HIDE DEF D, first, later
  <2>5. \A t \in Runs : t # s => working'[t] = {} /\ todo'[t] = {} /\ ~awaited'[t]
    BY <2>1, <2>2
  <2>6. working'[s] = first /\ todo'[s] = later /\ awaited'[s]
    BY <2>1
  <2>7. /\ todo' \in [Runs -> SUBSET Rows]
        /\ working' \in [Runs -> SUBSET Rows]
        /\ awaited' \in [Runs -> BOOLEAN]
    BY <2>1, <2>3, <2>4
  <2> QED
    BY <2>1, <2>3, <2>4, <2>5, <2>6, <2>7
<1>7. ASSUME NEW s \in Runs, NEW r \in working[s], TakeNext(s, r),
             UNCHANGED faults, status' \in [Rows -> Status],
             value' \in [Rows -> {"null", "true", "false"}],
             \A q \in Rows : q # r => status'[q] = status[q] /\ value'[q] = value[q]
      PROVE  /\ Hands'
             /\ \A q \in Rows : status[q] \in Final =>
                   status'[q] = status[q] /\ value'[q] = value[q]
  <2>1. /\ working' = [working EXCEPT ![s] = (working[s] \ {r}) \union Foremost(s)]
        /\ todo' = [todo EXCEPT ![s] = todo[s] \ Foremost(s)]
        /\ awaited' = [awaited EXCEPT ![s] =
                         awaited[s] /\ (todo[s] # {} \/ working[s] # {r})]
        /\ UNCHANGED <<faults, resets>>
    BY <1>7 DEF TakeNext
  <2>2. Foremost(s) \subseteq todo[s]
    BY DEF Foremost
  <2>3. awaited[s] /\ \A t \in Runs : t # s => ~awaited[t]
    BY <1>7
  <2>4. r \in Rows /\ r \notin todo[s] /\ status[r] = "PENDING"
    BY <1>7
  <2>5. \A t \in Runs : t # s => working'[t] = {} /\ todo'[t] = {} /\ ~awaited'[t]
    BY <2>1, <2>3
  <2>6. /\ working'[s] = (working[s] \ {r}) \union Foremost(s)
        /\ todo'[s] = todo[s] \ Foremost(s)
        /\ awaited'[s] = (todo[s] # {} \/ working[s] # {r})
    BY <2>1, <2>3
  <2>7. /\ todo' \in [Runs -> SUBSET Rows]
        /\ working' \in [Runs -> SUBSET Rows]
        /\ awaited' \in [Runs -> BOOLEAN]
    BY <2>1, <2>2
  <2>8. working'[s] # {} \/ todo'[s] # {} => awaited'[s]
    BY <2>2, <2>6
  <2>9. \A q \in working'[s] \union todo'[s] : q # r /\ status[q] = "PENDING"
    BY <2>2, <2>4, <2>6
  <2>10. working'[s] \cap todo'[s] = {}
    BY <2>2, <2>6
  <2>11. Hands'
    BY <1>7, <2>1, <2>5, <2>7, <2>8, <2>9, <2>10
  <2> QED
    BY <1>7, <2>4, <2>11 DEF Final
<1>8. ASSUME NEW s \in Runs, NEW r \in Rows, Finish(s, r)
      PROVE  /\ Hands'
             /\ \A q \in Rows : status[q] \in Final =>
                   status'[q] = status[q] /\ value'[q] = value[q]
  <2>1. /\ r \in working[s]
        /\ TakeNext(s, r)
        /\ UNCHANGED faults
    BY <1>1, <1>8 DEF Finish, Verdict, Defer, CodeError
  <2>2. status' \in [Rows -> Status]
    BY <1>8 DEF Finish, Verdict, Defer, deferRow, CodeError, Status
  <2>3. \A q \in Rows : q # r => status'[q] = status[q]
    BY <1>8 DEF Finish, Verdict, Defer, deferRow, CodeError
  <2>4. \A q \in Rows : q # r => value'[q] = value[q]
    BY <1>8 DEF Finish, Verdict, Defer, deferRow, CodeError
  <2>5. value' \in [Rows -> {"null", "true", "false"}]
    BY <1>8 DEF Finish, Verdict, Defer, deferRow, CodeError
  <2> QED
    BY <1>7, <2>1, <2>2, <2>3, <2>4, <2>5
<1>9. CASE UNCHANGED vars
  BY <1>9 DEF vars
<1>10. \A s \in Runs : \A r \in Rows : ~DeferFails(s, r)
  BY <1>1 DEF DeferFails
<1>11. \A o \in Sweepers : ~Crash(o)
  BY <1>1 DEF Crash
<1> QED
  BY <1>2, <1>3, <1>4, <1>5, <1>6, <1>8, <1>9, <1>10, <1>11 DEF Next

\* The two counters are numbers, and the hands are in order before any fault.
LoneInv ==
    /\ Counted
    /\ faults = 0 => Hands

\* A single sweeping process never changes a final row before a deferral is
\* lost: a run holds only PENDING rows, each in one worker's hands, and the
\* next run starts when it is over (runOutcomesLoop).
THEOREM LoneSweeperKeepsFinal ==
    ASSUME Sweepers = {Live}
    PROVE  Spec => FinalStays
<1>1. Init => LoneInv
  BY OutcomeSweepAssumption DEF Init, LoneInv, Hands, Counted, Status
<1>2. Counted /\ [Next]_vars => Counted' /\ (faults' = 0 => faults = 0)
  <2>1. [Next]_vars => /\ faults' = faults \/ faults' = faults + 1
                       /\ resets' = resets \/ resets' = resets + 1
    <3>1. ASSUME NEW s, NEW r, Finish(s, r) \/ DeferFails(s, r)
          PROVE  (faults' = faults \/ faults' = faults + 1) /\ resets' = resets
      BY <3>1 DEF Fault, Finish, Verdict, Defer, CodeError, TakeNext, DeferFails
    <3>2. ASSUME NEW s, StartSweep(s)
          PROVE  faults' = faults /\ resets' = resets
      BY <3>2 DEF StartSweep
    <3>3. ASSUME NEW o, Crash(o)
          PROVE  faults' = faults + 1 /\ resets' = resets
      BY <3>3 DEF Fault, Crash
    <3>4. HorizonPasses \/ Tick \/ ResetStale \/ (\E g : ensureOutcomeRows(g)) =>
            faults' = faults /\ (resets' = resets \/ resets' = resets + 1)
      BY DEF HorizonPasses, Tick, ResetStale, ensureOutcomeRows
    <3>5. UNCHANGED vars => faults' = faults /\ resets' = resets
      BY DEF vars
    <3> QED
      BY <3>1, <3>2, <3>3, <3>4, <3>5 DEF Next
  <2> QED
    BY <2>1 DEF Counted
<1>3. LoneInv /\ [Next]_vars => LoneInv'
  BY <1>2, LoneNext DEF LoneInv
<1>4. LoneInv /\ [Next]_vars =>
        [faults' = 0 /\ resets' = resets =>
           \A r \in Rows : status[r] \in Final =>
              status'[r] = status[r] /\ value'[r] = value[r]]_vars
  BY <1>2, LoneNext DEF LoneInv
<1> QED
  BY <1>1, <1>3, <1>4, PTL DEF Spec, FinalStays

-----------------------------------------------------------------------------
(***************************************************************************)
(* The order of a pick.                                                    *)
(***************************************************************************)

LEMMA IntervalCount ==
    ASSUME NEW n \in Nat
    PROVE  /\ IsFiniteSet(1..n) /\ Cardinality(1..n) = n
           /\ IsFiniteSet(0..(n - 1)) /\ Cardinality(0..(n - 1)) = n
<1>1. 1 \in Int /\ 0 \in Int /\ n \in Int /\ n - 1 \in Int
  OBVIOUS
<1>2. IsFiniteSet(1..n) /\ Cardinality(1..n) = IF 1 > n THEN 0 ELSE n - 1 + 1
  BY <1>1, FS_Interval
<1>3. IsFiniteSet(0..(n - 1)) /\ Cardinality(0..(n - 1)) = IF 0 > n - 1 THEN 0 ELSE (n - 1) - 0 + 1
  BY <1>1, FS_Interval
<1> QED
  BY <1>2, <1>3

\* Sets of rows are finite.
LEMMA RowsFinite ==
    ASSUME NEW S, S \subseteq Rows
    PROVE  IsFiniteSet(S) /\ Cardinality(S) \in Nat
<1>1. IsFiniteSet(Rows)
  BY IntervalCount, OutcomeSweepAssumption DEF Rows
<1>2. IsFiniteSet(S)
  BY <1>1, FS_Subset
<1> QED
  BY <1>2, FS_CardinalityType

\* A set that misses a member of another one is smaller.
LEMMA SmallerSet ==
    ASSUME NEW S, NEW T, T \subseteq Rows, S \subseteq T, NEW x \in T, x \notin S
    PROVE  Cardinality(S) < Cardinality(T)
<1>1. /\ IsFiniteSet(T) /\ Cardinality(T) \in Nat
      /\ Cardinality(S) \in Nat
  BY RowsFinite
<1>2. Cardinality(S) <= Cardinality(T) /\ (Cardinality(T) = Cardinality(S) => T = S)
  BY <1>1, FS_Subset
<1> QED
  BY <1>1, <1>2

\* Later rows of a label have a later turn.
LEMMA TurnOrders ==
    ASSUME NEW D, D \subseteq Rows, NEW q \in D, NEW r \in D
    PROVE  /\ Turn(D, q) \in Nat /\ Turn(D, r) \in Nat
           /\ label[q] = label[r] /\ q < r => Turn(D, q) < Turn(D, r)
<1> DEFINE A(z) == {x \in D : label[x] = label[z] /\ x < z}
<1>1. \A z \in D : Turn(D, z) \in Nat
  <2> SUFFICES ASSUME NEW z \in D PROVE Turn(D, z) \in Nat
    OBVIOUS
  <2>1. A(z) \subseteq Rows
    OBVIOUS
  <2> QED
    BY <2>1, RowsFinite DEF Turn
<1>2. ASSUME label[q] = label[r], q < r
      PROVE  Turn(D, q) < Turn(D, r)
  <2>1. \A x \in D : x \in Nat
    BY OutcomeSweepAssumption DEF Rows
  <2>2. A(q) \subseteq A(r) /\ q \in A(r) /\ q \notin A(q) /\ A(r) \subseteq Rows
    BY <1>2, <2>1
  <2> HIDE DEF A
  <2>3. Cardinality(A(q)) < Cardinality(A(r))
    BY <2>2, SmallerSet
  <2> QED
    BY <2>3 DEF Turn, A
<1> QED
  BY <1>1, <1>2

\* The order of a pick is a strict total order of the due rows.
LEMMA BeforeTotal ==
    ASSUME NEW o, NEW D, D \subseteq Rows
    PROVE  /\ \A q \in D : ~Before(o, D, q, q)
           /\ \A q, r, t \in D : Before(o, D, q, r) /\ Before(o, D, r, t) => Before(o, D, q, t)
           /\ \A q, r \in D : q # r => Before(o, D, q, r) \/ Before(o, D, r, q)
<1>1. /\ \A q \in D : q \in Nat /\ label[q] \in Labels
      /\ \A l \in Labels : rank[l] \in Nat
      /\ \A l, m \in Labels : rank[l] = rank[m] => l = m
  BY OutcomeSweepAssumption DEF Rows
<1>2. \A q \in D : Turn(D, q) \in Nat /\ rank[label[q]] \in Nat
  BY <1>1, TurnOrders
<1>3. \A q, r \in D : label[q] = label[r] /\ q < r => Turn(D, q) < Turn(D, r)
  BY TurnOrders
<1>4. \A q \in D : ~Before(o, D, q, q)
  BY <1>1, <1>2 DEF Before
<1>5. ASSUME NEW q \in D, NEW r \in D, NEW t \in D, Before(o, D, q, r), Before(o, D, r, t)
      PROVE  Before(o, D, q, t)
  BY <1>1, <1>2, <1>5 DEF Before
<1>6. ASSUME NEW q \in D, NEW r \in D, q # r
      PROVE  Before(o, D, q, r) \/ Before(o, D, r, q)
  <2>1. q < r \/ r < q
    BY <1>1, <1>6
  <2>2. label[q] = label[r] => Turn(D, q) # Turn(D, r)
    BY <1>2, <1>3, <2>1
  <2>3. rank[label[q]] = rank[label[r]] => label[q] = label[r]
    BY <1>1
  <2> QED
    BY <1>2, <2>1, <2>2, <2>3 DEF Before
<1> QED
  BY <1>4, <1>5, <1>6

\* Every due row has a place of its own, in that order.
LEMMA PlaceOrders ==
    ASSUME NEW o, NEW D, D \subseteq Rows, NEW q \in D, NEW r \in D
    PROVE  /\ Place(o, D, q) \in Nat /\ Place(o, D, r) \in Nat
           /\ Before(o, D, q, r) => Place(o, D, q) < Place(o, D, r)
           /\ Place(o, D, q) = Place(o, D, r) => q = r
<1> DEFINE A(z) == {x \in D : Before(o, D, x, z)}
<1>1. \A z \in D : Place(o, D, z) \in Nat
  <2> SUFFICES ASSUME NEW z \in D PROVE Place(o, D, z) \in Nat
    OBVIOUS
  <2>1. A(z) \subseteq Rows
    OBVIOUS
  <2> QED
    BY <2>1, RowsFinite DEF Place
<1>2. ASSUME NEW y \in D, NEW z \in D, Before(o, D, y, z)
      PROVE  Place(o, D, y) < Place(o, D, z)
  <2>1. A(y) \subseteq A(z) /\ y \in A(z) /\ y \notin A(y) /\ A(z) \subseteq Rows
    BY <1>2, BeforeTotal
  <2> HIDE DEF A
  <2>2. Cardinality(A(y)) < Cardinality(A(z))
    BY <2>1, SmallerSet
  <2> QED
    BY <2>2 DEF Place, A
<1>3. Place(o, D, q) = Place(o, D, r) => q = r
  <2>1. q # r => Before(o, D, q, r) \/ Before(o, D, r, q)
    BY BeforeTotal
  <2> QED
    BY <1>1, <1>2, <2>1
<1> QED
  BY <1>1, <1>2, <1>3

\* Fewer than K places before it: at most K rows.
LEMMA FirstPlaces ==
    ASSUME NEW o, NEW D, D \subseteq Rows, NEW K \in Nat,
           NEW S, S \subseteq D, \A r \in S : Place(o, D, r) < K
    PROVE  Cardinality(S) <= K
<1> DEFINE f == [r \in S |-> Place(o, D, r)]
<1>1. f \in [S -> 0..(K - 1)]
  <2>1. \A r \in S : Place(o, D, r) \in Nat /\ Place(o, D, r) < K
    BY PlaceOrders
  <2>2. \A r \in S : Place(o, D, r) \in 0..(K - 1)
    BY <2>1
  <2> QED
    BY <2>2
<1>2. \A q, r \in S : f[q] = f[r] => q = r
  BY PlaceOrders
<1>3. f \in Injection(S, 0..(K - 1))
  BY <1>1, <1>2 DEF Injection, IsInjective
<1> HIDE DEF f
<1>4. IsFiniteSet(0..(K - 1)) /\ Cardinality(0..(K - 1)) = K
  BY IntervalCount
<1> QED
  BY <1>3, <1>4, FS_Injection

\* The picked rows of a label are its first turns.
LEMMA PickedTurns ==
    ASSUME NEW o \in Sweepers, fair[o], NEW D, D \subseteq Rows, NEW l,
           NEW P, P = {r \in Picked(o, D) : label[r] = l}
    PROVE  /\ Cardinality(P) \in Nat
           /\ \A r \in P : Turn(D, r) < Cardinality(P)
<1> DEFINE A(z) == {x \in D : label[x] = label[z] /\ x < z}
<1>1. P \subseteq D /\ P \subseteq Rows /\ \A r \in P : label[r] = l
  BY DEF Picked
<1>2. Cardinality(P) \in Nat
  BY <1>1, RowsFinite
<1>3. ASSUME NEW r \in P PROVE Turn(D, r) < Cardinality(P)
  <2>1. \A x \in D : x \in Nat
    BY OutcomeSweepAssumption DEF Rows
  <2>2. ASSUME NEW x \in A(r) PROVE x \in P
    <3>1. x \in D /\ r \in D /\ label[x] = l /\ label[r] = l /\ x < r
      BY <1>1, <2>2
    <3>2. Turn(D, x) < Turn(D, r)
      BY <3>1, TurnOrders
    <3>3. Before(o, D, x, r)
      BY <3>2 DEF Before
    <3>4. Place(o, D, x) \in Nat /\ Place(o, D, r) \in Nat /\ Place(o, D, x) < Place(o, D, r)
      BY <3>1, <3>3, PlaceOrders
    <3>5. Place(o, D, r) < Batch[o] /\ Batch[o] \in Nat
      BY OutcomeSweepAssumption DEF Picked
    <3>6. Place(o, D, x) < Batch[o]
      BY <3>4, <3>5
    <3> QED
      BY <3>1, <3>6 DEF Picked
  <2>3. A(r) \subseteq P /\ r \notin A(r)
    BY <1>1, <2>1, <2>2
  <2> HIDE DEF A
  <2>4. Cardinality(A(r)) < Cardinality(P)
    BY <1>1, <2>3, SmallerSet
  <2> QED
    BY <2>4 DEF Turn, A
<1> QED
  BY <1>2, <1>3

\* interleave: while a due row of label m is left out, no label has two rows
\* more than m in the pick.
LEMMA PickIsFair ==
    ASSUME NEW o \in Sweepers, fair[o], NEW D, D \subseteq Rows, NEW l, NEW m,
           NEW P, P = {r \in Picked(o, D) : label[r] = l},
           NEW Q, Q = {r \in Picked(o, D) : label[r] = m},
           NEW out \in D, label[out] = m, out \notin Picked(o, D)
    PROVE  Cardinality(P) <= Cardinality(Q) + 1
<1> DEFINE M == {r \in D : label[r] = m}
           k == Cardinality(Q)
           n == Cardinality(M)
<1>1. /\ P \subseteq D /\ Q \subseteq M /\ M \subseteq D
      /\ P \subseteq Rows /\ Q \subseteq Rows /\ M \subseteq Rows
      /\ out \in M /\ out \notin Q
  BY DEF Picked
<1>2. /\ Cardinality(P) \in Nat /\ k \in Nat /\ \A r \in Q : Turn(D, r) < k
      /\ IsFiniteSet(M) /\ n \in Nat
  <2>1. Cardinality(P) \in Nat /\ Cardinality(Q) \in Nat
    BY <1>1, RowsFinite
  <2>2. \A r \in Q : Turn(D, r) < Cardinality(Q)
    <3>1. ASSUME NEW z, NEW S, S = {r \in Picked(o, D) : label[r] = z}
          PROVE  \A r \in S : Turn(D, r) < Cardinality(S)
      BY <3>1, PickedTurns
    <3> QED
      BY <3>1
  <2>3. IsFiniteSet(M) /\ n \in Nat
    BY <1>1, RowsFinite
  <2> QED
    BY <2>1, <2>2, <2>3
<1>3. k < n
  BY <1>1, SmallerSet
<1>4. \A r \in D : Turn(D, r) \in Nat
  BY TurnOrders
<1>5. \A q, r \in D : label[q] = label[r] /\ Turn(D, q) = Turn(D, r) => q = r
  <2> SUFFICES ASSUME NEW q \in D, NEW r \in D, label[q] = label[r], q # r
               PROVE  Turn(D, q) # Turn(D, r)
    OBVIOUS
  <2>1. q < r \/ r < q
    BY OutcomeSweepAssumption DEF Rows
  <2>2. Turn(D, q) < Turn(D, r) \/ Turn(D, r) < Turn(D, q)
    BY <2>1, TurnOrders
  <2> QED
    BY <1>4, <2>2
<1>6. PICK u \in M : Turn(D, u) = k
  <2> DEFINE f == [r \in M |-> Turn(D, r)]
  <2>1. \A r \in M : Turn(D, r) < n
    <3> SUFFICES ASSUME NEW r \in M PROVE Turn(D, r) < n
      OBVIOUS
    <3> DEFINE A == {x \in D : label[x] = label[r] /\ x < r}
    <3>1. A \subseteq M /\ r \notin A
      BY OutcomeSweepAssumption DEF Rows
    <3> HIDE DEF A
    <3>2. Cardinality(A) < Cardinality(M)
      BY <1>1, <3>1, SmallerSet
    <3> QED
      BY <3>2 DEF Turn, A
  <2>2. f \in [M -> 0..(n - 1)]
    <3>1. \A r \in M : Turn(D, r) \in Nat
      BY <1>1, <1>4
    <3>2. \A r \in M : Turn(D, r) \in 0..(n - 1)
      BY <1>2, <2>1, <3>1
    <3> QED
      BY <3>2
  <2>3. \A q, r \in M : f[q] = f[r] => q = r
    BY <1>1, <1>5
  <2>4. f \in Injection(M, 0..(n - 1))
    BY <2>2, <2>3 DEF Injection, IsInjective
  <2> HIDE DEF f
  <2>5. IsFiniteSet(0..(n - 1)) /\ Cardinality(0..(n - 1)) = n
    BY <1>2, IntervalCount
  <2>6. f \in Surjection(M, 0..(n - 1))
    BY <2>4, <2>5, FS_Injection
  <2>7. k \in 0..(n - 1)
    BY <1>2, <1>3
  <2>8. \E r \in M : f[r] = k
    BY <2>6, <2>7 DEF Surjection
  <2> QED
    BY <2>8 DEF f
<1>7. u \in D /\ u \notin Picked(o, D)
  BY <1>1, <1>2, <1>6
<1>8. ASSUME NEW r \in P PROVE Turn(D, r) \in 0..k
  <2>1. Place(o, D, r) < Batch[o] /\ ~(Place(o, D, u) < Batch[o]) /\ Batch[o] \in Nat
    BY <1>7, OutcomeSweepAssumption DEF Picked
  <2>2. Place(o, D, r) \in Nat /\ Place(o, D, u) \in Nat
    BY <1>1, <1>7, PlaceOrders
  <2>3. r # u /\ ~Before(o, D, u, r)
    BY <1>1, <1>7, <2>1, <2>2, PlaceOrders
  <2>4. Before(o, D, r, u)
    BY <1>1, <1>7, <2>3, BeforeTotal
  <2>5. Turn(D, r) <= Turn(D, u)
    BY <1>1, <1>4, <1>7, <2>4 DEF Before
  <2> QED
    BY <1>1, <1>2, <1>4, <1>6, <2>5
<1>9. Cardinality(P) <= k + 1
  <2> DEFINE g == [r \in P |-> Turn(D, r)]
  <2>1. g \in [P -> 0..k]
    BY <1>8
  <2>2. \A q, r \in P : g[q] = g[r] => q = r
    BY <1>1, <1>5
  <2>3. g \in Injection(P, 0..k)
    BY <2>1, <2>2 DEF Injection, IsInjective
  <2> HIDE DEF g
  <2>4. k + 1 \in Nat /\ (k + 1) - 1 = k
    BY <1>2
  <2>5. IsFiniteSet(0..k) /\ Cardinality(0..k) = k + 1
    <3>1. IsFiniteSet(0..((k + 1) - 1)) /\ Cardinality(0..((k + 1) - 1)) = k + 1
      BY <2>4, IntervalCount
    <3> QED
      BY <2>4, <3>1
  <2> QED
    BY <2>3, <2>5, FS_Injection
<1> QED
  BY <1>9

\* The rows a run has still to start have places of their own.
PlacesApart ==
    \A s \in Runs : \A q, r \in todo[s] : place[s][q] = place[s][r] => q = r

\* A run never resolves more rows at a time than it has workers.
Bounded == \A s \in Runs : Cardinality(working[s]) <= Concurrency[owner[s]]

SweepInv == TypeOK /\ PlacesApart

\* There is at most one next row.
LEMMA HeadSingle ==
    ASSUME SweepInv, NEW s \in Runs
    PROVE  Foremost(s) \subseteq todo[s] /\ \A q, r \in Foremost(s) : q = r
<1>1. \A r \in todo[s] : place[s][r] \in Nat
  BY DEF SweepInv, TypeOK, SweepType
<1>2. ASSUME NEW q \in Foremost(s), NEW r \in Foremost(s) PROVE q = r
  <2>1. /\ q \in todo[s] /\ r \in todo[s]
        /\ place[s][q] <= place[s][r] /\ place[s][r] <= place[s][q]
    BY DEF Foremost
  <2>2. place[s][q] = place[s][r]
    BY <1>1, <2>1
  <2> QED
    BY <2>1, <2>2 DEF SweepInv, PlacesApart
<1> QED
  BY <1>2 DEF Foremost

\* A worker that takes the next row takes the place of its last one.
LEMMA TakeNextTypes ==
    ASSUME SweepInv, NEW s \in Runs, NEW r \in working[s], TakeNext(s, r)
    PROVE  SweepType' /\ PlacesApart' /\ Bounded'
<1>1. SweepType /\ Bounded /\ PlacesApart
  BY DEF SweepInv, TypeOK, Bounded
<1>2. /\ working' = [working EXCEPT ![s] = (working[s] \ {r}) \union Foremost(s)]
      /\ todo' = [todo EXCEPT ![s] = todo[s] \ Foremost(s)]
      /\ seen' = [seen EXCEPT ![s][r] = NoClock]
      /\ place' = place
  BY DEF TakeNext
<1>3. Foremost(s) \subseteq todo[s] /\ \A x, y \in Foremost(s) : x = y
  BY HeadSingle
<1>4. /\ working[s] \subseteq Rows /\ todo[s] \subseteq Rows /\ r \in Rows
      /\ (working[s] \ {r}) \union Foremost(s) \subseteq Rows
  BY <1>1, <1>3 DEF SweepType
<1>5. todo' \in [Runs -> SUBSET Rows] /\ working' \in [Runs -> SUBSET Rows]
  BY <1>1, <1>2, <1>4 DEF SweepType
<1>6. seen' \in [Runs -> [Rows -> Clock]]
  <2>1. [seen[s] EXCEPT ![r] = NoClock] \in [Rows -> Clock]
    BY <1>1, <1>4 DEF SweepType, Clock
  <2>2. seen' = [seen EXCEPT ![s] = [seen[s] EXCEPT ![r] = NoClock]]
    BY <1>2
  <2> QED
    BY <1>1, <2>1, <2>2 DEF SweepType
<1>7. awaited' \in [Runs -> BOOLEAN]
  <2>1. PICK b \in BOOLEAN : awaited' = [awaited EXCEPT ![s] = b]
    <3>1. awaited[s] \in BOOLEAN
      BY <1>1 DEF SweepType
    <3>2. (awaited[s] /\ (todo[s] # {} \/ working[s] # {r})) \in BOOLEAN
      BY <3>1
    <3>3. awaited' = [awaited EXCEPT ![s] = awaited[s] /\ (todo[s] # {} \/ working[s] # {r})]
      BY DEF TakeNext
    <3> QED
      BY <3>2, <3>3, Zenon
  <2> QED
    BY <1>1, <2>1 DEF SweepType
<1>8. SweepType'
  BY <1>1, <1>2, <1>5, <1>6, <1>7 DEF SweepType
<1>9. PlacesApart'
  <2> SUFFICES ASSUME NEW t \in Runs, NEW x \in todo'[t], NEW y \in todo'[t],
                      place[t][x] = place[t][y]
               PROVE  x = y
    BY <1>2 DEF PlacesApart
  <2>1. todo'[t] \subseteq todo[t]
    BY <1>1, <1>2 DEF SweepType
  <2> QED
    BY <1>1, <2>1 DEF PlacesApart
<1>10. Bounded'
  <2> SUFFICES ASSUME NEW t \in Runs
               PROVE  Cardinality(working'[t]) <= Concurrency[owner[t]]
    BY DEF Bounded
  <2>1. CASE t # s
    BY <1>1, <1>2, <2>1 DEF SweepType, Bounded
  <2>2. CASE t = s
    <3> DEFINE rest0 == working[s] \ {r}
    <3>1. /\ IsFiniteSet(working[s]) /\ Cardinality(working[s]) \in Nat
          /\ Cardinality(rest0) = Cardinality(working[s]) - 1 /\ IsFiniteSet(rest0)
      BY <1>4, RowsFinite, FS_RemoveElement
    <3>2. working'[s] = rest0 \union Foremost(s)
      BY <1>1, <1>2 DEF SweepType
    <3> HIDE DEF rest0
    <3>3. Cardinality(rest0 \union Foremost(s)) <= Cardinality(rest0) + 1
      <4>0. Cardinality(rest0) \in Nat
        BY <3>1, FS_CardinalityType
      <4>1. CASE Foremost(s) = {}
        <5>1. rest0 \union Foremost(s) = rest0
          BY <4>1
        <5>2. Cardinality(rest0 \union Foremost(s)) = Cardinality(rest0)
          BY <5>1, Zenon
        <5> QED
          BY <4>0, <5>2
      <4>2. CASE Foremost(s) # {}
        <5>1. PICK x : Foremost(s) = {x}
          BY <1>3, <4>2
        <5>2. Cardinality(rest0 \union {x}) = IF x \in rest0 THEN Cardinality(rest0)
                                              ELSE Cardinality(rest0) + 1
          BY <3>1, FS_AddElement
        <5> QED
          BY <4>0, <5>1, <5>2
      <4> QED
        BY <4>1, <4>2
    <3>4. Cardinality(working[s]) <= Concurrency[owner[s]] /\ Concurrency[owner[s]] \in Nat
      BY <1>1, OutcomeSweepAssumption DEF Bounded
    <3>5. Cardinality(rest0 \union Foremost(s)) \in Nat
      <4>1. rest0 \union Foremost(s) \subseteq Rows
        BY <1>4, <3>2, <1>5 DEF SweepType
      <4> QED
        BY <4>1, RowsFinite
    <3> QED
      BY <2>2, <3>1, <3>2, <3>3, <3>4, <3>5
  <2> QED
    BY <2>1, <2>2
<1> QED
  BY <1>8, <1>9, <1>10

\* A new run starts at most one row per worker.
LEMMA StartTypes ==
    ASSUME SweepInv, NEW s \in Runs, StartSweep(s)
    PROVE  SweepType' /\ PlacesApart' /\ Bounded'
<1> DEFINE o == owner[s]
           D == Due(o)
           first == {r \in Picked(o, D) : Place(o, D, r) < Concurrency[o]}
           later == Picked(o, D) \ first
<1>1. SweepType /\ Bounded /\ PlacesApart /\ clock \in [Rows -> Clock]
  BY DEF SweepInv, TypeOK, Bounded, TableType
<1>2. /\ working' = [working EXCEPT ![s] = first]
      /\ todo' = [todo EXCEPT ![s] = later]
      /\ place' = [place EXCEPT ![s] = [r \in Rows |-> IF r \in later THEN Place(o, D, r) ELSE 0]]
      /\ seen' = [seen EXCEPT ![s] =
                    [r \in Rows |-> IF r \in Picked(o, D) THEN clock[r] ELSE NoClock]]
      /\ awaited' = [awaited EXCEPT ![s] = TRUE]
  BY DEF StartSweep
<1>3. /\ o \in Sweepers /\ Concurrency[o] \in Nat
      /\ D \subseteq Rows /\ Picked(o, D) \subseteq D
  BY OutcomeSweepAssumption DEF Due, Picked
<1>4. first \subseteq D /\ later \subseteq D /\ \A r \in first : Place(o, D, r) < Concurrency[o]
  BY <1>3
<1> HIDE DEF later, first, D
<1>5. todo' \in [Runs -> SUBSET Rows] /\ working' \in [Runs -> SUBSET Rows]
  BY <1>1, <1>2, <1>3, <1>4 DEF SweepType
<1>6. place' \in [Runs -> [Rows -> Nat]]
  <2>1. \A r \in D : Place(o, D, r) \in Nat
    BY <1>3, PlaceOrders
  <2>2. [r \in Rows |-> IF r \in later THEN Place(o, D, r) ELSE 0] \in [Rows -> Nat]
    BY <1>4, <2>1
  <2> QED
    BY <1>1, <1>2, <2>2 DEF SweepType
<1>7. seen' \in [Runs -> [Rows -> Clock]]
  <2>1. [r \in Rows |-> IF r \in Picked(o, D) THEN clock[r] ELSE NoClock] \in [Rows -> Clock]
    BY <1>1 DEF Clock
  <2> QED
    BY <1>1, <1>2, <2>1 DEF SweepType
<1>8. awaited' \in [Runs -> BOOLEAN]
  BY <1>1, <1>2 DEF SweepType
<1>9. PlacesApart'
  <2> SUFFICES ASSUME NEW t \in Runs, NEW x \in todo'[t], NEW y \in todo'[t],
                      place'[t][x] = place'[t][y]
               PROVE  x = y
    BY DEF PlacesApart
  <2>1. CASE t # s
    BY <1>1, <1>2, <2>1 DEF SweepType, PlacesApart
  <2>2. CASE t = s
    <3>1. x \in later /\ y \in later /\ x \in D /\ y \in D
      BY <1>1, <1>2, <1>4, <2>2 DEF SweepType
    <3>2. place'[s][x] = Place(o, D, x) /\ place'[s][y] = Place(o, D, y)
      BY <1>1, <1>2, <1>3, <3>1 DEF SweepType
    <3> QED
      BY <1>3, <2>2, <3>1, <3>2, PlaceOrders
  <2> QED
    BY <2>1, <2>2
<1>10. Bounded'
  <2> SUFFICES ASSUME NEW t \in Runs
               PROVE  Cardinality(working'[t]) <= Concurrency[owner[t]]
    BY DEF Bounded
  <2>1. CASE t # s
    BY <1>1, <1>2, <2>1 DEF SweepType, Bounded
  <2>2. CASE t = s
    <3>1. working'[s] = first
      BY <1>1, <1>2 DEF SweepType
    <3>2. Cardinality(first) <= Concurrency[o]
      BY <1>3, <1>4, FirstPlaces
    <3> QED
      BY <2>2, <3>1, <3>2
  <2> QED
    BY <2>1, <2>2
<1> QED
  BY <1>5, <1>6, <1>7, <1>8, <1>9, <1>10 DEF SweepType

\* Time and the rows keep the types of the table.
LEMMA TableTypeNext ==
    ASSUME TypeOK, NEW s \in Runs, NEW r \in Rows,
           Verdict(s, r) \/ Defer(s, r) \/ CodeError(s, r) \/ DeferFails(s, r)
    PROVE  TableType' /\ faults' \in 0..MaxFaults
<1> USE OutcomeSweepAssumption
<1>1. TableType /\ SweepType /\ faults \in 0..MaxFaults
  BY DEF TypeOK
<1>2. 0 \in 0..Backoff /\ NoClock \in Clock /\ 0 \in Clock
  BY DEF Clock
<1>3. Noted(r) => failing' \in [Rows -> Clock]
  BY <1>1, <1>2 DEF Noted, TableType
<1>4. Fault => faults' \in 0..MaxFaults
  BY <1>1 DEF Fault
<1>5. CASE Verdict(s, r)
  <2>1. /\ status' \in [Rows -> Status]
        /\ value' \in [Rows -> {"null", "true", "false"}]
    BY <1>1, <1>5 DEF Verdict, TableType, Status
  <2>2. rest' \in [Rows -> 0..Backoff] /\ clock' \in [Rows -> Clock]
    BY <1>1, <1>2, <1>5 DEF Verdict, TableType
  <2>3. gaveUp' \in [Rows -> BOOLEAN]
    BY <1>1, <1>5 DEF Verdict, TableType
  <2> QED
    BY <1>1, <1>5, <2>1, <2>2, <2>3 DEF Verdict, TableType
<1>6. CASE Defer(s, r)
  <2> DEFINE d == deferOrGiveUp(seen[s][r])
  <2>1. /\ status' = IF d.action = "give_up"
                     THEN [status EXCEPT ![r] = "UNRESOLVABLE"] ELSE status
        /\ value' = IF d.action = "give_up" THEN [value EXCEPT ![r] = "null"] ELSE value
        /\ rest' = [rest EXCEPT ![r] = 0]
        /\ clock' = [clock EXCEPT ![r] = d.first]
        /\ gaveUp' = [gaveUp EXCEPT ![r] = d.action = "give_up"]
        /\ Noted(r) /\ faults' = faults
    BY <1>6 DEF Defer, deferRow
  <2>2. d.first \in Clock
    <3>1. seen[s][r] \in Clock
      BY <1>1 DEF SweepType
    <3> QED
      BY <3>1, DecisionBacked DEF Clock
  <2> HIDE DEF d
  <2>3. /\ status' \in [Rows -> Status]
        /\ value' \in [Rows -> {"null", "true", "false"}]
    BY <1>1, <2>1 DEF TableType, Status
  <2>4. rest' \in [Rows -> 0..Backoff] /\ clock' \in [Rows -> Clock]
    BY <1>1, <1>2, <2>1, <2>2 DEF TableType
  <2>5. gaveUp' \in [Rows -> BOOLEAN]
    <3>1. PICK b \in BOOLEAN : gaveUp' = [gaveUp EXCEPT ![r] = b]
      BY <2>1
    <3> QED
      BY <1>1, <3>1 DEF TableType
  <2> QED
    BY <1>1, <1>3, <2>1, <2>3, <2>4, <2>5 DEF TableType
<1>7. CASE CodeError(s, r)
  <2>1. rest' \in [Rows -> 0..Backoff]
    BY <1>1, <1>2, <1>7 DEF CodeError, TableType
  <2>2. faults' \in 0..MaxFaults
    BY <1>1, <1>4, <1>7 DEF CodeError
  <2> QED
    BY <1>1, <1>7, <2>1, <2>2 DEF CodeError, TableType
<1>8. CASE DeferFails(s, r)
  BY <1>1, <1>3, <1>4, <1>8 DEF DeferFails, TableType, table
<1> QED
  BY <1>5, <1>6, <1>7, <1>8

\* Every step keeps the types and the bound of a run.
LEMMA SweepNext == SweepInv /\ [Next]_vars => SweepInv'
<1> SUFFICES ASSUME SweepInv, [Next]_vars PROVE SweepInv'
  OBVIOUS
<1> USE OutcomeSweepAssumption
<1>1. /\ TableType /\ SweepType /\ Bounded /\ PlacesApart
      /\ passed \in 0..MaxRows /\ faults \in 0..MaxFaults /\ resets \in 0..MaxResets
  BY DEF SweepInv, TypeOK, Bounded
<1>2. ASSUME TableType', SweepType', Bounded', PlacesApart',
             passed' \in 0..MaxRows, faults' \in 0..MaxFaults, resets' \in 0..MaxResets
      PROVE  SweepInv'
  BY <1>2 DEF SweepInv, TypeOK, Bounded
<1>3. ASSUME UNCHANGED sweep
      PROVE  SweepType' /\ Bounded' /\ PlacesApart'
  BY <1>1, <1>3 DEF sweep, SweepType, Bounded, PlacesApart
<1>4. CASE HorizonPasses \/ UNCHANGED vars
  <2>1. UNCHANGED <<table, sweep, failing>>
    BY <1>4 DEF HorizonPasses, vars, table, sweep
  <2>2. TableType'
    BY <1>1, <2>1 DEF table, TableType
  <2>3. passed' \in 0..MaxRows /\ faults' \in 0..MaxFaults /\ resets' \in 0..MaxResets
    BY <1>1, <1>4 DEF HorizonPasses, vars
  <2> QED
    BY <1>2, <1>3, <2>1, <2>2, <2>3
<1>5. CASE Tick
  <2>1. \A a \in Clock : Older(a) \in Clock
    BY DEF Older, Clock
  <2>2. clock' \in [Rows -> Clock] /\ failing' \in [Rows -> Clock]
    BY <1>1, <1>5, <2>1 DEF Tick, TableType
  <2>3. rest' \in [Rows -> 0..Backoff]
    BY <1>1, <1>5 DEF Tick, TableType
  <2>4. seen' \in [Runs -> [Rows -> Clock]]
    <3>1. \A t \in Runs : \A r \in Rows : Older(seen[t][r]) \in Clock
      BY <1>1, <2>1 DEF SweepType
    <3>2. \A t \in Runs : [r \in Rows |-> Older(seen[t][r])] \in [Rows -> Clock]
      BY <3>1
    <3> QED
      BY <1>5, <3>2 DEF Tick
  <2>5. UNCHANGED <<status, value, gaveUp, passed, todo, place, working, awaited,
                    faults, resets>>
    BY <1>5 DEF Tick
  <2>6. TableType'
    BY <1>1, <2>2, <2>3, <2>5 DEF TableType
  <2>7. SweepType' /\ Bounded' /\ PlacesApart'
    BY <1>1, <2>4, <2>5 DEF SweepType, Bounded, PlacesApart
  <2> QED
    BY <1>1, <1>2, <2>5, <2>6, <2>7
<1>6. CASE ResetStale
  <2>1. \A r \in Rows : /\ status[r] \in Status
                        /\ value[r] \in {"null", "true", "false"}
                        /\ rest[r] \in 0..Backoff /\ failing[r] \in Clock
    BY <1>1 DEF TableType
  <2>2. "PENDING" \in Status /\ Backoff \in 0..Backoff /\ NoClock \in Clock
    BY DEF Status, Clock
  <2>3. /\ status' \in [Rows -> Status]
        /\ value' \in [Rows -> {"null", "true", "false"}]
    BY <1>6, <2>1, <2>2 DEF ResetStale
  <2>4. rest' \in [Rows -> 0..Backoff] /\ failing' \in [Rows -> Clock]
    BY <1>6, <2>1, <2>2 DEF ResetStale
  <2>5. UNCHANGED <<clock, gaveUp, passed, sweep, faults>> /\ resets' \in 0..MaxResets
    BY <1>1, <1>6 DEF ResetStale
  <2>6. TableType'
    BY <1>1, <2>3, <2>4, <2>5 DEF TableType
  <2> QED
    BY <1>1, <1>2, <1>3, <2>5, <2>6
<1>7. ASSUME NEW g, ensureOutcomeRows(g) PROVE SweepInv'
  <2>1. status' \in [Rows -> Status]
    <3>1. \A r \in Rows : status[r] \in Status
      BY <1>1 DEF TableType
    <3> QED
      BY <1>7, <3>1 DEF ensureOutcomeRows, Status
  <2>2. UNCHANGED <<value, rest, clock, gaveUp, passed, sweep, failing, faults, resets>>
    BY <1>7 DEF ensureOutcomeRows
  <2>3. TableType'
    BY <1>1, <2>1, <2>2 DEF TableType
  <2> QED
    BY <1>1, <1>2, <1>3, <2>2, <2>3
<1>8. ASSUME NEW s \in Runs, StartSweep(s) PROVE SweepInv'
  <2>1. SweepType' /\ PlacesApart' /\ Bounded'
    BY <1>8, StartTypes
  <2>2. UNCHANGED <<table, passed, failing, faults, resets>>
    BY <1>8 DEF StartSweep
  <2>3. TableType'
    BY <1>1, <2>2 DEF table, TableType
  <2> QED
    BY <1>1, <1>2, <2>1, <2>2, <2>3
<1>9. ASSUME NEW s \in Runs, NEW r \in Rows, Finish(s, r) PROVE SweepInv'
  <2>1. r \in working[s] /\ TakeNext(s, r)
    BY <1>9 DEF Finish, Verdict, Defer, CodeError
  <2>2. SweepType' /\ PlacesApart' /\ Bounded'
    BY <2>1, TakeNextTypes
  <2>3. passed' = passed /\ resets' = resets
    BY <2>1 DEF TakeNext
  <2>4. TableType' /\ faults' \in 0..MaxFaults
    BY <1>9, TableTypeNext DEF Finish, SweepInv
  <2> QED
    BY <1>1, <1>2, <2>2, <2>3, <2>4
<1>10. ASSUME NEW s \in Runs, NEW r \in Rows, DeferFails(s, r) PROVE SweepInv'
  <2>1. /\ r \in working[s]
        /\ working' = [working EXCEPT ![s] = working[s] \ {r}]
        /\ todo' = [todo EXCEPT ![s] = IF working[s] = {r} THEN {} ELSE todo[s]]
        /\ seen' = [seen EXCEPT ![s][r] = NoClock]
        /\ awaited' = [awaited EXCEPT ![s] = FALSE]
        /\ passed' = passed /\ place' = place /\ resets' = resets
    BY <1>10 DEF DeferFails
  <2>2. TableType' /\ faults' \in 0..MaxFaults
    BY <1>10, TableTypeNext DEF SweepInv
  <2>3. /\ todo' \in [Runs -> SUBSET Rows] /\ working' \in [Runs -> SUBSET Rows]
        /\ \A t \in Runs : working'[t] \subseteq working[t] /\ todo'[t] \subseteq todo[t]
    BY <1>1, <2>1 DEF SweepType
  <2>4. seen' \in [Runs -> [Rows -> Clock]]
    <3>1. [seen[s] EXCEPT ![r] = NoClock] \in [Rows -> Clock]
      BY <1>1 DEF SweepType, Clock
    <3>2. seen' = [seen EXCEPT ![s] = [seen[s] EXCEPT ![r] = NoClock]]
      BY <2>1
    <3> QED
      BY <1>1, <3>1, <3>2 DEF SweepType
  <2>5. awaited' \in [Runs -> BOOLEAN]
    BY <1>1, <2>1 DEF SweepType
  <2>6. SweepType'
    BY <1>1, <2>1, <2>3, <2>4, <2>5 DEF SweepType
  <2>7. PlacesApart'
    BY <1>1, <2>1, <2>3 DEF PlacesApart
  <2>8. Bounded'
    <3> SUFFICES ASSUME NEW t \in Runs
                 PROVE  Cardinality(working'[t]) <= Concurrency[owner[t]]
      BY DEF Bounded
    <3>1. working'[t] \subseteq working[t] /\ working[t] \subseteq Rows /\ working'[t] \subseteq Rows
      BY <1>1, <2>3 DEF SweepType
    <3>2. IsFiniteSet(working[t]) /\ Cardinality(working[t]) \in Nat /\ Cardinality(working'[t]) \in Nat
      BY <3>1, RowsFinite
    <3>3. Cardinality(working'[t]) <= Cardinality(working[t])
      BY <3>1, <3>2, FS_Subset
    <3>4. Cardinality(working[t]) <= Concurrency[owner[t]] /\ Concurrency[owner[t]] \in Nat
      BY <1>1 DEF Bounded
    <3> QED
      BY <3>2, <3>3, <3>4
  <2> QED
    BY <1>1, <1>2, <2>1, <2>2, <2>6, <2>7, <2>8
<1>11. ASSUME NEW o \in Sweepers, Crash(o) PROVE SweepInv'
  <2>1. /\ working' = [t \in Runs |-> IF owner[t] = o THEN {} ELSE working[t]]
        /\ todo' = [t \in Runs |-> IF owner[t] = o THEN {} ELSE todo[t]]
        /\ awaited' = [t \in Runs |-> owner[t] # o /\ awaited[t]]
        /\ UNCHANGED <<table, passed, place, seen, failing, resets>>
        /\ faults' \in 0..MaxFaults
    BY <1>1, <1>11 DEF Crash, Fault
  <2>2. awaited' \in [Runs -> BOOLEAN]
    <3>1. \A t \in Runs : (owner[t] # o /\ awaited[t]) \in BOOLEAN
      BY DEF SweepInv, TypeOK, SweepType
    <3> QED
      BY <2>1, <3>1
  <2>3. todo' \in [Runs -> SUBSET Rows] /\ working' \in [Runs -> SUBSET Rows]
    BY <1>1, <2>1 DEF SweepType
  <2>4. SweepType'
    BY <1>1, <2>1, <2>2, <2>3 DEF SweepType
  <2>5. PlacesApart'
    BY <1>1, <2>1 DEF PlacesApart
  <2>6. Bounded'
    <3>1. Cardinality({}) = 0 /\ \A t \in Runs : Concurrency[owner[t]] \in Nat
      BY FS_EmptySet
    <3> QED
      BY <1>1, <2>1, <3>1 DEF Bounded
  <2>7. TableType'
    BY <1>1, <2>1 DEF table, TableType
  <2> QED
    BY <1>1, <1>2, <2>1, <2>4, <2>5, <2>6, <2>7
<1> QED
  BY <1>4, <1>5, <1>6, <1>7, <1>8, <1>9, <1>10, <1>11 DEF Next

\* The types, and the places of the rows still to start, hold in every
\* reachable state.
THEOREM SweepInvariant == Spec => []SweepInv
<1> USE OutcomeSweepAssumption
<1>1. Init => SweepInv
  <2> SUFFICES ASSUME Init PROVE SweepInv
    OBVIOUS
  <2>1. TableType
    BY DEF Init, TableType, Status, Clock
  <2>2. SweepType
    BY DEF Init, SweepType, Clock
  <2>3. \A s \in Runs : working[s] = {} /\ todo[s] = {}
    BY DEF Init
  <2>4. \A s \in Runs : Cardinality(working[s]) <= Concurrency[owner[s]]
    <3>1. Cardinality({}) = 0 /\ \A t \in Runs : Concurrency[owner[t]] \in Nat
      BY FS_EmptySet
    <3> SUFFICES ASSUME NEW s \in Runs
                 PROVE  Cardinality(working[s]) <= Concurrency[owner[s]]
      OBVIOUS
    <3>2. Cardinality(working[s]) = 0
      BY <2>3, <3>1
    <3> QED
      BY <3>1, <3>2
  <2>5. passed \in 0..MaxRows /\ faults \in 0..MaxFaults /\ resets \in 0..MaxResets
    BY DEF Init
  <2>6. PlacesApart
    BY <2>3 DEF PlacesApart
  <2> QED
    BY <2>1, <2>2, <2>4, <2>5, <2>6 DEF SweepInv, TypeOK
<1> QED
  BY <1>1, SweepNext, PTL DEF Spec

\* The table and the sweeps keep their types, and no run of
\* sweepDueOutcomes ever resolves more rows at a time than its concurrency.
THEOREM SweepTypeCorrect == Spec => []TypeOK
<1>1. SweepInv => TypeOK
  BY DEF SweepInv
<1> QED
  BY <1>1, SweepInvariant, PTL

\* "so no single label's backlog takes every slot": where every process
\* interleaves, a label gets a second row more than another one into a pick
\* only if the other has no due row left, whatever the backlog (interleave).
THEOREM PicksAreFair ==
    ASSUME \A o \in Sweepers : fair[o]
    PROVE  Spec => FairAcrossLabels
<1> DEFINE Fair(s, l, m) ==
             Cardinality(PickedOf(s, l)') > Cardinality(PickedOf(s, m)') + 1 =>
               \A r \in Due(owner[s]) : label[r] = m => r \in PickedOf(s, m)'
<1>1. ASSUME NEW s \in Runs, SweepType, StartSweep(s), NEW l, NEW m
      PROVE  Fair(s, l, m)
  <2> DEFINE o == owner[s]
             D == Due(o)
             first == {r \in Picked(o, D) : Place(o, D, r) < Concurrency[o]}
  <2>1. o \in Sweepers /\ fair[o] /\ D \subseteq Rows
    BY OutcomeSweepAssumption DEF Due
  <2>2. working'[s] = first /\ todo'[s] = Picked(o, D) \ first
    BY <1>1 DEF StartSweep, SweepType
  <2>3. first \subseteq Picked(o, D)
    OBVIOUS
  <2> HIDE DEF first
  <2>4. working'[s] \union todo'[s] = Picked(o, D)
    BY <2>2, <2>3
  <2>5. \A k : PickedOf(s, k)' = {r \in Picked(o, D) : label[r] = k}
    BY <2>4 DEF PickedOf
  <2> HIDE DEF D, o
  <2>6. ASSUME NEW out \in D, label[out] = m, out \notin Picked(o, D)
        PROVE  ~(Cardinality(PickedOf(s, l)') > Cardinality(PickedOf(s, m)') + 1)
    <3> DEFINE P == PickedOf(s, l)'
               Q == PickedOf(s, m)'
    <3>1. P = {r \in Picked(o, D) : label[r] = l} /\ Q = {r \in Picked(o, D) : label[r] = m}
      BY <2>5
    <3> HIDE DEF P, Q
    <3>2. Cardinality(P) <= Cardinality(Q) + 1
      BY <2>1, <2>6, <3>1, PickIsFair
    <3>3. P \subseteq Rows /\ Q \subseteq Rows
      BY <2>1, <3>1 DEF Picked
    <3>4. Cardinality(P) \in Nat /\ Cardinality(Q) \in Nat
      BY <3>3, RowsFinite
    <3> QED
      BY <3>2, <3>4 DEF P, Q
  <2>7. \A r \in D : label[r] = m /\ r \in Picked(o, D) => r \in PickedOf(s, m)'
    BY <2>5
  <2> QED
    BY <2>6, <2>7 DEF D, o
<1>2. SweepInv /\ [Next]_vars =>
        [\A s \in Runs : StartSweep(s) => \A l, m \in Labels : Fair(s, l, m)]_vars
  BY <1>1 DEF SweepInv, TypeOK
<1> QED
  BY <1>2, SweepInvariant, PTL DEF Spec, FairAcrossLabels
=============================================================================
