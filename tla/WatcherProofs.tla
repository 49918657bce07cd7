--------------------------- MODULE WatcherProofs ---------------------------
(***************************************************************************)
(* The cursor of the index lane never passes a pool that is not settled,   *)
(* for any number of polling processes, pools, blocks, windows and faults; *)
(* what a lone poller gives up on had failed as often as the limit says;   *)
(* and the lane implements LaunchLane.                                     *)
(***************************************************************************)
EXTENDS Watcher, TLAPS

\* The part of the types that the argument needs.
PollType ==
    /\ head \in Nat
    /\ cursor \in Nat
    /\ base \in Nat
    /\ pc \in [Procs -> Point]
    /\ last \in [Procs -> Nat]
    /\ to \in [Procs -> Nat]
    /\ todo \in [Procs -> SUBSET Pools]
    /\ dp \in [Procs -> SUBSET Pools]
    /\ heldFailure \in [Procs -> Nat]

\* The process is between its cursor read and its setCursor.
Busy(p) == pc[p] \in {"ingest", "check", "create", "enqueue"}

\* ingestPool is running on the pool in dp.
Ingesting(p) == pc[p] \in {"check", "create", "enqueue"}

Held(p, d) == heldFailure[p] # 0 /\ heldFailure[p] <= blockOf[d]

InWindow(p, d) == last[p] < blockOf[d] /\ blockOf[d] <= to[p]

\* What a process may rely on while it polls: the blocks before its window
\* are settled, and a pool of the window is still to be looked at, being
\* ingested, settled, or at or behind the failure that holds the cursor.
Accounted(p) ==
    /\ SettledThrough(last[p])
    /\ last[p] <= to[p]
    /\ heldFailure[p] # 0 => last[p] < heldFailure[p] /\ heldFailure[p] <= to[p]
    /\ \A d \in todo[p] : InWindow(p, d)
    /\ Ingesting(p) => \E d \in Pools : dp[p] = {d} /\ InWindow(p, d)
    /\ pc[p] = "enqueue" => \A d \in dp[p] : HasRow(tokenOf[d])
    /\ \A d \in Pools : InWindow(p, d) =>
          \/ d \in todo[p]
          \/ Ingesting(p) /\ d \in dp[p]
          \/ Settled(d)
          \/ Held(p, d)

SkipInv ==
    /\ PollType
    /\ NoSilentSkip
    /\ \A p \in Procs : Busy(p) => Accounted(p)

-----------------------------------------------------------------------------

\* A settled pool stays settled while rows and abandonments only accumulate.
LEMMA SettledKept ==
    ASSUME launch \subseteq launch', abandoned \subseteq abandoned', base' = base
    PROVE  /\ \A t \in Tokens : HasRow(t) => HasRow(t)'
           /\ \A d \in Pools : Settled(d) => Settled(d)'
           /\ \A b \in Nat : SettledThrough(b) =>
                \A d \in Pools : base' < blockOf[d] /\ blockOf[d] <= b => Settled(d)'
BY WatcherAssumption DEF Settled, SettledThrough, HasRow

\* Steps of other processes do not disturb what a polling process relies on.
LEMMA AccountedKept ==
    ASSUME launch \subseteq launch', abandoned \subseteq abandoned', base' = base,
           NEW p \in Procs, PollType, Accounted(p),
           pc'[p] = pc[p], last'[p] = last[p], to'[p] = to[p],
           todo'[p] = todo[p], dp'[p] = dp[p], heldFailure'[p] = heldFailure[p]
    PROVE  Accounted(p)'
<1>1. /\ \A t \in Tokens : HasRow(t) => HasRow(t)'
      /\ \A d \in Pools : Settled(d) => Settled(d)'
  BY SettledKept
<1>2. SettledThrough(last[p])'
  BY <1>1 DEF Accounted, InWindow, SettledThrough
<1>3. pc'[p] = "enqueue" => \A d \in dp'[p] : HasRow(tokenOf[d])'
  BY <1>1, WatcherAssumption DEF Accounted, InWindow, PollType
<1> QED
  BY <1>1, <1>2, <1>3 DEF Accounted, InWindow, Ingesting, Held

\* A database without rows and a cursor at the head accounts for everything.
LEMMA InitSkip == Init => SkipInv
BY WatcherAssumption
   DEF Init, SkipInv, PollType, NoSilentSkip, SettledThrough, Busy, Point

\* Every step keeps the cursor behind the first unsettled pool.
LEMMA SkipNext == SkipInv /\ [Next]_vars => SkipInv'
<1> SUFFICES ASSUME SkipInv, [Next]_vars PROVE SkipInv'
  OBVIOUS
<1> USE WatcherAssumption
<1>a. PollType /\ NoSilentSkip /\ \A p \in Procs : Busy(p) => Accounted(p)
  BY DEF SkipInv
<1>b. \* nothing of the poll changes
  ASSUME UNCHANGED <<cursor, base, pc, poll>>, head' \in Nat,
         launch \subseteq launch', abandoned \subseteq abandoned'
  PROVE  SkipInv'
  <2>1. PollType'
    BY <1>a, <1>b DEF PollType, poll
  <2>2. NoSilentSkip'
    BY <1>a, <1>b, SettledKept DEF NoSilentSkip, SettledThrough, PollType
  <2>3. ASSUME NEW p \in Procs, Busy(p)' PROVE Accounted(p)'
    BY <1>a, <1>b, <2>3, AccountedKept DEF Busy, poll
  <2> QED
    BY <2>1, <2>2, <2>3 DEF SkipInv
<1>c. \* one process leaves its poll, or is not in it
  ASSUME NEW q \in Procs, NEW x \in Point \ {"ingest", "check", "create", "enqueue"},
         pc' = [pc EXCEPT ![q] = x], UNCHANGED <<launch, abandoned, base>>,
         PollType', NoSilentSkip',
         \A p \in Procs \ {q} : /\ last'[p] = last[p] /\ to'[p] = to[p]
                                /\ todo'[p] = todo[p] /\ dp'[p] = dp[p]
                                /\ heldFailure'[p] = heldFailure[p]
  PROVE  SkipInv'
  <2>1. ASSUME NEW p \in Procs, Busy(p)' PROVE Accounted(p)'
    <3>1. p # q
      BY <1>a, <1>c, <2>1 DEF Busy, PollType
    <3>2. Busy(p) /\ pc'[p] = pc[p]
      BY <1>a, <1>c, <2>1, <3>1 DEF Busy, PollType
    <3> QED
      BY <1>a, <1>c, <3>1, <3>2, AccountedKept
  <2> QED
    BY <1>c, <2>1 DEF SkipInv
<1>d. \* one process goes on with its poll
  ASSUME NEW q \in Procs, PollType', UNCHANGED <<cursor, base>>,
         launch \subseteq launch', abandoned \subseteq abandoned', Accounted(q)',
         \A p \in Procs \ {q} : /\ pc'[p] = pc[p]
                                /\ last'[p] = last[p] /\ to'[p] = to[p]
                                /\ todo'[p] = todo[p] /\ dp'[p] = dp[p]
                                /\ heldFailure'[p] = heldFailure[p]
  PROVE  SkipInv'
  <2>1. ASSUME NEW p \in Procs, Busy(p)' PROVE Accounted(p)'
    <3>1. CASE p = q
      BY <1>d, <3>1
    <3>2. CASE p # q
      <4>1. Busy(p)
        BY <1>d, <2>1, <3>2 DEF Busy
      <4> QED
        BY <1>a, <1>d, <3>2, <4>1, AccountedKept
    <3> QED
      BY <3>1, <3>2
  <2>2. NoSilentSkip'
    BY <1>a, <1>d, SettledKept DEF NoSilentSkip, SettledThrough, PollType
  <2> QED
    BY <1>d, <2>1, <2>2 DEF SkipInv
<1>1. CASE NewBlock
  BY <1>a, <1>b, <1>1 DEF NewBlock, history, PollType
<1>2. CASE StartPoll
  <2>1. PollType' /\ NoSilentSkip'
    BY <1>a, <1>2 DEF StartPoll, PollType, NoSilentSkip, SettledThrough, Settled,
       HasRow, poll, history, Point
  <2> QED
    BY <1>c, <1>2, <2>1 DEF StartPoll, poll, history, Point
<1>3. CASE CrashWorker
  <2>1. PollType' /\ NoSilentSkip'
    BY <1>a, <1>3 DEF CrashWorker, PollType, NoSilentSkip, SettledThrough, Settled,
       HasRow, poll, history, Point
  <2> QED
    BY <1>c, <1>3, <2>1 DEF CrashWorker, poll, history, Point
<1>4. ASSUME NEW t \in Tokens,
             T10Step(t) \/ T10Partial(t) \/ T10Fails(t) \/ T10ReportFails(t)
      PROVE  SkipInv'
  BY <1>a, <1>b, <1>4 DEF T10Step, T10Features, T10Report, T10Ends, T10Partial, T10Fails,
     T10ReportFails, history, PollType
<1>5. ASSUME NEW p \in Procs, NEW f \in 1..MaxBlock, StartReplay(p, f)
      PROVE  SkipInv'
  <2>1. PollType'
    BY <1>a, <1>5 DEF StartReplay, PollType, poll, Point
  <2>2. NoSilentSkip'
    BY <1>a, <1>5 DEF StartReplay, PollType, NoSilentSkip, SettledThrough, Settled,
       HasRow, history
  <2> QED
    BY <1>c, <1>5, <2>1, <2>2 DEF StartReplay, poll, Point, history
<1>6. ASSUME NEW p \in Procs, PollStep(p) \/ IngestMisses(p) PROVE SkipInv'
  <2>1. CASE ReadHead(p)
    <3>1. PollType' /\ NoSilentSkip'
      BY <1>a, <2>1 DEF ReadHead, PollType, NoSilentSkip, SettledThrough, Settled,
         HasRow, history, Point
    <3> QED
      BY <1>a, <1>c, <2>1, <3>1 DEF ReadHead, history, Point, PollType
  <2>2. CASE NothingNew(p)
    <3>1. PollType' /\ NoSilentSkip'
      BY <1>a, <2>2 DEF NothingNew, Return, PollType, NoSilentSkip, SettledThrough,
         Settled, HasRow, history, Point
    <3>2. PICK x \in {"idle", "after"} : pc' = [pc EXCEPT ![p] = x]
      BY <2>2 DEF NothingNew, Return
    <3> QED
      BY <1>a, <1>c, <2>2, <3>1, <3>2 DEF NothingNew, history, Point, PollType
  <2>3. CASE Detect(p)
    <3>1. PollType'
      BY <1>a, <2>3 DEF Detect, Least, PollType, Point
    <3>2. /\ pc'[p] = "ingest" /\ last'[p] = cursor /\ heldFailure'[p] = 0
          /\ todo'[p] = {d \in Pools : cursor < blockOf[d] /\ blockOf[d] <= to'[p]}
          /\ last'[p] <= to'[p]
      BY <1>a, <2>3 DEF Detect, Least, PollType
    <3>3. SettledThrough(last[p])'
      BY <1>a, <2>3, <3>2 DEF Detect, NoSilentSkip, SettledThrough, Settled, HasRow,
         history
    <3>4. Accounted(p)'
      BY <1>a, <3>1, <3>2, <3>3 DEF Accounted, InWindow, Ingesting, PollType
    <3> QED
      BY <1>a, <1>d, <2>3, <3>1, <3>4 DEF Detect, history, PollType
  <2>4. CASE NextPool(p)
    <3>0. Accounted(p)
      BY <1>a, <2>4 DEF NextPool, Busy
    <3>1. PollType'
      BY <1>a, <2>4 DEF NextPool, PollType, Point
    <3>2. PICK d \in todo[p] : dp' = [dp EXCEPT ![p] = {d}]
                               /\ todo' = [todo EXCEPT ![p] = todo[p] \ {d}]
      BY <2>4 DEF NextPool
    <3>3. /\ d \in Pools /\ dp'[p] = {d} /\ todo'[p] = todo[p] \ {d}
          /\ pc'[p] = "check" /\ last'[p] = last[p] /\ to'[p] = to[p]
          /\ heldFailure'[p] = heldFailure[p] /\ pc[p] = "ingest"
      BY <1>a, <2>4, <3>2 DEF NextPool, PollType
    <3>4. \A e \in Pools : Settled(e)' = Settled(e)
      BY <2>4 DEF NextPool, Settled, HasRow, history
    <3>5. SettledThrough(last[p])'
      BY <2>4, <3>0, <3>3, <3>4 DEF NextPool, SettledThrough, Accounted, InWindow
    <3>6. Accounted(p)'
      BY <3>0, <3>3, <3>4, <3>5 DEF Accounted, InWindow, Ingesting, Held
    <3> QED
      BY <1>a, <1>d, <2>4, <3>1, <3>2, <3>6 DEF NextPool, PollType, history
  <2>5. CASE Known(p)
    <3>0. Accounted(p)
      BY <1>a, <2>5 DEF Known, Busy
    <3>1. PollType'
      BY <1>a, <2>5 DEF Known, PollType, poll, Point
    <3>2. /\ pc'[p] = "ingest" /\ pc[p] = "check"
          /\ UNCHANGED <<last, to, todo, dp, heldFailure>>
      BY <1>a, <2>5 DEF Known, PollType, poll
    <3>3. \A d \in Pools : Settled(d)' = Settled(d)
      BY <2>5 DEF Known, Settled, HasRow, history
    <3>4. \A d \in dp[p] : Settled(d)
      BY <2>5 DEF Known, Settled
    <3>5. SettledThrough(last[p])'
      BY <2>5, <3>0, <3>2, <3>3 DEF Known, SettledThrough, Accounted, InWindow
    <3>6. Accounted(p)'
      BY <3>0, <3>2, <3>3, <3>4, <3>5 DEF Accounted, InWindow, Ingesting, Held
    <3> QED
      BY <1>a, <1>d, <2>5, <3>1, <3>2, <3>6 DEF Known, PollType, history
  <2>6. CASE Check(p)
    <3>0. Accounted(p)
      BY <1>a, <2>6 DEF Check, Busy
    <3>1. PollType'
      BY <1>a, <2>6 DEF Check, PollType, Point
    <3>2. /\ pc'[p] = "create" /\ pc[p] = "check"
          /\ UNCHANGED <<last, to, todo, dp, heldFailure>>
      BY <1>a, <2>6 DEF Check, PollType
    <3>3. \A d \in Pools : Settled(d)' = Settled(d)
      BY <2>6 DEF Check, Settled, HasRow, history
    <3>4. SettledThrough(last[p])'
      BY <2>6, <3>0, <3>2, <3>3 DEF Check, SettledThrough, Accounted, InWindow
    <3>5. Accounted(p)'
      BY <3>0, <3>2, <3>3, <3>4 DEF Accounted, InWindow, Ingesting, Held
    <3> QED
      BY <1>a, <1>d, <2>6, <3>1, <3>2, <3>5 DEF Check, PollType, history
  <2>7. CASE CreateLaunch(p)
    <3>0. Accounted(p)
      BY <1>a, <2>7 DEF CreateLaunch, Busy
    <3>1. PollType'
      BY <1>a, <2>7 DEF CreateLaunch, PollType, poll, Point
    <3>2. /\ pc'[p] = "enqueue" /\ pc[p] = "create"
          /\ UNCHANGED <<last, to, todo, dp, heldFailure, abandoned, base>>
          /\ launch \subseteq launch'
      BY <1>a, <2>7 DEF CreateLaunch, PollType, poll, history
    <3>3. \A d \in Pools : Settled(d) => Settled(d)'
      BY <3>2, SettledKept
    <3>4. SettledThrough(last[p])'
      BY <3>0, <3>2, <3>3 DEF SettledThrough, Accounted, InWindow
    <3>5. \A d \in dp[p] : HasRow(tokenOf[d])'
      <4>1. ASSUME NEW d \in dp[p] PROVE HasRow(tokenOf[d])'
        <5>1. [pool |-> d, quotaExceeded |-> over[p]] \in launch'
          BY <2>7 DEF CreateLaunch
        <5> QED
          BY <5>1 DEF HasRow
      <4> QED
        BY <4>1
    <3>6. Accounted(p)'
      BY <3>0, <3>2, <3>3, <3>4, <3>5 DEF Accounted, InWindow, Ingesting, Held
    <3> QED
      BY <1>a, <1>d, <2>7, <3>1, <3>2, <3>6 DEF CreateLaunch, PollType
  <2>8. CASE EnqueueT10(p)
    <3>0. Accounted(p)
      BY <1>a, <2>8 DEF EnqueueT10, Busy
    <3>1. PollType'
      BY <1>a, <2>8 DEF EnqueueT10, PollType, poll, Point
    <3>2. /\ pc'[p] = "ingest" /\ pc[p] = "enqueue"
          /\ UNCHANGED <<last, to, todo, dp, heldFailure>>
      BY <1>a, <2>8 DEF EnqueueT10, PollType, poll
    <3>3. \A d \in Pools : Settled(d)' = Settled(d)
      BY <2>8 DEF EnqueueT10, Settled, HasRow, history
    <3>4. \A d \in dp[p] : Settled(d)
      BY <3>0, <3>2 DEF Accounted, InWindow, Settled
    <3>5. SettledThrough(last[p])'
      BY <2>8, <3>0, <3>2, <3>3 DEF EnqueueT10, SettledThrough, Accounted, InWindow
    <3>6. Accounted(p)'
      BY <3>0, <3>2, <3>3, <3>4, <3>5 DEF Accounted, InWindow, Ingesting, Held
    <3> QED
      BY <1>a, <1>d, <2>8, <3>1, <3>2, <3>6 DEF EnqueueT10, PollType, history
  <2>9. CASE IngestFails(p)
    <3>0. Accounted(p) /\ Ingesting(p)
      BY <1>a, <2>9 DEF IngestFails, Busy, Ingesting
    <3>1. PICK d \in Pools : dp[p] = {d} /\ InWindow(p, d)
      BY <3>0 DEF Accounted, InWindow
    <3> DEFINE hold == ~(blockOf[d] <= abandonThrough[p])
                         /\ (heldFailure[p] = 0 \/ blockOf[d] < heldFailure[p])
    <3>2. heldFailure' = IF hold THEN [heldFailure EXCEPT ![p] = blockOf[d]] ELSE heldFailure
      <4>1. {e \in dp[p] : blockOf[e] <= abandonThrough[p]} =
               IF blockOf[d] <= abandonThrough[p] THEN {d} ELSE {}
        BY <3>1
      <4>2. {e \in dp[p] \ {e \in dp[p] : blockOf[e] <= abandonThrough[p]} :
                heldFailure[p] = 0 \/ blockOf[e] < heldFailure[p]} = IF hold THEN {d} ELSE {}
        BY <3>1, <4>1
      <4>3. (CHOOSE e \in {d} : TRUE) = d
        OBVIOUS
      <4> QED
        BY <2>9, <4>2, <4>3 DEF IngestFails
    <3>3. /\ abandoned' = abandoned \union {e \in dp[p] : blockOf[e] <= abandonThrough[p]}
          /\ UNCHANGED <<last, to, todo, dp, launch, base, cursor, head>>
          /\ pc' = [pc EXCEPT ![p] = "ingest"]
      BY <2>9 DEF IngestFails
    <3>4. PollType'
      BY <1>a, <3>2, <3>3 DEF PollType, Point
    <3>5. \A e \in Pools : Settled(e) => Settled(e)'
      BY <3>3, SettledKept
    <3>6. SettledThrough(last[p])'
      BY <3>0, <3>3, <3>5 DEF SettledThrough, Accounted, InWindow
    <3>7. pc'[p] = "ingest" /\ heldFailure'[p] = IF hold THEN blockOf[d] ELSE heldFailure[p]
      BY <1>a, <3>2, <3>3 DEF PollType
    <3>8. Settled(d)' \/ Held(p, d)'
      BY <1>a, <3>1, <3>3, <3>7 DEF Settled, Held, PollType
    <3>9. \A e \in Pools : Held(p, e) => Held(p, e)'
      BY <1>a, <3>7 DEF Held, PollType
    <3>10. heldFailure'[p] # 0 => last'[p] < heldFailure'[p] /\ heldFailure'[p] <= to'[p]
      BY <3>0, <3>1, <3>3, <3>7 DEF Accounted, InWindow
    <3>11. ASSUME NEW e \in Pools, InWindow(p, e)'
           PROVE  e \in todo'[p] \/ Settled(e)' \/ Held(p, e)'
      BY <3>0, <3>1, <3>3, <3>5, <3>8, <3>9, <3>11 DEF Accounted, InWindow
    <3>12. Accounted(p)'
      BY <3>0, <3>3, <3>6, <3>7, <3>10, <3>11 DEF Accounted, InWindow, Ingesting
    <3> HIDE DEF hold
    <3>13. \A q \in Procs \ {p} : heldFailure'[q] = heldFailure[q]
      BY <1>a, <3>2 DEF PollType
    <3> QED
      BY <1>a, <1>d, <3>3, <3>4, <3>12, <3>13 DEF PollType
  <2>10. CASE SaveCursor(p)
    <3>0. Accounted(p)
      BY <1>a, <2>10 DEF SaveCursor, Busy
    <3>1. nextCursor(p) \in Nat /\ last[p] \in Nat /\ to[p] \in Nat
      BY <1>a, <3>0 DEF nextCursor, PollType, Accounted, InWindow
    <3>2. PICK x \in {"idle", "after"} : pc' = [pc EXCEPT ![p] = x]
      BY <2>10 DEF SaveCursor, Return
    <3>3. PollType'
      BY <1>a, <2>10, <3>1, <3>2 DEF SaveCursor, PollType, Point
    <3>4. SettledThrough(nextCursor(p))
      BY <1>a, <2>10, <3>0 DEF SaveCursor, SettledThrough, Accounted, InWindow, nextCursor,
         Held, Ingesting, PollType
    <3>5. NoSilentSkip'
      BY <2>10, <3>4 DEF SaveCursor, NoSilentSkip, SettledThrough, Settled, HasRow,
         history
    <3> QED
      BY <1>a, <1>c, <2>10, <3>2, <3>3, <3>5 DEF SaveCursor, history, Point, PollType
  <2>11. CASE ReplayTarget(p)
    <3>1. PollType' /\ NoSilentSkip'
      BY <1>a, <2>11 DEF ReplayTarget, PollType, NoSilentSkip, SettledThrough, Settled,
         HasRow, poll, history, Point
    <3> QED
      BY <1>c, <2>11, <3>1 DEF ReplayTarget, poll, history, Point
  <2>12. CASE ReplayLoop(p)
    <3>1. PICK x \in {"done", "head"} : pc' = [pc EXCEPT ![p] = x]
      BY <2>12 DEF ReplayLoop
    <3>2. PollType' /\ NoSilentSkip'
      BY <1>a, <2>12, <3>1 DEF ReplayLoop, PollType, NoSilentSkip, SettledThrough,
         Settled, HasRow, history, Point
    <3> QED
      BY <1>a, <1>c, <2>12, <3>1, <3>2 DEF ReplayLoop, history, Point, PollType
  <2> QED
    BY <1>6, <2>1, <2>2, <2>3, <2>4, <2>5, <2>6, <2>7, <2>8, <2>9, <2>10, <2>11, <2>12
       DEF PollStep, IngestCannot, IngestMisses
<1>7. ASSUME NEW p \in Procs, PollError(p) \/ CrashReplay(p) PROVE SkipInv'
  <2>1. PICK x \in {"idle", "exited"} : pc' = [pc EXCEPT ![p] = x]
    BY <1>7 DEF PollError, CrashReplay
  <2>2. PollType' /\ NoSilentSkip'
    BY <1>a, <1>7, <2>1 DEF PollError, CrashReplay, PollType, NoSilentSkip,
       SettledThrough, Settled, HasRow, poll, history, Point
  <2> QED
    BY <1>c, <1>7, <2>1, <2>2 DEF PollError, CrashReplay, poll, history, Point
<1>8. CASE UNCHANGED vars
  BY <1>a, <1>b, <1>8 DEF vars, poll, PollType
<1> QED
  BY <1>1, <1>2, <1>3, <1>4, <1>5, <1>6, <1>7, <1>8 DEF Next

\* The inductive invariant holds in every reachable state.
THEOREM SkipInvariant == Spec => []SkipInv
BY InitSkip, SkipNext, PTL DEF Spec

\* However many processes poll, fail, crash and replay, every pool the stored
\* cursor has passed is indexed, no launch, or abandoned in the log
\* (pollOnce, setCursor).
THEOREM NothingSkippedSilently == Spec => []NoSilentSkip
<1>1. SkipInv => NoSilentSkip
  BY DEF SkipInv
<1> QED
  BY <1>1, SkipInvariant, PTL

-----------------------------------------------------------------------------

\* With a single poller, the cursor stays where its poll read it.
OwnCursor == Busy(Live) => cursor = last[Live]

\* No step of a lone poller moves the cursor under its own poll, and
\* setCursor never moves it back.
LEMMA OwnCursorNext ==
    ASSUME Procs = {Live}, SkipInv, OwnCursor, [Next]_vars
    PROVE  OwnCursor' /\ cursor' >= cursor
<1> USE WatcherAssumption
<1>a. PollType /\ (Busy(Live) => Accounted(Live))
  BY DEF SkipInv
<1>1. CASE UNCHANGED <<cursor, last, pc>>
  BY <1>a, <1>1 DEF OwnCursor, Busy, PollType
<1>2. CASE Detect(Live)
  BY <1>a, <1>2 DEF Detect, OwnCursor, PollType
<1>3. CASE SaveCursor(Live)
  <2>1. Accounted(Live) /\ cursor = last[Live]
    BY <1>a, <1>3 DEF SaveCursor, Busy, OwnCursor
  <2>2. nextCursor(Live) >= last[Live]
    BY <1>a, <2>1 DEF nextCursor, Accounted, PollType
  <2>3. pc'[Live] = "idle"
    BY <1>a, <1>3 DEF SaveCursor, Return, PollType
  <2> QED
    BY <1>3, <2>1, <2>2, <2>3 DEF SaveCursor, OwnCursor, Busy
<1>4. CASE NothingNew(Live)
  BY <1>a, <1>4 DEF NothingNew, Return, OwnCursor, Busy, PollType
<1>5. CASE /\ UNCHANGED <<cursor, last>>
           /\ \/ Busy(Live)
              \/ \E x \in {"idle", "head", "read", "done", "exited"} : pc'[Live] = x
  BY <1>a, <1>5 DEF OwnCursor, Busy, PollType
<1>6. ASSUME NEW p \in Procs, PollStep(p) \/ IngestMisses(p) \/ PollError(p)
      PROVE  OwnCursor' /\ cursor' >= cursor
  <2>1. p = Live
    OBVIOUS
  <2>2. CASE \/ NextPool(p) \/ Known(p) \/ Check(p) \/ CreateLaunch(p)
             \/ EnqueueT10(p) \/ IngestFails(p)
    <3>1. UNCHANGED <<cursor, last>> /\ Busy(Live)
      BY <2>1, <2>2 DEF NextPool, Known, Check, CreateLaunch, EnqueueT10,
         IngestFails, poll, Busy
    <3> QED
      BY <1>5, <3>1
  <2>3. CASE ReadHead(p) \/ ReplayTarget(p) \/ ReplayLoop(p) \/ PollError(p)
    <3>1. UNCHANGED <<cursor, last>>
      BY <2>3 DEF ReadHead, ReplayTarget, ReplayLoop, PollError, poll
    <3>2. \E x \in {"idle", "head", "read", "done", "exited"} : pc'[Live] = x
      BY <1>a, <2>1, <2>3 DEF ReadHead, ReplayTarget, ReplayLoop, PollError, PollType
    <3> QED
      BY <1>5, <3>1, <3>2
  <2> QED
    BY <1>2, <1>3, <1>4, <1>6, <2>1, <2>2, <2>3
       DEF PollStep, IngestCannot, IngestMisses
<1>7. CASE StartPoll \/ CrashWorker
  <2>1. UNCHANGED <<cursor, last>>
    BY <1>7 DEF StartPoll, CrashWorker, poll
  <2>2. \E x \in {"idle", "head", "read", "done", "exited"} : pc'[Live] = x
    BY <1>a, <1>7 DEF StartPoll, CrashWorker, PollType
  <2> QED
    BY <1>5, <2>1, <2>2
<1>8. ASSUME NEW p \in Procs PROVE ~CrashReplay(p) /\ \A f \in 1..MaxBlock : ~StartReplay(p, f)
  BY DEF CrashReplay, StartReplay
<1>9. CASE NewBlock
  BY <1>1, <1>9 DEF NewBlock, poll
<1>10. ASSUME NEW t \in Tokens,
              T10Step(t) \/ T10Partial(t) \/ T10Fails(t) \/ T10ReportFails(t)
       PROVE  OwnCursor' /\ cursor' >= cursor
  BY <1>1, <1>10 DEF T10Step, T10Features, T10Report, T10Ends, T10Partial, T10Fails,
     T10ReportFails, poll
<1>11. CASE UNCHANGED vars
  BY <1>1, <1>11 DEF vars
<1> QED
  BY <1>6, <1>7, <1>8, <1>9, <1>10, <1>11 DEF Next

\* A poller that runs alone never moves the stored cursor back (setCursor in
\* pollOnce, held before the earliest failure).
THEOREM LonePollerMonotone ==
    ASSUME Procs = {Live}
    PROVE  Spec => CursorMonotone
<1>1. Init => OwnCursor
  BY WatcherAssumption DEF Init, OwnCursor, Busy
<1>2. SkipInv /\ OwnCursor /\ [Next]_vars => OwnCursor' /\ [cursor' >= cursor]_cursor
  BY OwnCursorNext
<1> QED
  BY <1>1, <1>2, SkipInvariant, PTL DEF Spec, CursorMonotone

-----------------------------------------------------------------------------
(***************************************************************************)
(* The escape hatch of a lone poller.                                      *)
(***************************************************************************)

HatchType ==
    /\ stuckPolls \in 0..StuckLimit
    /\ misses \in [1..MaxBlock -> 0..StuckLimit]
    /\ abandonThrough \in [Procs -> Nat]

\* The block behind the cursor has failed in at least n polls.
Missed(n) == n > 0 => cursor + 1 \in 1..MaxBlock /\ n <= misses[cursor + 1]

\* A poll of the worker is under way.
Polling == pc[Live] \in {"head", "read", "ingest", "check", "create", "enqueue"}

\* The stuck polls are failures of the block that holds the cursor, and an
\* open hatch reaches one window behind that cursor.
HatchInv ==
    /\ SkipInv
    /\ HatchType
    /\ OwnCursor
    /\ Missed(stuckPolls)
    /\ Polling /\ abandonThrough[Live] # 0 =>
          abandonThrough[Live] = cursor + MaxSpan[Live] /\ Missed(StuckLimit)
    /\ Busy(Live) /\ heldFailure[Live] = cursor + 1 => Missed(Least(stuckPolls + 1, StuckLimit))
    /\ Busy(Live) => last[Live] < to[Live]
    /\ pc[Live] \notin {"rewound", "after"}
    /\ AbandonedOnlyWhenStuck

\* Steps that leave the cursor, the hatch and the failures alone.
LEMMA HatchKept ==
    ASSUME HatchInv, SkipInv', OwnCursor',
           UNCHANGED <<cursor, abandonThrough, stuckPolls, abandoned, misses>>,
           Polling' => Polling,
           Busy(Live)' /\ heldFailure'[Live] # 0 =>
             Busy(Live) /\ heldFailure'[Live] = heldFailure[Live],
           Busy(Live)' => last'[Live] < to'[Live],
           pc'[Live] \notin {"rewound", "after"}
    PROVE  HatchInv'
<1> USE WatcherAssumption
<1>1. HatchType' /\ AbandonedOnlyWhenStuck' /\ \A n \in Nat : Missed(n) => Missed(n)'
  BY DEF HatchInv, HatchType, AbandonedOnlyWhenStuck, Missed
<1>2. /\ stuckPolls \in Nat /\ StuckLimit \in Nat
      /\ Least(stuckPolls + 1, StuckLimit) \in Nat /\ cursor \in Nat
  BY DEF HatchInv, HatchType, Least, SkipInv, PollType
<1>3. Missed(stuckPolls)'
  BY <1>1, <1>2 DEF HatchInv, Missed
<1>4. Polling' /\ abandonThrough'[Live] # 0 =>
         abandonThrough'[Live] = cursor' + MaxSpan[Live] /\ Missed(StuckLimit)'
  BY <1>1, <1>2 DEF HatchInv
<1>5. Busy(Live)' /\ heldFailure'[Live] = cursor' + 1 => Missed(Least(stuckPolls + 1, StuckLimit))'
  <2> SUFFICES ASSUME Busy(Live)', heldFailure'[Live] = cursor' + 1
               PROVE  Missed(Least(stuckPolls + 1, StuckLimit))'
    OBVIOUS
  <2>1. Missed(Least(stuckPolls + 1, StuckLimit))
    BY <1>2 DEF HatchInv
  <2> QED
    BY <2>1 DEF Missed, Least
<1> QED
  BY <1>1, <1>3, <1>4, <1>5 DEF HatchInv

\* A failed ingest counts against its block; the hatch lets go of it only
\* when the block that holds the cursor has failed often enough.
LEMMA HatchFails ==
    ASSUME Procs = {Live}, HatchInv, SkipInv', OwnCursor', IngestFails(Live)
    PROVE  HatchInv'
<1> USE WatcherAssumption
<1>1. PollType /\ Accounted(Live) /\ Ingesting(Live) /\ cursor = last[Live]
  BY DEF HatchInv, SkipInv, IngestFails, Busy, Ingesting, OwnCursor
<1>2. PICK d \in Pools : dp[Live] = {d} /\ last[Live] < blockOf[d] /\ blockOf[d] <= to[Live]
  BY <1>1 DEF Accounted, InWindow
<1>3. HatchType
  BY DEF HatchInv
<1>4. /\ pc' = [pc EXCEPT ![Live] = "ingest"]
      /\ UNCHANGED <<cursor, abandonThrough, stuckPolls>>
      /\ misses' = [b \in 1..MaxBlock |-> IF b = blockOf[d]
                      THEN Least(misses[b] + 1, StuckLimit) ELSE misses[b]]
      /\ abandoned' = abandoned \union {e \in {d} : blockOf[e] <= abandonThrough[Live]}
  BY <1>2 DEF IngestFails
<1>5. heldFailure'[Live] = heldFailure[Live] \/ heldFailure'[Live] = blockOf[d]
  <2> DEFINE held == {e \in dp[Live] \ {e \in dp[Live] : blockOf[e] <= abandonThrough[Live]} :
                        heldFailure[Live] = 0 \/ blockOf[e] < heldFailure[Live]}
  <2>1. held \subseteq {d}
    BY <1>2
  <2>2. heldFailure' = IF held = {} THEN heldFailure
                       ELSE [heldFailure EXCEPT ![Live] = blockOf[CHOOSE e \in held : TRUE]]
    BY DEF IngestFails
  <2> HIDE DEF held
  <2>3. held # {} => (CHOOSE e \in held : TRUE) = d
    BY <2>1
  <2> QED
    BY <1>1, <2>2, <2>3 DEF PollType
<1>6. /\ misses' \in [1..MaxBlock -> 0..StuckLimit]
      /\ \A b \in 1..MaxBlock : misses[b] <= misses'[b]
      /\ misses'[blockOf[d]] >= Least(misses[blockOf[d]] + 1, StuckLimit)
  <2>1. ASSUME NEW n \in 0..StuckLimit
        PROVE  Least(n + 1, StuckLimit) \in 0..StuckLimit /\ n <= Least(n + 1, StuckLimit)
    BY DEF Least
  <2>2. ASSUME NEW b \in 1..MaxBlock
        PROVE  /\ misses'[b] \in 0..StuckLimit /\ misses[b] <= misses'[b]
               /\ b = blockOf[d] => misses'[b] = Least(misses[b] + 1, StuckLimit)
    <3>1. misses[b] \in 0..StuckLimit
      BY <1>3 DEF HatchType
    <3>2. misses'[b] = IF b = blockOf[d] THEN Least(misses[b] + 1, StuckLimit) ELSE misses[b]
      BY <1>4
    <3> QED
      BY <2>1, <3>1, <3>2
  <2>3. misses' \in [1..MaxBlock -> 0..StuckLimit]
    BY <1>4, <2>2
  <2>4. blockOf[d] \in 1..MaxBlock /\ Least(misses[blockOf[d]] + 1, StuckLimit) \in Nat
    BY <1>3 DEF HatchType, Least
  <2> QED
    BY <2>2, <2>3, <2>4
<1>7. \A n \in Nat : Missed(n) /\ n > 0 =>
         cursor + 1 \in 1..MaxBlock /\ n <= misses'[cursor + 1]
  BY <1>3, <1>6 DEF Missed, HatchType
<1>8. /\ stuckPolls \in Nat /\ StuckLimit \in Nat /\ cursor \in Nat
      /\ blockOf[d] \in 1..MaxBlock /\ blockOf[d] \in Nat
  BY <1>1, <1>3 DEF HatchType, PollType
<1>9. HatchType'
  BY <1>3, <1>4, <1>6 DEF HatchType
<1>10. Missed(stuckPolls)'
  BY <1>4, <1>7, <1>8 DEF HatchInv, Missed
<1>11. abandonThrough[Live] # 0 =>
          abandonThrough[Live] = cursor + MaxSpan[Live] /\ Missed(StuckLimit)
  BY <1>1 DEF HatchInv, Polling, Ingesting
<1>12. abandonThrough[Live] # 0 => cursor + 1 \in 1..MaxBlock /\ misses'[cursor + 1] = StuckLimit
  BY <1>6, <1>7, <1>8, <1>11
<1>13. Polling' /\ abandonThrough'[Live] # 0 =>
          abandonThrough'[Live] = cursor' + MaxSpan[Live] /\ Missed(StuckLimit)'
  BY <1>4, <1>8, <1>11, <1>12 DEF Missed
<1>14. heldFailure'[Live] = cursor + 1 =>
          /\ cursor + 1 \in 1..MaxBlock
          /\ Least(stuckPolls + 1, StuckLimit) <= misses'[cursor + 1]
  <2> SUFFICES ASSUME heldFailure'[Live] = cursor + 1
               PROVE  /\ cursor + 1 \in 1..MaxBlock
                      /\ Least(stuckPolls + 1, StuckLimit) <= misses'[cursor + 1]
    OBVIOUS
  <2>1. CASE heldFailure[Live] = cursor + 1
    <3>1. Missed(Least(stuckPolls + 1, StuckLimit))
      BY <1>1, <2>1 DEF HatchInv, Busy, Ingesting
    <3>2. Least(stuckPolls + 1, StuckLimit) \in Nat \ {0}
      BY <1>8 DEF Least
    <3> QED
      BY <1>7, <3>1, <3>2
  <2>2. CASE blockOf[d] = cursor + 1
    <3>1. stuckPolls <= misses[blockOf[d]]
      BY <1>3, <1>8, <2>2 DEF HatchInv, Missed, HatchType
    <3>2. misses[blockOf[d]] \in Nat /\ misses'[blockOf[d]] \in Nat
      BY <1>3, <1>6, <1>8 DEF HatchType
    <3> QED
      BY <1>6, <1>8, <2>2, <3>1, <3>2 DEF Least
  <2> QED
    BY <1>5, <2>1, <2>2
<1>15. Busy(Live)' /\ heldFailure'[Live] = cursor' + 1 =>
          Missed(Least(stuckPolls + 1, StuckLimit))'
  BY <1>4, <1>14 DEF Missed
<1>16. AbandonedOnlyWhenStuck'
  <2> SUFFICES ASSUME NEW e \in abandoned'
               PROVE  \E b \in 1..MaxBlock : /\ b <= blockOf[e] /\ blockOf[e] < b + MaxSpan[Live]
                                             /\ misses'[b] = StuckLimit
    BY DEF AbandonedOnlyWhenStuck
  <2>1. CASE e \in abandoned
    <3>1. PICK b \in 1..MaxBlock : /\ b <= blockOf[e] /\ blockOf[e] < b + MaxSpan[Live]
                                   /\ misses[b] = StuckLimit
      BY <2>1 DEF HatchInv, AbandonedOnlyWhenStuck
    <3>2. misses'[b] = StuckLimit
      BY <1>6, <1>8, <3>1
    <3> QED
      BY <3>1, <3>2
  <2>2. CASE e = d /\ blockOf[d] <= abandonThrough[Live]
    <3>1. abandonThrough[Live] # 0
      BY <1>8, <2>2
    <3>2. /\ cursor + 1 <= blockOf[d] /\ blockOf[d] < (cursor + 1) + MaxSpan[Live]
      BY <1>1, <1>2, <1>8, <1>11, <2>2, <3>1
    <3> QED
      BY <1>12, <2>2, <3>1, <3>2
  <2> QED
    BY <1>4, <2>1, <2>2
<1>17. Busy(Live)' => last'[Live] < to'[Live]
  BY <1>1 DEF HatchInv, IngestFails, Busy, Ingesting
<1>18. pc'[Live] = "ingest"
  BY <1>1, <1>4 DEF PollType
<1> QED
  BY <1>9, <1>10, <1>13, <1>15, <1>16, <1>17, <1>18 DEF HatchInv

\* A poll that ends moves the cursor, or leaves it before a block that failed.
LEMMA HatchSaves ==
    ASSUME Procs = {Live}, HatchInv, SkipInv', OwnCursor', SaveCursor(Live)
    PROVE  HatchInv'
<1> USE WatcherAssumption
<1>1. /\ PollType /\ Accounted(Live) /\ HatchType
      /\ cursor = last[Live] /\ last[Live] < to[Live]
  BY DEF HatchInv, SkipInv, SaveCursor, Busy, OwnCursor
<1>2. /\ cursor' = nextCursor(Live) /\ stuckPolls' = Stuck(Live)
      /\ UNCHANGED <<abandonThrough, abandoned, misses>>
      /\ pc' = [pc EXCEPT ![Live] = "idle"]
  BY DEF SaveCursor, Return, history
<1>3. /\ stuckPolls \in Nat /\ StuckLimit \in Nat /\ cursor \in Nat
      /\ heldFailure[Live] \in Nat /\ to[Live] \in Nat /\ last[Live] \in Nat
  BY <1>1 DEF HatchType, PollType
<1>4. stuckPolls' \in 0..StuckLimit
  BY <1>1, <1>2, <1>3 DEF Stuck, Least, HatchType
<1>5. Missed(stuckPolls)'
  <2>1. CASE nextCursor(Live) > last[Live]
    BY <1>2, <2>1 DEF Stuck, Missed
  <2>2. CASE ~(nextCursor(Live) > last[Live])
    <3>1. heldFailure[Live] = cursor + 1 /\ nextCursor(Live) = cursor
      BY <1>1, <1>3, <2>2 DEF nextCursor, Accounted
    <3>2. Missed(Least(stuckPolls + 1, StuckLimit))
      BY <3>1 DEF HatchInv, SaveCursor, Busy
    <3>3. /\ cursor + 1 \in 1..MaxBlock /\ misses[cursor + 1] \in Nat
          /\ Least(stuckPolls + 1, StuckLimit) <= misses[cursor + 1]
      <4>1. Least(stuckPolls + 1, StuckLimit) > 0
        BY <1>3 DEF Least
      <4>2. cursor + 1 \in 1..MaxBlock /\ Least(stuckPolls + 1, StuckLimit) <= misses[cursor + 1]
        BY <3>2, <4>1 DEF Missed
      <4> QED
        BY <1>1, <4>2 DEF HatchType
    <3>4. stuckPolls' <= Least(stuckPolls + 1, StuckLimit)
      BY <1>1, <1>2, <1>3, <2>2 DEF Stuck, Least, HatchType
    <3>5. stuckPolls' <= misses[cursor + 1]
      BY <1>3, <1>4, <3>3, <3>4 DEF Least
    <3> QED
      BY <1>2, <3>1, <3>3, <3>5 DEF Missed
  <2> QED
    BY <2>1, <2>2
<1>6. ~Polling' /\ ~Busy(Live)' /\ pc'[Live] = "idle"
  BY <1>1, <1>2 DEF Polling, Busy, PollType
<1> QED
  BY <1>1, <1>2, <1>4, <1>5, <1>6 DEF HatchInv, HatchType, AbandonedOnlyWhenStuck

\* runPoller opens the hatch only when the block behind the cursor has failed
\* in StuckLimit polls.
LEMMA HatchOpens ==
    ASSUME Procs = {Live}, HatchInv, SkipInv', OwnCursor', StartPoll
    PROVE  HatchInv'
<1> USE WatcherAssumption
<1>1. PollType /\ HatchType /\ Missed(stuckPolls)
  BY DEF HatchInv, SkipInv
<1>2. /\ UNCHANGED <<cursor, stuckPolls, abandoned, misses>>
      /\ pc' = [pc EXCEPT ![Live] = "head"]
      /\ abandonThrough' = [abandonThrough EXCEPT ![Live] =
            IF stuckPolls >= StuckLimit THEN cursor + MaxSpan[Live] ELSE 0]
  BY DEF StartPoll, history
<1>3. stuckPolls \in 0..StuckLimit /\ StuckLimit \in Nat /\ cursor \in Nat
  BY <1>1 DEF HatchType, PollType
<1>4. abandonThrough'[Live] # 0 =>
         abandonThrough'[Live] = cursor + MaxSpan[Live] /\ Missed(StuckLimit)
  <2>1. stuckPolls >= StuckLimit => stuckPolls = StuckLimit
    BY <1>3
  <2> QED
    BY <1>1, <1>2, <2>1 DEF HatchType
<1>5. ~Busy(Live)' /\ pc'[Live] = "head"
  BY <1>1, <1>2 DEF Busy, PollType
<1>6. HatchType'
  BY <1>1, <1>2, <1>3 DEF HatchType
<1>7. Missed(stuckPolls)' /\ (Missed(StuckLimit) => Missed(StuckLimit)')
  BY <1>1, <1>2 DEF Missed
<1> QED
  BY <1>2, <1>4, <1>5, <1>6, <1>7 DEF HatchInv, AbandonedOnlyWhenStuck

\* Every step of a lone poller keeps the hatch honest.
LEMMA HatchNext ==
    ASSUME Procs = {Live}, HatchInv, [Next]_vars
    PROVE  HatchInv'
<1> USE WatcherAssumption
<1>1. SkipInv' /\ OwnCursor'
  BY SkipNext, OwnCursorNext DEF HatchInv
<1>2. /\ PollType /\ (Busy(Live) => last[Live] < to[Live])
      /\ pc[Live] \notin {"rewound", "after"}
  BY DEF HatchInv, SkipInv
<1>3. ASSUME UNCHANGED <<cursor, pc, poll, abandonThrough, stuckPolls, abandoned, misses>>
      PROVE  HatchInv'
  BY <1>1, <1>2, <1>3, HatchKept DEF poll, Polling, Busy
<1>4. CASE NewBlock \/ UNCHANGED vars
  BY <1>3, <1>4 DEF NewBlock, vars, poll, history
<1>5. ASSUME NEW t \in Tokens, T10Step(t) \/ T10Partial(t) \/ T10Fails(t) \/ T10ReportFails(t)
      PROVE  HatchInv'
  BY <1>3, <1>5 DEF T10Step, T10Features, T10Report, T10Ends, T10Partial, T10Fails,
     T10ReportFails, history
<1>6. CASE StartPoll
  BY <1>1, <1>6, HatchOpens
<1>7. CASE CrashWorker
  <2>1. /\ UNCHANGED <<cursor, abandonThrough, abandoned, misses>> /\ stuckPolls' = 0
        /\ pc' = [pc EXCEPT ![Live] = "idle"]
    BY <1>7 DEF CrashWorker, history
  <2>2. ~Polling' /\ ~Busy(Live)' /\ pc'[Live] = "idle"
    BY <1>2, <2>1 DEF Polling, Busy, PollType
  <2>3. HatchType' /\ Missed(stuckPolls)' /\ AbandonedOnlyWhenStuck'
    BY <2>1 DEF HatchInv, HatchType, Missed, AbandonedOnlyWhenStuck
  <2> QED
    BY <1>1, <2>2, <2>3 DEF HatchInv
<1>8. ASSUME NEW p \in Procs, PollStep(p) \/ IngestMisses(p) \/ PollError(p)
      PROVE  HatchInv'
  <2>1. p = Live
    OBVIOUS
  <2>2. CASE NextPool(p) \/ Known(p) \/ Check(p) \/ CreateLaunch(p) \/ EnqueueT10(p)
    <3>1. /\ UNCHANGED <<cursor, abandonThrough, stuckPolls, abandoned, misses,
                         last, to, heldFailure>>
          /\ Busy(Live)
          /\ pc'[Live] \notin {"rewound", "after"}
      BY <1>2, <2>1, <2>2
         DEF NextPool, Known, Check, CreateLaunch, EnqueueT10, poll, history, Busy, PollType
    <3> QED
      BY <1>1, <1>2, <3>1, HatchKept DEF Polling, Busy
  <2>3. CASE IngestFails(p)
    BY <1>1, <2>1, <2>3, HatchFails
  <2>4. CASE SaveCursor(p)
    BY <1>1, <2>1, <2>4, HatchSaves
  <2>5. CASE Detect(p)
    <3>1. /\ UNCHANGED <<cursor, abandonThrough, stuckPolls, abandoned, misses>>
          /\ Polling /\ heldFailure'[Live] = 0 /\ last'[Live] = cursor
          /\ to'[Live] = Least(cursor + MaxSpan[Live], to[Live]) /\ cursor < to[Live]
          /\ pc'[Live] = "ingest"
      BY <1>2, <2>1, <2>5 DEF Detect, history, Polling, PollType
    <3>2. last'[Live] < to'[Live]
      BY <1>2, <3>1 DEF Least, PollType
    <3> QED
      BY <1>1, <3>1, <3>2, HatchKept
  <2>6. CASE ReadHead(p)
    <3>1. /\ UNCHANGED <<cursor, abandonThrough, stuckPolls, abandoned, misses>>
          /\ Polling /\ pc'[Live] = "read"
      BY <1>2, <2>1, <2>6 DEF ReadHead, history, Polling, PollType
    <3> QED
      BY <1>1, <3>1, HatchKept DEF Busy
  <2>7. CASE NothingNew(p) \/ ReplayLoop(p) \/ ReplayTarget(p) \/ PollError(p)
    <3>1. CASE pc'[Live] = "idle"
      <4>1. UNCHANGED <<cursor, abandonThrough, stuckPolls, abandoned, misses>>
        BY <2>7 DEF NothingNew, ReplayLoop, ReplayTarget, PollError, history
      <4> QED
        BY <1>1, <3>1, <4>1, HatchKept DEF Busy, Polling
    <3>2. CASE NothingNew(p) \/ PollError(p)
      BY <1>2, <2>1, <3>1, <3>2 DEF NothingNew, PollError, Return, PollType
    <3>3. ~ReplayLoop(p) /\ ~ReplayTarget(p)
      BY <1>2, <2>1 DEF ReplayLoop, ReplayTarget
    <3> QED
      BY <2>7, <3>2, <3>3
  <2> QED
    BY <1>8, <2>2, <2>3, <2>4, <2>5, <2>6, <2>7 DEF PollStep, IngestCannot, IngestMisses
<1>9. ASSUME NEW p \in Procs PROVE ~CrashReplay(p) /\ \A f \in 1..MaxBlock : ~StartReplay(p, f)
  BY DEF CrashReplay, StartReplay
<1> QED
  BY <1>4, <1>5, <1>6, <1>7, <1>8, <1>9 DEF Next

\* The escape hatch of runPoller opens for a wedged poller only: whatever
\* fails or crashes, a pool is given up only in a window whose first block has
\* failed in STUCK_POLLS_BEFORE_SKIP polls.
THEOREM HatchOnlyWhenStuck ==
    ASSUME Procs = {Live}
    PROVE  Spec => []AbandonedOnlyWhenStuck
<1>1. Init => HatchInv
  <2> SUFFICES ASSUME Init PROVE HatchInv
    OBVIOUS
  <2>1. SkipInv
    BY InitSkip
  <2>2. HatchType
    BY WatcherAssumption DEF Init, HatchType
  <2>3. stuckPolls = 0 /\ abandoned = {} /\ pc[Live] = "idle"
    BY WatcherAssumption DEF Init
  <2> QED
    BY <2>1, <2>2, <2>3
       DEF HatchInv, OwnCursor, Missed, Polling, Busy, AbandonedOnlyWhenStuck
<1>2. HatchInv /\ [Next]_vars => HatchInv'
  BY HatchNext
<1>3. HatchInv => AbandonedOnlyWhenStuck
  BY DEF HatchInv
<1> QED
  BY <1>1, <1>2, <1>3, PTL DEF Spec

-----------------------------------------------------------------------------

\* Every step keeps the types.
LEMMA TypeNext == TypeOK /\ [Next]_vars => TypeOK'
<1> SUFFICES ASSUME TypeOK, [Next]_vars PROVE TypeOK'
  OBVIOUS
<1> USE WatcherAssumption
<1>1. CASE NewBlock
  <2>1. head' \in 0..MaxBlock
    BY <1>1 DEF NewBlock, TypeOK
  <2> QED
    BY <1>1, <2>1 DEF NewBlock, TypeOK, lane, replay, poll, history
<1>2. CASE StartPoll
  <2>1. pc' \in [Procs -> Point] /\ abandonThrough' \in [Procs -> Nat]
    BY <1>2 DEF StartPoll, TypeOK, Point
  <2> QED
    BY <1>2, <2>1 DEF StartPoll, TypeOK, lane, replay, poll, history
<1>3. CASE CrashWorker
  <2>1. pc' \in [Procs -> Point]
    BY <1>3 DEF CrashWorker, TypeOK, Point
  <2>2. job' \in [Tokens -> {"none", "queued", "report", "ending", "gone"}]
    BY <1>3 DEF CrashWorker, TypeOK
  <2>3. faults' \in 0..MaxFaults /\ stuckPolls' \in 0..StuckLimit
    <3>1. faults < MaxFaults /\ faults' = faults + 1 /\ stuckPolls' = 0
      BY <1>3 DEF CrashWorker, Fault
    <3>2. faults \in Nat /\ MaxFaults \in Nat /\ StuckLimit \in Nat
      BY DEF TypeOK
    <3> QED
      BY <3>1, <3>2
  <2>4. UNCHANGED <<head, cursor, launch, t10, reports, replay, poll, abandonThrough,
                    base, history>>
    BY <1>3 DEF CrashWorker
  <2> QED
    BY <2>1, <2>2, <2>3, <2>4 DEF TypeOK, replay, poll, history
<1>4. ASSUME NEW t \in Tokens,
             T10Step(t) \/ T10Partial(t) \/ T10Fails(t) \/ T10ReportFails(t)
      PROVE  TypeOK'
  <2>1. /\ job' \in [Tokens -> {"none", "queued", "report", "ending", "gone"}]
        /\ t10' \in [Tokens -> {"null", "partial", "set"}]
        /\ reports' \subseteq Tokens
    BY <1>4 DEF T10Step, T10Features, T10Report, T10Ends, T10Partial, T10Fails, T10ReportFails,
       TypeOK
  <2>3. faults' \in 0..MaxFaults
    BY <1>4 DEF T10Step, T10Features, T10Report, T10Ends, T10Partial, T10Fails, T10ReportFails,
       Fault, TypeOK
  <2>2. UNCHANGED <<head, cursor, launch, pc, replay, poll, abandonThrough, stuckPolls,
                    base, history>>
    BY <1>4 DEF T10Step, T10Features, T10Report, T10Ends, T10Partial, T10Fails, T10ReportFails
  <2> QED
    BY <2>1, <2>2, <2>3 DEF TypeOK, replay, poll, history
<1>5. ASSUME NEW p \in Procs, NEW f \in 1..MaxBlock, StartReplay(p, f)
      PROVE  TypeOK'
  <2>1. /\ cursor' \in 0..MaxBlock /\ from' \in 0..MaxBlock
        /\ pc' \in [Procs -> Point]
    BY <1>5 DEF StartReplay, TypeOK, Point
  <2> QED
    BY <1>5, <2>1 DEF StartReplay, TypeOK, lane, poll, history
<1>6. ASSUME NEW p \in Procs, ReadHead(p) \/ ReplayTarget(p) \/ ReplayLoop(p)
      PROVE  TypeOK'
  <2>1. CASE ReadHead(p)
    <3>1. to' \in [Procs -> 0..MaxBlock] /\ pc' \in [Procs -> Point]
      BY <2>1 DEF ReadHead, TypeOK, Point
    <3> QED
      BY <2>1, <3>1 DEF ReadHead, TypeOK, lane, replay, history
  <2>2. CASE ReplayTarget(p)
    <3>1. target' \in 0..(MaxBlock + HeadLag) /\ pc' \in [Procs -> Point]
      BY <2>2 DEF ReplayTarget, TypeOK, Point
    <3> QED
      BY <2>2, <3>1 DEF ReplayTarget, TypeOK, lane, poll, history
  <2>3. CASE ReplayLoop(p)
    BY <2>3 DEF ReplayLoop, TypeOK, lane, replay, history, Point
  <2> QED
    BY <1>6, <2>1, <2>2, <2>3
<1>7. ASSUME NEW p \in Procs, PollError(p) \/ CrashReplay(p)
      PROVE  TypeOK'
  <2>1. pc' \in [Procs -> Point]
    <3>1. PICK x \in Point : pc' = [pc EXCEPT ![p] = x]
      BY <1>7 DEF PollError, CrashReplay, Point
    <3> QED
      BY <3>1 DEF TypeOK
  <2>2. faults' \in 0..MaxFaults
    <3>1. faults < MaxFaults /\ faults' = faults + 1
      BY <1>7 DEF PollError, CrashReplay, Fault
    <3>2. faults \in 0..MaxFaults
      BY DEF TypeOK
    <3> QED
      BY <3>1, <3>2
  <2> QED
    <3>1. UNCHANGED <<head, cursor, launch, lane, replay, poll, abandonThrough,
                      stuckPolls, base, history>>
      BY <1>7 DEF PollError, CrashReplay
    <3> QED
      BY <2>1, <2>2, <3>1 DEF TypeOK, lane, replay, poll, history
<1>8. ASSUME NEW p \in Procs, NothingNew(p) PROVE TypeOK'
  <2>1. last' \in [Procs -> 0..MaxBlock] /\ to' \in [Procs -> 0..MaxBlock]
    BY <1>8 DEF NothingNew, TypeOK
  <2>2. dp' \in [Procs -> SUBSET Pools]
    BY <1>8 DEF NothingNew, TypeOK
  <2>3. pc' \in [Procs -> Point]
    BY <1>8 DEF NothingNew, Return, TypeOK, Point
  <2>4. UNCHANGED <<head, cursor, launch, lane, replay, todo, over, heldFailure,
                    failed, abandonThrough, stuckPolls, base, history, faults>>
    BY <1>8 DEF NothingNew
  <2> QED
    BY <2>1, <2>2, <2>3, <2>4 DEF TypeOK, lane, replay, history
<1>9. ASSUME NEW p \in Procs, Detect(p) PROVE TypeOK'
  <2>1. /\ last' \in [Procs -> 0..MaxBlock] /\ to' \in [Procs -> 0..MaxBlock]
        /\ todo' \in [Procs -> SUBSET Pools]
        /\ heldFailure' \in [Procs -> 0..MaxBlock]
        /\ pc' \in [Procs -> Point]
    <3>1. Least(cursor + MaxSpan[p], to[p]) \in 0..MaxBlock
      <4>1. cursor \in Nat /\ MaxSpan[p] \in Nat /\ to[p] \in 0..MaxBlock
        BY DEF TypeOK
      <4> QED
        BY <4>1 DEF Least
    <3>2. last' \in [Procs -> 0..MaxBlock] /\ to' \in [Procs -> 0..MaxBlock]
      BY <1>9, <3>1 DEF Detect, TypeOK
    <3>3. todo' \in [Procs -> SUBSET Pools]
      BY <1>9 DEF Detect, TypeOK
    <3>4. heldFailure' \in [Procs -> 0..MaxBlock]
      <4>1. heldFailure' = [heldFailure EXCEPT ![p] = 0]
        BY <1>9 DEF Detect
      <4> QED
        BY <4>1 DEF TypeOK
    <3>5. pc' \in [Procs -> Point]
      <4>1. pc' = [pc EXCEPT ![p] = "ingest"]
        BY <1>9 DEF Detect
      <4> QED
        BY <4>1 DEF TypeOK, Point
    <3> QED
      BY <3>2, <3>3, <3>4, <3>5
  <2>2. failed' \in [Procs -> BOOLEAN]
    <3>1. failed' = [failed EXCEPT ![p] = FALSE]
      BY <1>9 DEF Detect
    <3> QED
      BY <3>1 DEF TypeOK
  <2> QED
    <3>1. UNCHANGED <<head, cursor, launch, lane, replay, dp, over, abandonThrough,
                      stuckPolls, base, history, faults>>
      BY <1>9 DEF Detect
    <3> QED
      BY <2>1, <2>2, <3>1 DEF TypeOK, lane, replay, history
<1>10. ASSUME NEW p \in Procs, NextPool(p) PROVE TypeOK'
  <2>1. /\ dp' \in [Procs -> SUBSET Pools] /\ todo' \in [Procs -> SUBSET Pools]
        /\ pc' \in [Procs -> Point]
    <3>1. PICK d \in todo[p] : /\ dp' = [dp EXCEPT ![p] = {d}]
                               /\ todo' = [todo EXCEPT ![p] = todo[p] \ {d}]
      BY <1>10 DEF NextPool
    <3>2. d \in Pools
      BY DEF TypeOK
    <3>3. pc' \in [Procs -> Point]
      BY <1>10 DEF NextPool, TypeOK, Point
    <3> QED
      BY <3>1, <3>2, <3>3 DEF TypeOK
  <2>2. UNCHANGED <<head, cursor, launch, lane, replay, last, to, over, heldFailure,
                    failed, abandonThrough, stuckPolls, base, history, faults>>
    BY <1>10 DEF NextPool
  <2> QED
    BY <2>1, <2>2 DEF TypeOK, lane, replay, history
<1>11. ASSUME NEW p \in Procs, Known(p) PROVE TypeOK'
  <2>1. pc' \in [Procs -> Point]
    BY <1>11 DEF Known, TypeOK, Point
  <2>2. UNCHANGED <<head, cursor, launch, lane, replay, poll, abandonThrough,
                    stuckPolls, base, history, faults>>
    BY <1>11 DEF Known
  <2> QED
    BY <2>1, <2>2 DEF TypeOK, lane, replay, poll, history
<1>12. ASSUME NEW p \in Procs, Check(p) PROVE TypeOK'
  <2>1. over' \in [Procs -> BOOLEAN]
    <3>1. PICK b \in BOOLEAN : over' = [over EXCEPT ![p] = b]
      BY <1>12 DEF Check
    <3> QED
      BY <3>1 DEF TypeOK
  <2> QED
    <3>1. pc' \in [Procs -> Point]
      BY <1>12 DEF Check, TypeOK, Point
    <3>2. UNCHANGED <<head, cursor, launch, lane, replay, last, to, todo, dp,
                      heldFailure, failed, abandonThrough, stuckPolls, base,
                      history, faults>>
      BY <1>12 DEF Check
    <3> QED
      BY <2>1, <3>1, <3>2 DEF TypeOK, lane, replay, history
<1>13. ASSUME NEW p \in Procs, CreateLaunch(p) PROVE TypeOK'
  <2>1. launch' \subseteq [pool : Pools, quotaExceeded : BOOLEAN]
    <3>1. dp[p] \subseteq Pools /\ over[p] \in BOOLEAN
      BY DEF TypeOK
    <3>2. \A d \in dp[p] : [pool |-> d, quotaExceeded |-> over[p]]
                              \in [pool : Pools, quotaExceeded : BOOLEAN]
      BY <3>1
    <3>3. launch' = launch \union {[pool |-> d, quotaExceeded |-> over[p]] : d \in dp[p]}
      BY <1>13 DEF CreateLaunch
    <3>4. launch \subseteq [pool : Pools, quotaExceeded : BOOLEAN]
      BY DEF TypeOK
    <3> QED
      BY <3>2, <3>3, <3>4, Zenon
  <2> QED
    <3>1. pc' \in [Procs -> Point]
      BY <1>13 DEF CreateLaunch, TypeOK, Point
    <3>2. UNCHANGED <<head, cursor, lane, replay, poll, abandonThrough, stuckPolls,
                      base, history, faults>>
      BY <1>13 DEF CreateLaunch
    <3> QED
      BY <2>1, <3>1, <3>2 DEF TypeOK, lane, replay, poll, history
<1>14. ASSUME NEW p \in Procs, EnqueueT10(p) PROVE TypeOK'
  <2>1. job' \in [Tokens -> {"none", "queued", "report", "ending", "gone"}]
    BY <1>14 DEF EnqueueT10, TypeOK
  <2>2. pc' \in [Procs -> Point]
    BY <1>14 DEF EnqueueT10, TypeOK, Point
  <2>3. UNCHANGED <<head, cursor, launch, t10, reports, replay, poll, abandonThrough,
                    stuckPolls, base, history, faults>>
    BY <1>14 DEF EnqueueT10
  <2> QED
    BY <2>1, <2>2, <2>3 DEF TypeOK, replay, poll, history
<1>15. ASSUME NEW p \in Procs, IngestCannot(p) \/ IngestMisses(p) PROVE TypeOK'
  <2>0. IngestFails(p)
    BY <1>15 DEF IngestCannot, IngestMisses
  <2>1. IngestFails(p) /\ faults' \in 0..MaxFaults
    <3>1. faults' = faults \/ (faults < MaxFaults /\ faults' = faults + 1)
      BY <1>15 DEF IngestCannot, IngestMisses, Fault
    <3>2. faults \in 0..MaxFaults
      BY DEF TypeOK
    <3> QED
      BY <2>0, <3>1, <3>2
  <2>2. misses' \in [1..MaxBlock -> 0..StuckLimit]
    <3>1. \A b \in 1..MaxBlock : misses[b] \in 0..StuckLimit
                                  /\ Least(misses[b] + 1, StuckLimit) \in 0..StuckLimit
      <4>1. misses \in [1..MaxBlock -> 0..StuckLimit]
        BY DEF TypeOK
      <4> QED
        BY <4>1 DEF Least
    <3> QED
      BY <2>1, <3>1 DEF IngestFails
  <2>3. heldFailure' \in [Procs -> 0..MaxBlock]
    <3> DEFINE held == {e \in dp[p] \ {e \in dp[p] : blockOf[e] <= abandonThrough[p]} :
                          heldFailure[p] = 0 \/ blockOf[e] < heldFailure[p]}
    <3>1. held \subseteq Pools
      BY DEF TypeOK
    <3>2. heldFailure' = IF held = {} THEN heldFailure
                         ELSE [heldFailure EXCEPT ![p] = blockOf[CHOOSE e \in held : TRUE]]
      BY <2>1 DEF IngestFails
    <3> HIDE DEF held
    <3>3. held # {} => (CHOOSE e \in held : TRUE) \in Pools
      BY <3>1
    <3>4. heldFailure \in [Procs -> 0..MaxBlock]
      BY DEF TypeOK
    <3>5. held # {} => blockOf[CHOOSE e \in held : TRUE] \in 0..MaxBlock
      BY <3>3
    <3> QED
      BY <3>2, <3>4, <3>5
  <2>4. abandoned' \subseteq Pools
    BY <2>1 DEF IngestFails, TypeOK
  <2>5. failed' \in [Procs -> BOOLEAN] /\ pc' \in [Procs -> Point]
    BY <2>1 DEF IngestFails, TypeOK, Point
  <2> QED
    BY <2>1, <2>2, <2>3, <2>4, <2>5 DEF IngestFails, TypeOK, lane, replay
<1>16. ASSUME NEW p \in Procs, SaveCursor(p) PROVE TypeOK'
  <2>1. nextCursor(p) \in 0..MaxBlock
    BY DEF nextCursor, TypeOK
  <2>2. stuckPolls' \in 0..StuckLimit
    BY <1>16 DEF SaveCursor, Stuck, Least, TypeOK
  <2>3. /\ cursor' \in 0..MaxBlock /\ to' \in [Procs -> 0..MaxBlock]
        /\ heldFailure' \in [Procs -> 0..MaxBlock] /\ pc' \in [Procs -> Point]
    BY <1>16, <2>1 DEF SaveCursor, Return, TypeOK, Point
  <2>4. over' \in [Procs -> BOOLEAN] /\ failed' \in [Procs -> BOOLEAN]
    BY <1>16 DEF SaveCursor, TypeOK
  <2> QED
    BY <1>16, <2>2, <2>3, <2>4 DEF SaveCursor, TypeOK, lane, replay, history
<1>17. CASE UNCHANGED vars
  BY <1>17 DEF vars, TypeOK
<1> QED
  BY <1>1, <1>2, <1>3, <1>4, <1>5, <1>6, <1>7, <1>8, <1>9, <1>10, <1>11, <1>12, <1>13,
     <1>14, <1>15, <1>16, <1>17 DEF Next, PollStep

\* The rows, the jobs and the locals of every poller keep their types, and no
\* cursor, window or held failure leaves the chain.
THEOREM WatcherTypeCorrect == Spec => []TypeOK
<1>1. Init => TypeOK
  BY WatcherAssumption DEF Init, TypeOK, Point
<1> QED
  BY <1>1, TypeNext, PTL DEF Spec
-----------------------------------------------------------------------------
(***************************************************************************)
(* The lane of a launch.  What makes each launch's job a single one is     *)
(* that a process about to queue it has created the row itself: no other   *)
(* process can be there for the same token, and no job has been queued.    *)
(***************************************************************************)

Queues(p) == pc[p] = "enqueue"

LaneInv ==
    /\ TypeOK
    /\ \A t \in Tokens : job[t] # "none" => HasRow(t)
    /\ \A t \in Tokens : job[t] = "report" => t10[t] = "set"
    /\ \A p \in Procs : Queues(p) =>
          \A d \in dp[p] : HasRow(tokenOf[d]) /\ job[tokenOf[d]] = "none"
    /\ \A p, q \in Procs : Queues(p) /\ Queues(q) /\ p # q =>
          \A d \in dp[p], e \in dp[q] : tokenOf[d] # tokenOf[e]

\* The tokens of a set of pools.
TokensOf(D) == {tokenOf[d] : d \in D}

\* What the poll does until it creates a row or queues a job.
Quiet ==
    /\ UNCHANGED <<launch, job, t10, reports>>
    /\ \A p \in Procs : Queues(p)' => Queues(p) /\ dp'[p] = dp[p]

LEMMA QuietKeeps ==
    ASSUME LaneInv, TypeOK', Quiet
    PROVE  LaneInv' /\ UNCHANGED Lane!vars
<1>1. \A t \in Tokens : HasRow(t)' = HasRow(t) /\ StageOf(t)' = StageOf(t)
  BY DEF Quiet, HasRow, StageOf
<1>2. LaneInv'
  <2>1. \A t \in Tokens : job'[t] # "none" => HasRow(t)'
    BY <1>1 DEF LaneInv, Quiet
  <2>2. \A t \in Tokens : job'[t] = "report" => t10'[t] = "set"
    BY DEF LaneInv, Quiet
  <2>3. ASSUME NEW p \in Procs, Queues(p)', NEW d \in dp'[p]
        PROVE  HasRow(tokenOf[d])' /\ job'[tokenOf[d]] = "none"
    <3>1. Queues(p) /\ d \in dp[p] /\ job' = job
      BY <2>3 DEF Quiet
    <3>2. tokenOf[d] \in Tokens
      BY <3>1, WatcherAssumption DEF LaneInv, TypeOK
    <3> QED
      BY <1>1, <3>1, <3>2 DEF LaneInv
  <2>4. ASSUME NEW p \in Procs, NEW q \in Procs, Queues(p)', Queues(q)', p # q
        PROVE  \A d \in dp'[p], e \in dp'[q] : tokenOf[d] # tokenOf[e]
    <3>1. Queues(p) /\ Queues(q) /\ dp'[p] = dp[p] /\ dp'[q] = dp[q]
      BY <2>4 DEF Quiet
    <3> QED
      BY <2>4, <3>1 DEF LaneInv
  <2> QED
    BY <2>1, <2>2, <2>3, <2>4 DEF LaneInv
<1> QED
  BY <1>1, <1>2 DEF Lane!vars, Quiet

\* A step of the lane, token by token.
LEMMA StageMoves ==
    ASSUME NEW T \in SUBSET Tokens, NEW stages, NEW next,
           \A t \in T : StageOf(t) \in stages /\ StageOf(t)' = next,
           \A t \in Tokens \ T : StageOf(t)' = StageOf(t)
    PROVE  Lane!Move(T, stages, next)
BY DEF Lane!Move

\* A process that has created a row alone may queue its job.
LEMMA CreateIndexes ==
    ASSUME LaneInv, TypeOK', NEW p \in Procs, CreateLaunch(p)
    PROVE  LaneInv' /\ Lane!Index(TokensOf(dp[p]))
<1> DEFINE T == TokensOf(dp[p])
<1>1. /\ T \in SUBSET Tokens /\ \A d \in dp[p] : tokenOf[d] \in T
      /\ \A t \in T : \E d \in dp[p] : t = tokenOf[d]
      /\ \A q \in Procs : dp[q] \subseteq Pools
  <2>1. \A q \in Procs : dp[q] \subseteq Pools
    BY DEF LaneInv, TypeOK
  <2>2. \A d \in dp[p] : tokenOf[d] \in Tokens
    BY <2>1, WatcherAssumption
  <2> QED
    BY <2>1, <2>2 DEF TokensOf
<1>2. /\ launch' = launch \union {[pool |-> d, quotaExceeded |-> over[p]] : d \in dp[p]}
      /\ \A d \in dp[p] : ~HasRow(tokenOf[d])
      /\ UNCHANGED <<job, t10, reports, dp>>
      /\ pc' = [pc EXCEPT ![p] = "enqueue"]
  BY DEF CreateLaunch, lane, poll
<1> HIDE DEF T
<1>3. \A t \in Tokens : HasRow(t)' <=> HasRow(t) \/ t \in T
  <2>1. ASSUME NEW t \in Tokens, HasRow(t) PROVE HasRow(t)'
    BY <1>2, <2>1 DEF HasRow
  <2>2. ASSUME NEW t \in T PROVE HasRow(t)'
    <3>1. PICK d \in dp[p] : t = tokenOf[d]
      BY <1>1
    <3> DEFINE r == [pool |-> d, quotaExceeded |-> over[p]]
    <3>2. r \in launch' /\ r.pool = d
      BY <1>2
    <3> HIDE DEF r
    <3> QED
      BY <3>1, <3>2 DEF HasRow
  <2>3. ASSUME NEW t \in Tokens, HasRow(t)' PROVE HasRow(t) \/ t \in T
    <3>1. PICK r \in launch' : tokenOf[r.pool] = t
      BY <2>3 DEF HasRow
    <3>2. CASE r \in launch
      BY <3>1, <3>2 DEF HasRow
    <3>3. CASE r \notin launch
      <4>1. PICK d \in dp[p] : r = [pool |-> d, quotaExceeded |-> over[p]]
        BY <1>2, <3>3
      <4> QED
        BY <1>1, <3>1, <4>1
    <3> QED
      BY <3>2, <3>3
  <2> QED
    BY <1>1, <2>1, <2>2, <2>3
<1>4. \A t \in T : ~HasRow(t) /\ job[t] = "none"
  <2>1. \A t \in T : t \in Tokens /\ ~HasRow(t)
    BY <1>1, <1>2
  <2> QED
    BY <2>1 DEF LaneInv
<1>5. \A q \in Procs : Queues(q)' <=> Queues(q) \/ q = p
  BY <1>2 DEF Queues, LaneInv, TypeOK
<1>6. ~Queues(p)
  BY DEF CreateLaunch, Queues
<1>7. \A q \in Procs : Queues(q) => \A e \in dp[q] : tokenOf[e] \notin T
  <2>1. ASSUME NEW q \in Procs, Queues(q), NEW e \in dp[q] PROVE tokenOf[e] \notin T
    <3>1. HasRow(tokenOf[e])
      BY <2>1 DEF LaneInv
    <3> QED
      BY <1>4, <3>1
  <2> QED
    BY <2>1
<1>8. LaneInv'
  <2>1. \A t \in Tokens : job'[t] # "none" => HasRow(t)'
    BY <1>2, <1>3 DEF LaneInv
  <2>2. \A t \in Tokens : job'[t] = "report" => t10'[t] = "set"
    BY <1>2 DEF LaneInv
  <2>3. ASSUME NEW q \in Procs, Queues(q)', NEW d \in dp'[q]
        PROVE  HasRow(tokenOf[d])' /\ job'[tokenOf[d]] = "none"
    <3>1. d \in dp[q] /\ tokenOf[d] \in Tokens /\ job' = job
      BY <1>1, <1>2, WatcherAssumption
    <3>2. CASE q = p
      BY <1>1, <1>3, <1>4, <3>1, <3>2
    <3>3. CASE q # p
      <4>1. HasRow(tokenOf[d]) /\ job[tokenOf[d]] = "none"
        BY <1>5, <2>3, <3>1, <3>3 DEF LaneInv
      <4> QED
        BY <1>3, <3>1, <4>1
    <3> QED
      BY <3>2, <3>3
  <2>4. ASSUME NEW q \in Procs, NEW r \in Procs, Queues(q)', Queues(r)', q # r
        PROVE  \A d \in dp'[q], e \in dp'[r] : tokenOf[d] # tokenOf[e]
    <3>1. CASE q = p
      BY <1>1, <1>2, <1>5, <1>7, <2>4, <3>1
    <3>2. CASE r = p
      BY <1>1, <1>2, <1>5, <1>7, <2>4, <3>2
    <3>3. CASE q # p /\ r # p
      BY <1>2, <1>5, <2>4, <3>3 DEF LaneInv
    <3> QED
      BY <3>1, <3>2, <3>3
  <2> QED
    BY <2>1, <2>2, <2>3, <2>4 DEF LaneInv
<1>9. Lane!Index(T)
  <2>1. \A t \in T : StageOf(t) = "absent" /\ StageOf(t)' = "indexed"
    BY <1>1, <1>2, <1>3, <1>4 DEF StageOf
  <2>2. \A t \in Tokens \ T : StageOf(t)' = StageOf(t)
    BY <1>2, <1>3 DEF StageOf
  <2>3. Lane!Move(T, {"absent"}, "indexed")
    BY <1>1, <2>1, <2>2, StageMoves
  <2> QED
    BY <1>2, <2>3 DEF Lane!Index
<1> QED
  BY <1>8, <1>9 DEF T

\* Queueing the job of a row just created.
LEMMA EnqueueQueues ==
    ASSUME LaneInv, TypeOK', NEW p \in Procs, EnqueueT10(p)
    PROVE  LaneInv' /\ Lane!Enqueue(TokensOf(dp[p]))
<1> DEFINE T == TokensOf(dp[p])
<1>1. /\ T \in SUBSET Tokens /\ \A d \in dp[p] : tokenOf[d] \in T
      /\ \A t \in T : \E d \in dp[p] : t = tokenOf[d]
      /\ \A q \in Procs : dp[q] \subseteq Pools
  <2>1. \A q \in Procs : dp[q] \subseteq Pools
    BY DEF LaneInv, TypeOK
  <2>2. \A d \in dp[p] : tokenOf[d] \in Tokens
    BY <2>1, WatcherAssumption
  <2> QED
    BY <2>1, <2>2 DEF TokensOf
<1> HIDE DEF T
<1>2. /\ job' = [t \in Tokens |-> IF t \in T THEN "queued" ELSE job[t]]
      /\ UNCHANGED <<launch, t10, reports, dp>>
      /\ pc' = [pc EXCEPT ![p] = "ingest"] /\ Queues(p)
  <2>1. job' = [t \in Tokens |-> IF \E d \in dp[p] : t = tokenOf[d] THEN "queued" ELSE job[t]]
    BY DEF EnqueueT10
  <2>2. \A t \in Tokens : (\E d \in dp[p] : t = tokenOf[d]) <=> t \in T
    BY <1>1
  <2> QED
    BY <2>1, <2>2 DEF EnqueueT10, poll, Queues
<1>3. \A t \in T : HasRow(t) /\ job[t] = "none"
  BY <1>1, <1>2 DEF LaneInv
<1>4. \A t \in Tokens : HasRow(t)' = HasRow(t)
  BY <1>2 DEF HasRow
<1>5. \A q \in Procs : Queues(q)' => Queues(q) /\ q # p
  BY <1>2 DEF Queues, LaneInv, TypeOK
<1>6. \A q \in Procs : Queues(q) /\ q # p => \A e \in dp[q] : tokenOf[e] \notin T
  BY <1>1, <1>2 DEF LaneInv
<1>7. LaneInv'
  <2>1. \A t \in Tokens : job'[t] # "none" => HasRow(t)'
    BY <1>2, <1>3, <1>4 DEF LaneInv
  <2>2. \A t \in Tokens : job'[t] = "report" => t10'[t] = "set"
    BY <1>2 DEF LaneInv
  <2>3. ASSUME NEW q \in Procs, Queues(q)', NEW d \in dp'[q]
        PROVE  HasRow(tokenOf[d])' /\ job'[tokenOf[d]] = "none"
    <3>1. Queues(q) /\ q # p /\ d \in dp[q]
      BY <1>2, <1>5, <2>3
    <3>2. HasRow(tokenOf[d]) /\ job[tokenOf[d]] = "none" /\ tokenOf[d] \notin T
      BY <1>6, <3>1 DEF LaneInv
    <3>3. tokenOf[d] \in Tokens
      BY <1>1, <3>1, WatcherAssumption
    <3> QED
      BY <1>2, <1>4, <3>2, <3>3
  <2>4. ASSUME NEW q \in Procs, NEW r \in Procs, Queues(q)', Queues(r)', q # r
        PROVE  \A d \in dp'[q], e \in dp'[r] : tokenOf[d] # tokenOf[e]
    BY <1>2, <1>5, <2>4 DEF LaneInv
  <2> QED
    BY <2>1, <2>2, <2>3, <2>4 DEF LaneInv
<1>8. Lane!Enqueue(T)
  <2>1. \A t \in T : StageOf(t) = "indexed" /\ StageOf(t)' = "queued"
    BY <1>1, <1>2, <1>3 DEF StageOf
  <2>2. \A t \in Tokens \ T : StageOf(t)' = StageOf(t)
    BY <1>2, <1>4 DEF StageOf
  <2>3. Lane!Move(T, {"indexed"}, "queued")
    BY <1>1, <2>1, <2>2, StageMoves
  <2> QED
    BY <1>2, <2>3 DEF Lane!Enqueue
<1> QED
  BY <1>7, <1>8 DEF T

\* A job that is delivered, ends or is delivered again keeps what the poll relies on.
LEMMA JobsKeep ==
    ASSUME LaneInv, TypeOK', UNCHANGED <<launch, dp>>,
           \A p \in Procs : Queues(p)' => Queues(p),
           \A t \in Tokens : (job[t] = "none") <=> (job'[t] = "none"),
           \A t \in Tokens : job'[t] = "report" => t10'[t] = "set"
    PROVE  LaneInv'
<1>1. \A t \in Tokens : HasRow(t)' = HasRow(t)
  BY DEF HasRow
<1>2. \A t \in Tokens : job'[t] # "none" => HasRow(t)'
  BY <1>1 DEF LaneInv
<1>3. ASSUME NEW q \in Procs, Queues(q)', NEW d \in dp'[q]
      PROVE  HasRow(tokenOf[d])' /\ job'[tokenOf[d]] = "none"
  <2>1. Queues(q) /\ d \in dp[q]
    BY <1>3
  <2>2. tokenOf[d] \in Tokens
    BY <2>1, WatcherAssumption DEF LaneInv, TypeOK
  <2>3. HasRow(tokenOf[d]) /\ job[tokenOf[d]] = "none"
    BY <2>1 DEF LaneInv
  <2> QED
    BY <1>1, <2>2, <2>3
<1>4. ASSUME NEW q \in Procs, NEW r \in Procs, Queues(q)', Queues(r)', q # r
      PROVE  \A d \in dp'[q], e \in dp'[r] : tokenOf[d] # tokenOf[e]
  BY <1>4 DEF LaneInv
<1> QED
  BY <1>2, <1>3, <1>4 DEF LaneInv

\* One delivery of a job, step by step.
LEMMA DeliveryMoves ==
    ASSUME LaneInv, TypeOK', NEW t \in Tokens,
           T10Step(t) \/ T10Partial(t) \/ T10Fails(t) \/ T10ReportFails(t)
    PROVE  LaneInv' /\ (Lane!Compute(t) \/ Lane!GiveUp(t) \/ Lane!Publish(t) \/ Lane!End(t))
<1> DEFINE whole == {u \in Tokens : t10[u] = "set"}
<1>1. /\ launch' = launch /\ dp' = dp /\ pc' = pc
      /\ job \in [Tokens -> {"none", "queued", "report", "ending", "gone"}]
      /\ t10 \in [Tokens -> {"null", "partial", "set"}]
  BY DEF T10Step, T10Features, T10Report, T10Ends, T10Partial, T10Fails, T10ReportFails, poll,
     LaneInv, TypeOK
<1>2. \A u \in Tokens : HasRow(u)' = HasRow(u)
  BY <1>1 DEF HasRow
<1>3. \A p \in Procs : Queues(p)' => Queues(p)
  BY <1>1 DEF Queues
<1>4. \/ /\ job[t] = "queued" /\ job' = [job EXCEPT ![t] = "report"]
         /\ t10' = [t10 EXCEPT ![t] = "set"] /\ reports' = reports
      \/ /\ job[t] = "queued" /\ job' = [job EXCEPT ![t] = "ending"]
         /\ t10' \in {t10, [t10 EXCEPT ![t] = "partial"]} /\ reports' = reports
      \/ /\ job[t] = "report" /\ job' = [job EXCEPT ![t] = "ending"]
         /\ t10' = t10 /\ reports' \in {reports, reports \union {t}}
      \/ /\ job[t] = "ending" /\ job' = [job EXCEPT ![t] = "gone"]
         /\ t10' = t10 /\ reports' = reports
  BY DEF T10Step, T10Features, T10Report, T10Ends, T10Partial, T10Fails, T10ReportFails
<1>5. LaneInv'
  <2>1. \A u \in Tokens : (job[u] = "none") <=> (job'[u] = "none")
    BY <1>1, <1>4
  <2>2. \A u \in Tokens : job'[u] = "report" => t10'[u] = "set"
    <3>1. \A u \in Tokens : job[u] = "report" => t10[u] = "set"
      BY DEF LaneInv
    <3> QED
      BY <1>1, <1>4, <3>1
  <2> QED
    BY <1>1, <1>3, <2>1, <2>2, JobsKeep
<1>6. \A u \in Tokens \ {t} : StageOf(u)' = StageOf(u)
  <2>1. \A u \in Tokens \ {t} : job'[u] = job[u]
    BY <1>1, <1>4
  <2> QED
    BY <1>2, <2>1 DEF StageOf
<1>7. ASSUME NEW x, NEW next, StageOf(t) = x, StageOf(t)' = next
      PROVE  Lane!Move({t}, {x}, next)
  BY <1>6, <1>7, StageMoves
<1>8. CASE /\ job[t] = "queued" /\ job' = [job EXCEPT ![t] = "report"]
           /\ t10' = [t10 EXCEPT ![t] = "set"] /\ reports' = reports
  <2>1. StageOf(t) = "queued" /\ StageOf(t)' = "computed"
    BY <1>1, <1>8 DEF StageOf
  <2>2. {u \in Tokens : t10'[u] = "set"} = whole \union {t}
    BY <1>1, <1>8
  <2>3. Lane!Move({t}, {"queued"}, "computed")
    BY <1>7, <2>1
  <2> QED
    BY <1>5, <1>8, <2>2, <2>3 DEF Lane!Compute
<1>9. CASE /\ job[t] = "queued" /\ job' = [job EXCEPT ![t] = "ending"]
           /\ t10' \in {t10, [t10 EXCEPT ![t] = "partial"]} /\ reports' = reports
  <2>1. StageOf(t) = "queued" /\ StageOf(t)' = "ending"
    BY <1>1, <1>9 DEF StageOf
  <2>2. {u \in Tokens : t10'[u] = "set"} \in {whole, whole \ {t}}
    <3>1. CASE t10' = t10
      BY <3>1
    <3>2. CASE t10' = [t10 EXCEPT ![t] = "partial"]
      <4>1. {u \in Tokens : t10'[u] = "set"} = whole \ {t}
        BY <1>1, <3>2
      <4> QED
        BY <4>1
    <3> QED
      BY <1>9, <3>1, <3>2
  <2>3. Lane!Move({t}, {"queued"}, "ending")
    BY <1>7, <2>1
  <2> QED
    BY <1>5, <1>9, <2>2, <2>3 DEF Lane!GiveUp
<1>10. CASE /\ job[t] = "report" /\ job' = [job EXCEPT ![t] = "ending"]
            /\ t10' = t10 /\ reports' \in {reports, reports \union {t}}
  <2>1. StageOf(t) = "computed" /\ StageOf(t)' = "ending"
    BY <1>1, <1>10 DEF StageOf
  <2>2. t \in whole
    BY <1>10 DEF LaneInv
  <2>3. Lane!Move({t}, {"computed"}, "ending")
    BY <1>7, <2>1
  <2> QED
    BY <1>5, <1>10, <2>2, <2>3 DEF Lane!Publish
<1>11. CASE /\ job[t] = "ending" /\ job' = [job EXCEPT ![t] = "gone"]
            /\ t10' = t10 /\ reports' = reports
  <2>1. StageOf(t) = "ending" /\ StageOf(t)' = "ended"
    BY <1>1, <1>11 DEF StageOf
  <2>2. Lane!Move({t}, {"ending"}, "ended")
    BY <1>7, <2>1
  <2> QED
    BY <1>5, <1>11, <2>2 DEF Lane!End
<1> QED
  BY <1>4, <1>8, <1>9, <1>10, <1>11

\* A crash delivers again what was in the worker's hands.
LEMMA CrashRedelivers ==
    ASSUME LaneInv, TypeOK', CrashWorker
    PROVE  /\ LaneInv'
           /\ \E T \in SUBSET Tokens : Lane!Redeliver(T)
<1> DEFINE T == {t \in Tokens : job[t] \in {"report", "ending"}}
<1>1. /\ job' = [t \in Tokens |-> IF t \in T THEN "queued" ELSE job[t]]
      /\ UNCHANGED <<launch, dp, t10, reports>>
      /\ pc' = [pc EXCEPT ![Live] = "idle"]
  BY DEF CrashWorker, poll
<1>2. /\ T \in SUBSET Tokens /\ \A t \in T : job[t] \in {"report", "ending"}
      /\ \A t \in Tokens \ T : job[t] # "report"
  OBVIOUS
<1> HIDE DEF T
<1>3. \A p \in Procs : Queues(p)' => Queues(p)
  BY <1>1 DEF Queues, LaneInv, TypeOK
<1>4. LaneInv'
  <2>1. \A t \in Tokens : (job[t] = "none") <=> (job'[t] = "none")
    BY <1>1, <1>2
  <2>2. \A t \in Tokens : job'[t] = "report" => t10'[t] = "set"
    BY <1>1, <1>2
  <2> QED
    BY <1>1, <1>3, <2>1, <2>2, JobsKeep
<1>5. \A t \in T : StageOf(t) \in {"computed", "ending"} /\ StageOf(t)' = "queued"
  BY <1>1, <1>2 DEF StageOf
<1>6. \A t \in Tokens \ T : StageOf(t)' = StageOf(t)
  BY <1>1 DEF StageOf, HasRow
<1>7. Lane!Move(T, {"computed", "ending"}, "queued")
  BY <1>2, <1>5, <1>6, StageMoves
<1> QED
  BY <1>1, <1>2, <1>4, <1>7 DEF Lane!Redeliver

\* Every other step is none of the lane's.
LEMMA OtherStepsQuiet ==
    ASSUME LaneInv, [Next]_vars
    PROVE  \/ Quiet \/ CrashWorker
           \/ \E p \in Procs : CreateLaunch(p) \/ EnqueueT10(p)
           \/ \E t \in Tokens : T10Step(t) \/ T10Partial(t) \/ T10Fails(t) \/ T10ReportFails(t)
<1>1. pc \in [Procs -> Point] /\ dp \in [Procs -> SUBSET Pools]
  BY DEF LaneInv, TypeOK
<1>2. CASE UNCHANGED vars
  BY <1>2 DEF vars, Quiet, Queues
<1>3. CASE NewBlock
  BY <1>3 DEF NewBlock, Quiet, Queues, lane, poll
<1>4. CASE StartPoll
  BY <1>1, <1>4 DEF StartPoll, Quiet, Queues, lane, poll
<1>5. ASSUME NEW p \in Procs, NEW f \in 1..MaxBlock, StartReplay(p, f)
      PROVE  Quiet
  BY <1>1, <1>5 DEF StartReplay, Quiet, Queues, lane, poll
<1>6. ASSUME NEW p \in Procs, NEW q \in Procs,
             (q # p /\ pc'[q] = pc[q] /\ dp'[q] = dp[q]) \/ pc'[q] # "enqueue"
      PROVE  Queues(q)' => Queues(q) /\ dp'[q] = dp[q]
  BY <1>6 DEF Queues
<1>7. ASSUME NEW p \in Procs,
             ReadHead(p) \/ NothingNew(p) \/ Detect(p) \/ NextPool(p) \/ Known(p)
      PROVE  Quiet
  <2>1. UNCHANGED <<launch, job, t10, reports>>
    BY <1>7 DEF ReadHead, NothingNew, Detect, NextPool, Known, lane
  <2>2. \A q \in Procs : (q # p /\ pc'[q] = pc[q] /\ dp'[q] = dp[q]) \/ pc'[q] # "enqueue"
    <3>1. /\ \E x \in {"read", "idle", "after", "ingest", "check"} : pc' = [pc EXCEPT ![p] = x]
          /\ dp' = dp \/ \E D : dp' = [dp EXCEPT ![p] = D]
      BY <1>7 DEF ReadHead, NothingNew, Return, Detect, NextPool, Known, poll
    <3> QED
      BY <1>1, <3>1
  <2> QED
    BY <1>6, <2>1, <2>2 DEF Quiet
<1>8. ASSUME NEW p \in Procs,
             Check(p) \/ SaveCursor(p) \/ ReplayTarget(p) \/ ReplayLoop(p) \/ IngestFails(p)
      PROVE  Quiet
  <2>1. UNCHANGED <<launch, job, t10, reports>>
    BY <1>8 DEF Check, SaveCursor, ReplayTarget, ReplayLoop, IngestFails, lane
  <2>2. \A q \in Procs : (q # p /\ pc'[q] = pc[q] /\ dp'[q] = dp[q]) \/ pc'[q] # "enqueue"
    <3>1. /\ \E x \in Point \ {"enqueue"} : pc' = [pc EXCEPT ![p] = x]
          /\ dp' = dp \/ \E D : dp' = [dp EXCEPT ![p] = D]
      BY <1>8 DEF Check, SaveCursor, Return, ReplayTarget, ReplayLoop, IngestFails, poll, Point
    <3> QED
      BY <1>1, <3>1
  <2> QED
    BY <1>6, <2>1, <2>2 DEF Quiet
<1>9. ASSUME NEW p \in Procs, PollError(p) \/ CrashReplay(p)
      PROVE  Quiet
  <2>1. UNCHANGED <<launch, job, t10, reports>>
    BY <1>9 DEF PollError, CrashReplay, lane
  <2>2. \A q \in Procs : (q # p /\ pc'[q] = pc[q] /\ dp'[q] = dp[q]) \/ pc'[q] # "enqueue"
    <3>1. /\ \E x \in {"idle", "exited"} : pc' = [pc EXCEPT ![p] = x]
          /\ dp' = dp
      BY <1>9 DEF PollError, CrashReplay, poll
    <3> QED
      BY <1>1, <3>1
  <2> QED
    BY <1>6, <2>1, <2>2 DEF Quiet
<1> QED
  BY <1>2, <1>3, <1>4, <1>5, <1>7, <1>8, <1>9
     DEF Next, PollStep, IngestCannot, IngestMisses

\* Whatever processes poll, replay, fail and crash: each launch is indexed once and
\* its job queued once, no ended job is revived, and reports are published only of
\* complete features.
THEOREM LaneRefinement == Spec => ImplementsLaunchLane
<1>1. Init => LaneInv /\ Lane!Init
  <2> SUFFICES ASSUME Init PROVE LaneInv /\ Lane!Init
    OBVIOUS
  <2>1. TypeOK
    BY WatcherAssumption DEF Init, TypeOK, Point
  <2>2. \A t \in Tokens : job[t] = "none" /\ ~HasRow(t) /\ t10[t] = "null"
    BY DEF Init, HasRow
  <2>3. \A p \in Procs : ~Queues(p)
    BY DEF Init, Queues
  <2>4. [t \in Tokens |-> StageOf(t)] = [t \in Tokens |-> "absent"]
    BY <2>2 DEF StageOf
  <2>5. {t \in Tokens : t10[t] = "set"} = {} /\ reports = {}
    BY <2>2 DEF Init
  <2> QED
    BY <2>1, <2>2, <2>3, <2>4, <2>5 DEF LaneInv, Lane!Init
<1>2. LaneInv /\ [Next]_vars => LaneInv' /\ [Lane!Next]_(Lane!vars)
  <2> SUFFICES ASSUME LaneInv, [Next]_vars
               PROVE  LaneInv' /\ [Lane!Next]_(Lane!vars)
    OBVIOUS
  <2>1. TypeOK'
    BY TypeNext DEF LaneInv
  <2>2. CASE Quiet
    BY <2>1, <2>2, QuietKeeps
  <2>3. CASE CrashWorker
    BY <2>1, <2>3, CrashRedelivers DEF Lane!Next
  <2>4. ASSUME NEW p \in Procs, CreateLaunch(p) \/ EnqueueT10(p)
        PROVE  LaneInv' /\ Lane!Next
    <3>1. TokensOf(dp[p]) \in SUBSET Tokens
      <4>1. dp[p] \subseteq Pools
        BY DEF LaneInv, TypeOK
      <4> QED
        BY <4>1, WatcherAssumption DEF TokensOf
    <3> QED
      BY <2>1, <2>4, <3>1, CreateIndexes, EnqueueQueues DEF Lane!Next
  <2>5. ASSUME NEW t \in Tokens,
               T10Step(t) \/ T10Partial(t) \/ T10Fails(t) \/ T10ReportFails(t)
        PROVE  LaneInv' /\ Lane!Next
    BY <2>1, <2>5, DeliveryMoves DEF Lane!Next
  <2> QED
    BY <2>2, <2>3, <2>4, <2>5, OtherStepsQuiet
<1> QED
  BY <1>1, <1>2, PTL DEF Spec, ImplementsLaunchLane, Lane!Spec
============================================================================
