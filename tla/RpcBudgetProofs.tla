-------------------------- MODULE RpcBudgetProofs --------------------------
(***************************************************************************)
(* Proofs about RpcBudget: the scheduler never loses a wakeup, runs        *)
(* exactly the calls its slots say and never more than MaxInFlight, admits *)
(* by tier and then in order of arrival, and never answers with a null     *)
(* from the cache, for any set of callers and any limits.                  *)
(***************************************************************************)
EXTENDS RpcBudget, SequenceTheorems, FiniteSetTheorems, TLAPS

\* What the wakeup argument needs of the scheduler's own state.
SchedType ==
    /\ queue \in Seq(Calls)
    /\ inFlight \in Int
    /\ inFlight <= MaxInFlight
    /\ tokens \in Nat
    /\ timer \in BOOLEAN
    /\ pumping \in BOOLEAN

WakeInv == SchedType /\ NoLostWakeup

\* PriorityQueue.push keeps a queue of calls.
LEMMA PushType ==
  ASSUME NEW q \in Seq(Calls), NEW c \in Calls
  PROVE  push(q, c) \in Seq(Calls)
<1> DEFINE S == {i \in DOMAIN q : \E j \in DOMAIN q : i <= j /\ tier[q[j]] <= tier[c]}
<1>1. S \subseteq 1..Len(q) /\ Len(q) \in Nat
  <2>1. Len(q) \in Nat /\ DOMAIN q = 1..Len(q)
    BY LenProperties
  <2>2. S \subseteq DOMAIN q
    OBVIOUS
  <2> HIDE DEF S
  <2> QED
    BY <2>1, <2>2
<1> HIDE DEF S
<1>2. IsFiniteSet(1..Len(q)) /\ Cardinality(1..Len(q)) = Len(q)
  <2>1. \A m \in Nat : IsFiniteSet(1..m) /\ Cardinality(1..m) = IF 1 > m THEN 0 ELSE m - 1 + 1
    BY FS_Interval
  <2> QED
    BY <1>1, <2>1
<1>3. IsFiniteSet(S) /\ Cardinality(S) <= Len(q)
  BY <1>1, <1>2, FS_Subset
<1>4. Cardinality(S) \in Nat
  BY <1>3, FS_CardinalityType
<1>5. PushIndex(q, c) \in 0..Len(q)
  BY <1>1, <1>3, <1>4 DEF PushIndex, S
<1> DEFINE i == PushIndex(q, c)
<1> HIDE DEF i
<1>6. SubSeq(q, 1, i) \in Seq(Calls) /\ SubSeq(q, i + 1, Len(q)) \in Seq(Calls)
  BY <1>1, <1>5, SubSeqProperties DEF i
<1> QED
  BY <1>6, ConcatProperties DEF push, i

\* The loop leaves no call waiting beside a free slot without a timer.
LEMMA LoopWakes ==
  ASSUME RpcBudgetAssumption, tokens \in Nat,
         NEW q \in Seq(Calls), NEW busy \in Int, busy <= MaxInFlight,
         NEW armed \in BOOLEAN, NEW at, loop(q, busy, armed, at)
  PROVE  /\ queue' \in Seq(Calls)
         /\ inFlight' \in Int
         /\ inFlight' <= MaxInFlight
         /\ tokens' \in Nat
         /\ timer' \in BOOLEAN
         /\ queue' # <<>> /\ inFlight' < MaxInFlight => timer'
<1> DEFINE n == Started(q, busy)
<1>1. /\ n \in Nat /\ n <= Len(q) /\ n <= tokens /\ busy + n <= MaxInFlight
      /\ Len(q) \in Nat
  BY LenProperties DEF Started, Least, RpcBudgetAssumption
<1>2. /\ queue' = SubSeq(q, n + 1, Len(q))
      /\ inFlight' = busy + n
      /\ tokens' = tokens - n
      /\ timer' = (armed \/ (n < Len(q) /\ busy + n < MaxInFlight))
  BY DEF loop
<1> HIDE DEF n
<1>3. queue' \in Seq(Calls)
  BY <1>1, <1>2, SubSeqProperties
<1>4. queue' # <<>> => n < Len(q)
  BY <1>1, <1>2, SubSeqProperties
<1>5. inFlight' \in Int /\ inFlight' <= MaxInFlight /\ tokens' \in Nat
  BY <1>1, <1>2 DEF RpcBudgetAssumption
<1>6. timer' \in BOOLEAN
  BY <1>2, Zenon
<1>7. queue' # <<>> /\ inFlight' < MaxInFlight => timer'
  <2> SUFFICES ASSUME queue' # <<>>, inFlight' < MaxInFlight PROVE timer'
    OBVIOUS
  <2>1. n < Len(q) /\ busy + n < MaxInFlight
    BY <1>2, <1>4
  <2> QED
    BY <1>2, <2>1, Zenon
<1> QED
  BY <1>3, <1>5, <1>6, <1>7

\* Every step keeps a wakeup pending while a call could start.
LEMMA WakeNext == WakeInv /\ [Next]_vars => WakeInv'
<1> SUFFICES ASSUME WakeInv, [Next]_vars PROVE WakeInv'
  OBVIOUS
<1> USE RpcBudgetAssumption
<1>1. CASE Microtask
  <2>1. loop(queue, inFlight, timer, pc) /\ pumping' = FALSE
    BY <1>1 DEF Microtask
  <2> QED
    BY <2>1, LoopWakes DEF WakeInv, SchedType, NoLostWakeup
<1>2. CASE TimerFires
  <2>1. loop(queue, inFlight, FALSE, pc) /\ pumping' = pumping
    BY <1>2 DEF TimerFires
  <2> QED
    BY <2>1, LoopWakes DEF WakeInv, SchedType, NoLostWakeup
<1>3. CASE Refill
  BY <1>3 DEF Refill, WakeInv, SchedType, NoLostWakeup
<1>4. CASE \E k \in Keys : Sync(k)
  BY <1>4 DEF Sync, sched, WakeInv, SchedType, NoLostWakeup
<1>5. ASSUME NEW c \in Calls, CallStep(c) PROVE WakeInv'
  <2>1. CASE CacheHit(c) \/ RateLimited(c) \/ Store(c)
    BY <2>1 DEF CacheHit, RateLimited, Store, sched, WakeInv, SchedType, NoLostWakeup
  <2>2. CASE Request(c)
    BY <2>2, PushType DEF Request, WakeInv, SchedType, NoLostWakeup
  <2>3. CASE Answer(c) \/ CallFails(c)
    <3>1. PICK at : loop(queue, inFlight - 1, timer, at) /\ pumping' = pumping
      BY <2>3 DEF Answer, CallFails, finish
    <3>2. inFlight - 1 \in Int /\ inFlight - 1 <= MaxInFlight
      BY DEF WakeInv, SchedType
    <3> QED
      BY <3>1, <3>2, LoopWakes DEF WakeInv, SchedType, NoLostWakeup
  <2> QED
    BY <1>5, <2>1, <2>2, <2>3 DEF CallStep
<1>6. CASE UNCHANGED vars
  BY <1>6 DEF vars, WakeInv, SchedType, NoLostWakeup
<1> QED
  BY <1>1, <1>2, <1>3, <1>4, <1>5, <1>6 DEF Next

\* The wakeup invariant holds in every reachable state.
THEOREM WakeInvariant == Spec => []WakeInv
<1>1. Init => WakeInv
  <2> SUFFICES ASSUME Init PROVE WakeInv
    OBVIOUS
  <2>1. queue = <<>> /\ inFlight = 0 /\ tokens = Burst /\ timer = FALSE /\ pumping = FALSE
    BY DEF Init
  <2>2. SchedType
    <3>1. Burst \in Nat /\ 0 <= MaxInFlight /\ 0 \in Int
      BY RpcBudgetAssumption
    <3>2. <<>> \in Seq(Calls) /\ FALSE \in BOOLEAN
      OBVIOUS
    <3> QED
      BY <2>1, <3>1, <3>2, Zenon DEF SchedType
  <2>3. NoLostWakeup
    BY <2>1 DEF NoLostWakeup
  <2> QED
    BY <2>2, <2>3 DEF WakeInv
<1> QED
  BY <1>1, WakeNext, PTL DEF Spec

\* While a call is queued and a slot is free, pump()'s microtask or loop()'s
\* timer is pending: no interleaving of answers, failures, timers and new
\* calls leaves the queue to nobody.
THEOREM NeverLosesWakeup == Spec => []NoLostWakeup
<1>1. WakeInv => NoLostWakeup
  BY DEF WakeInv
<1> QED
  BY <1>1, WakeInvariant, PTL

-----------------------------------------------------------------------------
(***************************************************************************)
(* The queue, the slots and the calls.                                     *)
(***************************************************************************)

\* A queue q, `busy` slots and the places `at` of the calls agree: q holds
\* each queued call once, and a slot is taken for each running call.
Agree(q, busy, at) ==
    /\ at \in [Calls -> Point]
    /\ \A i, j \in 1..Len(q) : q[i] = q[j] => i = j
    /\ \A c \in Calls : at[c] = "queued" <=> \E i \in 1..Len(q) : q[i] = c
    /\ busy = Cardinality({c \in Calls : at[c] = "running"})

CallInv == WakeInv /\ Agree(queue, inFlight, pc)

\* Which entries stay ahead of a pushed call, and how many there are.
Stays(q, c, k) == \E j \in 1..Len(q) : k <= j /\ tier[q[j]] <= tier[c]

\* The entries that stay ahead are a prefix of the queue, PushIndex long.
LEMMA PushIndexSplits ==
  ASSUME NEW q \in Seq(Calls), NEW c \in Calls
  PROVE  /\ PushIndex(q, c) \in 0..Len(q)
         /\ \A k \in 1..Len(q) : k <= PushIndex(q, c) <=> Stays(q, c, k)
<1> DEFINE S == {i \in 1..Len(q) : Stays(q, c, i)}
<1>1. Len(q) \in Nat /\ DOMAIN q = 1..Len(q)
  BY LenProperties
<1>2. PushIndex(q, c) = Cardinality(S)
  BY <1>1 DEF PushIndex, Stays
<1>3. S \subseteq 1..Len(q)
  OBVIOUS
<1>4. \A i \in S : \A k \in 1..Len(q) : k <= i => k \in S
  BY <1>1 DEF Stays
<1>5. \A k \in 1..Len(q) : k \in S <=> Stays(q, c, k)
  OBVIOUS
<1> HIDE DEF S
<1>6. \A m \in Nat : IsFiniteSet(1..m) /\ Cardinality(1..m) = m
  <2> SUFFICES ASSUME NEW m \in Nat
               PROVE  IsFiniteSet(1..m) /\ Cardinality(1..m) = m
    OBVIOUS
  <2>1. 1 \in Int /\ m \in Int
    OBVIOUS
  <2>2. IsFiniteSet(1..m) /\ Cardinality(1..m) = IF 1 > m THEN 0 ELSE m - 1 + 1
    BY <2>1, FS_Interval
  <2> QED
    BY <2>2
<1>7. IsFiniteSet(S) /\ Cardinality(S) \in Nat /\ Cardinality(S) <= Len(q)
  <2>1. IsFiniteSet(1..Len(q)) /\ Cardinality(1..Len(q)) = Len(q)
    BY <1>1, <1>6
  <2>2. IsFiniteSet(S) /\ Cardinality(S) <= Len(q)
    BY <1>3, <2>1, FS_Subset
  <2> QED
    BY <2>2, FS_CardinalityType
<1> DEFINE n == Cardinality(S)
<1>8. \A k \in S : k <= n
  <2> SUFFICES ASSUME NEW k \in S PROVE k <= n
    OBVIOUS
  <2>1. k \in Nat /\ 1..k \subseteq S
    BY <1>1, <1>3, <1>4
  <2> QED
    BY <1>6, <1>7, <2>1, FS_Subset
<1>9. S = 1..n
  <2>1. S \subseteq 1..n
    BY <1>1, <1>3, <1>7, <1>8
  <2> QED
    BY <1>6, <1>7, <2>1, FS_Subset
<1> QED
  BY <1>1, <1>2, <1>5, <1>7, <1>9

\* Where push puts every entry.
LEMMA PushPlaces ==
  ASSUME NEW q \in Seq(Calls), NEW c \in Calls
  PROVE  /\ Len(push(q, c)) = Len(q) + 1
         /\ \A k \in 1..(Len(q) + 1) :
              push(q, c)[k] = IF k <= PushIndex(q, c) THEN q[k]
                              ELSE IF k = PushIndex(q, c) + 1 THEN c
                              ELSE q[k - 1]
<1> DEFINE i == PushIndex(q, c)
           front == SubSeq(q, 1, i)
           back == SubSeq(q, i + 1, Len(q))
<1>1. i \in 0..Len(q) /\ Len(q) \in Nat
  BY PushIndexSplits, LenProperties
<1>2. push(q, c) = (front \o <<c>>) \o back
  BY DEF push
<1> HIDE DEF i
<1>3. \A k \in 1..Len(q) : q[k] \in Calls
  BY ElementOfSeq
<1>4. /\ front \in Seq(Calls) /\ Len(front) = i
      /\ \A k \in 1..i : front[k] = q[k]
  BY <1>1, <1>3, SubSeqProperties
<1>5. /\ back \in Seq(Calls) /\ Len(back) = Len(q) - i
      /\ \A k \in 1..(Len(q) - i) : back[k] = q[i + k]
  BY <1>1, <1>3, SubSeqProperties
<1>6. <<c>> \in Seq(Calls) /\ Len(<<c>>) = 1 /\ <<c>>[1] = c
  OBVIOUS
<1> HIDE DEF front, back
<1> DEFINE head == front \o <<c>>
<1>7. /\ head \in Seq(Calls) /\ Len(head) = i + 1
      /\ \A k \in 1..(i + 1) : head[k] = IF k <= i THEN q[k] ELSE c
  BY <1>1, <1>4, <1>6, ConcatProperties
<1> HIDE DEF head
<1>8. /\ Len(head \o back) = Len(q) + 1
      /\ \A k \in 1..(Len(q) + 1) :
           (head \o back)[k] = IF k <= i + 1 THEN head[k] ELSE back[k - (i + 1)]
  BY <1>1, <1>5, <1>7, ConcatProperties
<1>9. push(q, c) = head \o back
  BY <1>2 DEF head
<1>10. \A k \in 1..(Len(q) + 1) :
         push(q, c)[k] = IF k <= i THEN q[k] ELSE IF k = i + 1 THEN c ELSE q[k - 1]
  <2> SUFFICES ASSUME NEW k \in 1..(Len(q) + 1)
               PROVE  push(q, c)[k] = IF k <= i THEN q[k]
                                      ELSE IF k = i + 1 THEN c ELSE q[k - 1]
    OBVIOUS
  <2>1. CASE k <= i + 1
    BY <1>1, <1>7, <1>8, <1>9, <2>1
  <2>2. CASE k > i + 1
    <3>1. push(q, c)[k] = back[k - (i + 1)]
      BY <1>1, <1>8, <1>9, <2>2
    <3>2. k - (i + 1) \in 1..(Len(q) - i) /\ i + (k - (i + 1)) = k - 1
      BY <1>1, <2>2
    <3>3. back[k - (i + 1)] = q[k - 1]
      BY <1>5, <3>2
    <3>4. ~(k <= i) /\ k # i + 1
      BY <1>1, <2>2
    <3> QED
      BY <3>1, <3>3, <3>4
  <2> QED
    BY <1>1, <2>1, <2>2
<1> QED
  BY <1>8, <1>9, <1>10 DEF i

\* The calls loop starts are as many as the slots it takes.
LEMMA StartedCount ==
  ASSUME NEW q \in Seq(Calls), NEW n \in Nat, n <= Len(q),
         \A i, j \in 1..Len(q) : q[i] = q[j] => i = j
  PROVE  /\ IsFiniteSet({q[i] : i \in 1..n})
         /\ Cardinality({q[i] : i \in 1..n}) = n
<1> DEFINE go == {q[i] : i \in 1..n}
           f == [i \in 1..n |-> q[i]]
<1>1. Len(q) \in Nat
  BY LenProperties
<1>2. f \in Injection(1..n, go)
  <2>1. f \in [1..n -> go]
    OBVIOUS
  <2>2. \A i, j \in 1..n : f[i] = f[j] => i = j
    BY <1>1
  <2> QED
    BY <2>1, <2>2 DEF Injection, IsInjective
<1>3. f \in Surjection(1..n, go)
  BY DEF Surjection
<1>4. ExistsBijection(1..n, go)
  BY <1>2, <1>3 DEF Bijection, ExistsBijection
<1> HIDE DEF go, f
<1>5. IsFiniteSet(1..n) /\ Cardinality(1..n) = n
  <2>1. 1 \in Int /\ n \in Int
    OBVIOUS
  <2>2. IsFiniteSet(1..n) /\ Cardinality(1..n) = IF 1 > n THEN 0 ELSE n - 1 + 1
    BY <2>1, FS_Interval
  <2> QED
    BY <2>2
<1>6. IsFiniteSet(go) /\ Cardinality(go) = n
  BY <1>4, <1>5, FS_Bijection
<1> QED
  BY <1>6 DEF go

\* loop keeps queue, slots and calls in agreement.
LEMMA LoopAgrees ==
  ASSUME RpcBudgetAssumption, tokens \in Nat,
         NEW q \in Seq(Calls), NEW busy \in Int, busy <= MaxInFlight,
         NEW armed, NEW at, Agree(q, busy, at), loop(q, busy, armed, at)
  PROVE  /\ Agree(queue', inFlight', pc')
         /\ Started(q, busy) \in Nat /\ Started(q, busy) <= Len(q)
         /\ Len(queue') = Len(q) - Started(q, busy)
         /\ \A i \in 1..Len(queue') : queue'[i] = q[Started(q, busy) + i]
         /\ tokens' <= tokens
<1> DEFINE n == Started(q, busy)
           go == {q[i] : i \in 1..n}
<1>1. /\ n \in Nat /\ n <= Len(q) /\ n <= tokens /\ busy + n <= MaxInFlight
      /\ Len(q) \in Nat
  BY LenProperties DEF Started, Least, RpcBudgetAssumption
<1>2. /\ queue' = SubSeq(q, n + 1, Len(q))
      /\ inFlight' = busy + n
      /\ tokens' = tokens - n
      /\ pc' = [c \in Calls |-> IF c \in go THEN "running" ELSE at[c]]
  BY DEF loop
<1>3. \A i \in 1..n : q[i] \in go
  OBVIOUS
<1>4. \A c \in go : \E i \in 1..n : q[i] = c
  OBVIOUS
<1> HIDE DEF n
<1>5. \A k \in 1..Len(q) : q[k] \in Calls
  BY ElementOfSeq
<1>6. /\ Len(queue') = Len(q) - n
      /\ \A i \in 1..Len(queue') : queue'[i] = q[n + i]
  <2>1. n + 1 \in Int /\ Len(q) \in Int /\ \A k \in (n + 1)..Len(q) : q[k] \in Calls
    BY <1>1, <1>5
  <2>2. /\ Len(queue') = IF n + 1 <= Len(q) THEN Len(q) - (n + 1) + 1 ELSE 0
        /\ \A i \in 1..(Len(q) - (n + 1) + 1) : queue'[i] = q[(n + 1) + i - 1]
    <3> DEFINE rest == SubSeq(q, n + 1, Len(q))
    <3>1. /\ Len(rest) = IF n + 1 <= Len(q) THEN Len(q) - (n + 1) + 1 ELSE 0
          /\ \A i \in 1..(Len(q) - (n + 1) + 1) : rest[i] = q[(n + 1) + i - 1]
      BY <2>1, SubSeqProperties
    <3> HIDE DEF rest
    <3>2. queue' = rest
      BY <1>2 DEF rest
    <3> QED
      BY <3>1, <3>2
  <2>3. Len(queue') = Len(q) - n
    <3>1. /\ n \in Nat /\ n <= Len(q) /\ Len(q) \in Nat
      BY <1>1
    <3>2. Len(queue') = IF n + 1 <= Len(q) THEN Len(q) - (n + 1) + 1 ELSE 0
      BY <2>2
    <3>3. CASE n + 1 <= Len(q)
      BY <3>1, <3>2, <3>3
    <3>4. CASE n = Len(q)
      BY <3>1, <3>2, <3>4
    <3> QED
      BY <3>1, <3>3, <3>4
  <2>4. ASSUME NEW i \in 1..Len(queue')
        PROVE  queue'[i] = q[n + i]
    <3>1. i \in 1..(Len(q) - (n + 1) + 1) /\ (n + 1) + i - 1 = n + i
      BY <1>1, <2>3
    <3> QED
      BY <2>2, <3>1
  <2> QED
    BY <2>3, <2>4
<1>7. /\ at \in [Calls -> Point]
      /\ \A i, j \in 1..Len(q) : q[i] = q[j] => i = j
      /\ \A c \in Calls : at[c] = "queued" <=> \E i \in 1..Len(q) : q[i] = c
      /\ busy = Cardinality({c \in Calls : at[c] = "running"})
  BY DEF Agree
<1>8. IsFiniteSet(go) /\ Cardinality(go) = n
  BY <1>1, <1>7, StartedCount
<1> HIDE DEF go
<1>9. pc' \in [Calls -> Point]
  BY <1>2, <1>7 DEF Point
<1>10. \A i, j \in 1..Len(queue') : queue'[i] = queue'[j] => i = j
  <2> SUFFICES ASSUME NEW i \in 1..Len(queue'), NEW j \in 1..Len(queue'),
                      queue'[i] = queue'[j]
               PROVE  i = j
    OBVIOUS
  <2>1. q[n + i] = q[n + j] /\ n + i \in 1..Len(q) /\ n + j \in 1..Len(q)
    <3>1. q[n + i] = q[n + j]
      BY <1>6
    <3>2. i \in 1..(Len(q) - n) /\ j \in 1..(Len(q) - n)
      BY <1>6
    <3> QED
      BY <1>1, <3>1, <3>2
  <2>2. \A x, y \in 1..Len(q) : q[x] = q[y] => x = y
    BY <1>7
  <2>3. n + i = n + j
    BY <2>1, <2>2
  <2> QED
    BY <1>1, <1>6, <2>3
<1>11. \A c \in Calls : pc'[c] = "queued" <=> \E i \in 1..Len(queue') : queue'[i] = c
  <2> SUFFICES ASSUME NEW c \in Calls
               PROVE  pc'[c] = "queued" <=> \E i \in 1..Len(queue') : queue'[i] = c
    OBVIOUS
  <2>1. ASSUME pc'[c] = "queued"
        PROVE  \E i \in 1..Len(queue') : queue'[i] = c
    <3>1. c \notin go /\ at[c] = "queued"
      BY <1>2, <2>1
    <3>2. PICK k \in 1..Len(q) : q[k] = c
      BY <1>7, <3>1
    <3>3. k - n \in 1..Len(queue') /\ n + (k - n) = k
      BY <1>1, <1>3, <1>6, <3>1, <3>2
    <3> QED
      BY <1>6, <3>2, <3>3
  <2>2. ASSUME NEW i \in 1..Len(queue'), queue'[i] = c
        PROVE  pc'[c] = "queued"
    <3>1. n + i \in 1..Len(q) /\ q[n + i] = c
      BY <1>1, <1>6, <2>2
    <3>2. at[c] = "queued"
      BY <1>7, <3>1
    <3>3. c \notin go
      <4> SUFFICES ASSUME c \in go PROVE FALSE
        OBVIOUS
      <4>1. PICK k \in 1..n : q[k] = c
        BY <1>4
      <4>2. k \in 1..Len(q) /\ q[k] = q[n + i]
        BY <1>1, <3>1, <4>1
      <4>3. \A a, b \in 1..Len(q) : q[a] = q[b] => a = b
        BY <1>7
      <4>4. k = n + i
        BY <3>1, <4>2, <4>3, Zenon
      <4>5. n \in Nat /\ i \in Nat /\ i > 0
        BY <1>1, <1>6
      <4> QED
        BY <4>1, <4>4, <4>5
    <3> QED
      BY <1>2, <3>2, <3>3
  <2> QED
    BY <2>1, <2>2
<1>12. inFlight' = Cardinality({c \in Calls : pc'[c] = "running"})
  <2> DEFINE old == {c \in Calls : at[c] = "running"}
  <2>1. {c \in Calls : pc'[c] = "running"} = old \cup go
    <3>1. go \subseteq Calls
      BY <1>1, <1>4, <1>5
    <3> QED
      BY <1>2, <3>1
  <2>2. old \cap go = {}
    <3> SUFFICES ASSUME NEW c \in old, c \in go PROVE FALSE
      OBVIOUS
    <3>1. PICK k \in 1..n : q[k] = c
      BY <1>4
    <3>2. at[c] = "queued"
      <4>1. k \in 1..Len(q)
        BY <1>1
      <4>2. \E i \in 1..Len(q) : q[i] = c
        BY <3>1, <4>1
      <4> QED
        BY <1>7, <4>2
    <3> QED
      BY <3>2
  <2>3. IsFiniteSet(old)
    BY FS_Subset DEF RpcBudgetAssumption
  <2>4. Cardinality(old) = busy
    BY <1>7
  <2> HIDE DEF old
  <2>5. Cardinality(old \cup go) = Cardinality(old) + Cardinality(go) - Cardinality(old \cap go)
    BY <1>8, <2>3, FS_Union
  <2>6. Cardinality(old \cap go) = 0
    BY <2>2, FS_EmptySet
  <2>7. Cardinality(old \cup go) = busy + n
    BY <1>1, <1>8, <2>4, <2>5, <2>6
  <2> QED
    BY <1>2, <2>1, <2>7
<1>13. Agree(queue', inFlight', pc')
  BY <1>9, <1>10, <1>11, <1>12 DEF Agree
<1>14. tokens' <= tokens
  BY <1>1, <1>2
<1> QED
  BY <1>1, <1>6, <1>13, <1>14 DEF n

\* A call that leaves its slot leaves the rest in agreement.
LEMMA SlotFreed ==
  ASSUME RpcBudgetAssumption, CallInv, NEW c \in Calls, pc[c] = "running",
         NEW p \in Point \ {"queued", "running"}
  PROVE  /\ Agree(queue, inFlight - 1, [pc EXCEPT ![c] = p])
         /\ inFlight >= 1
<1> DEFINE at == [pc EXCEPT ![c] = p]
           old == {d \in Calls : pc[d] = "running"}
<1>1. /\ pc \in [Calls -> Point]
      /\ \A i, j \in 1..Len(queue) : queue[i] = queue[j] => i = j
      /\ \A d \in Calls : pc[d] = "queued" <=> \E i \in 1..Len(queue) : queue[i] = d
      /\ inFlight = Cardinality(old)
  BY DEF CallInv, Agree
<1>2. at \in [Calls -> Point]
  BY <1>1
<1>3. \A d \in Calls : at[d] = "queued" <=> \E i \in 1..Len(queue) : queue[i] = d
  BY <1>1
<1>4. {d \in Calls : at[d] = "running"} = old \ {c}
  BY <1>1
<1>5. IsFiniteSet(old) /\ c \in old
  <2>1. IsFiniteSet(Calls) /\ old \subseteq Calls
    BY DEF RpcBudgetAssumption
  <2> HIDE DEF old
  <2>2. IsFiniteSet(old)
    BY <2>1, FS_Subset
  <2> QED
    BY <2>2 DEF old
<1> HIDE DEF old
<1>6. /\ IsFiniteSet(old \ {c}) /\ Cardinality(old \ {c}) = inFlight - 1
      /\ Cardinality(old \ {c}) \in Nat /\ inFlight \in Nat
  BY <1>1, <1>5, FS_RemoveElement, FS_CardinalityType
<1> HIDE DEF at
<1>7. Agree(queue, inFlight - 1, at)
  BY <1>1, <1>2, <1>3, <1>4, <1>6 DEF Agree
<1> QED
  BY <1>6, <1>7 DEF at

\* Every action that runs loop, seen alike: which slots and places it runs on.
RunsLoop ==
    Microtask \/ TimerFires \/ \E c \in Calls : Answer(c) \/ CallFails(c)

LEMMA LoopRun ==
  ASSUME RpcBudgetAssumption, CallInv, RunsLoop
  PROVE  \E busy \in Int, armed \in BOOLEAN, at \in [Calls -> Point] :
           /\ busy <= MaxInFlight
           /\ Agree(queue, busy, at)
           /\ loop(queue, busy, armed, at)
           /\ \A d \in Calls : at[d] = "queued" <=> pc[d] = "queued"
           /\ \A d \in Calls : at[d] = "running" => pc[d] = "running"
           /\ \A d \in Calls : at[d] = "null" => pc[d] = "null"
           /\ ahead' = ahead
<1>1. /\ inFlight \in Int /\ inFlight <= MaxInFlight
      /\ timer \in BOOLEAN /\ FALSE \in BOOLEAN
  BY Zenon DEF CallInv, WakeInv, SchedType
<1>2. pc \in [Calls -> Point] /\ Agree(queue, inFlight, pc)
  BY DEF CallInv, Agree
<1>3. CASE Microtask
  <2>1. loop(queue, inFlight, timer, pc) /\ ahead' = ahead
    BY <1>3 DEF Microtask
  <2> QED
    BY <1>1, <1>2, <2>1
<1>4. CASE TimerFires
  <2>1. loop(queue, inFlight, FALSE, pc) /\ ahead' = ahead
    BY <1>4 DEF TimerFires
  <2> QED
    BY <1>1, <1>2, <2>1
<1>5. ASSUME NEW c \in Calls, Answer(c) \/ CallFails(c)
      PROVE  \E p \in {"resolved", "idle"} :
               /\ pc[c] = "running" /\ ahead' = ahead
               /\ loop(queue, inFlight - 1, timer, [pc EXCEPT ![c] = p])
  BY <1>5 DEF Answer, CallFails, finish
<1>6. ASSUME NEW c \in Calls, Answer(c) \/ CallFails(c),
             NEW p \in {"resolved", "idle"}, pc[c] = "running", ahead' = ahead,
             loop(queue, inFlight - 1, timer, [pc EXCEPT ![c] = p])
      PROVE  \E busy \in Int, armed \in BOOLEAN, at \in [Calls -> Point] :
               /\ busy <= MaxInFlight
               /\ Agree(queue, busy, at)
               /\ loop(queue, busy, armed, at)
               /\ \A d \in Calls : at[d] = "queued" <=> pc[d] = "queued"
               /\ \A d \in Calls : at[d] = "running" => pc[d] = "running"
               /\ \A d \in Calls : at[d] = "null" => pc[d] = "null"
               /\ ahead' = ahead
  <2> DEFINE at == [pc EXCEPT ![c] = p]
  <2>1. p \in Point \ {"queued", "running"}
    BY DEF Point
  <2>2. Agree(queue, inFlight - 1, at)
    BY <1>6, <2>1, SlotFreed
  <2>3. at \in [Calls -> Point]
    BY <1>2, <2>1
  <2>4. /\ \A d \in Calls : at[d] = "queued" <=> pc[d] = "queued"
        /\ \A d \in Calls : at[d] = "running" => pc[d] = "running"
        /\ \A d \in Calls : at[d] = "null" => pc[d] = "null"
    BY <1>2, <1>6
  <2>5. inFlight - 1 \in Int /\ inFlight - 1 <= MaxInFlight
    BY <1>1 DEF RpcBudgetAssumption
  <2>6. loop(queue, inFlight - 1, timer, at)
    BY <1>6
  <2> HIDE DEF at
  <2> QED
    BY <1>1, <1>6, <2>2, <2>3, <2>4, <2>5, <2>6
<1> QED
  BY <1>3, <1>4, <1>5, <1>6 DEF RunsLoop

\* A request queues its call behind or ahead of the others, once.
LEMMA RequestAgrees ==
  ASSUME RpcBudgetAssumption, CallInv, NEW c \in Calls, Request(c)
  PROVE  Agree(queue', inFlight', pc')
<1> DEFINE i == PushIndex(queue, c)
<1>1. queue \in Seq(Calls)
  BY DEF CallInv, WakeInv, SchedType
<1>2. /\ pc[c] \in {"idle", "null"} /\ pc' = [pc EXCEPT ![c] = "queued"]
      /\ queue' = push(queue, c) /\ inFlight' = inFlight
  BY DEF Request, MayAsk
<1>3. /\ pc \in [Calls -> Point]
      /\ \A k, l \in 1..Len(queue) : queue[k] = queue[l] => k = l
      /\ \A d \in Calls : pc[d] = "queued" <=> \E k \in 1..Len(queue) : queue[k] = d
      /\ inFlight = Cardinality({d \in Calls : pc[d] = "running"})
  BY DEF CallInv, Agree
<1>4. i \in 0..Len(queue) /\ Len(queue) \in Nat
  BY <1>1, PushIndexSplits, LenProperties
<1>5. /\ Len(queue') = Len(queue) + 1
      /\ \A k \in 1..(Len(queue) + 1) :
           queue'[k] = IF k <= i THEN queue[k] ELSE IF k = i + 1 THEN c ELSE queue[k - 1]
  BY <1>1, <1>2, PushPlaces
<1> HIDE DEF i
<1>6. \A k \in 1..Len(queue) : queue[k] # c
  BY <1>2, <1>3
<1>7. pc' \in [Calls -> Point]
  BY <1>2, <1>3 DEF Point
<1>8. \A k, l \in 1..Len(queue') : queue'[k] = queue'[l] => k = l
  <2> SUFFICES ASSUME NEW k \in 1..Len(queue'), NEW l \in 1..Len(queue'),
                      queue'[k] = queue'[l], k < l
               PROVE  FALSE
    BY <1>4, <1>5
  <2>1. CASE l <= i
    <3>1. k \in 1..Len(queue) /\ l \in 1..Len(queue) /\ k <= i
      BY <1>4, <1>5, <2>1
    <3>2. queue'[k] = queue[k] /\ queue'[l] = queue[l]
      BY <1>4, <1>5, <2>1, <3>1
    <3>3. queue[k] = queue[l]
      BY <3>2
    <3>4. k = l
      BY <1>3, <3>1, <3>3
    <3> QED
      BY <1>4, <3>1, <3>4
  <2>2. CASE l = i + 1
    BY <1>4, <1>5, <1>6, <2>2
  <2>3. CASE l > i + 1
    <3>1. l - 1 \in 1..Len(queue) /\ queue'[l] = queue[l - 1]
      BY <1>4, <1>5, <2>3
    <3>2. CASE k <= i
      <4>1. k \in 1..Len(queue) /\ queue'[k] = queue[k] /\ k < l - 1
        BY <1>4, <1>5, <2>3, <3>2
      <4> QED
        BY <1>3, <3>1, <4>1
    <3>3. CASE k = i + 1
      BY <1>4, <1>5, <1>6, <3>1, <3>3
    <3>4. CASE k > i + 1
      <4>1. k - 1 \in 1..Len(queue) /\ queue'[k] = queue[k - 1] /\ k - 1 < l - 1
        BY <1>4, <1>5, <3>4
      <4> QED
        BY <1>3, <3>1, <4>1
    <3> QED
      BY <1>4, <1>5, <3>2, <3>3, <3>4
  <2> QED
    BY <1>4, <1>5, <2>1, <2>2, <2>3
<1>9. \A d \in Calls : pc'[d] = "queued" <=> \E k \in 1..Len(queue') : queue'[k] = d
  <2> SUFFICES ASSUME NEW d \in Calls
               PROVE  pc'[d] = "queued" <=> \E k \in 1..Len(queue') : queue'[k] = d
    OBVIOUS
  <2>1. CASE d = c
    <3>1. i + 1 \in 1..Len(queue') /\ queue'[i + 1] = c
      BY <1>4, <1>5
    <3> QED
      BY <1>2, <1>3, <2>1, <3>1
  <2>2. ASSUME d # c, pc'[d] = "queued"
        PROVE  \E k \in 1..Len(queue') : queue'[k] = d
    <3>1. PICK k \in 1..Len(queue) : queue[k] = d
      BY <1>2, <1>3, <2>2
    <3>2. CASE k <= i
      BY <1>4, <1>5, <3>1, <3>2
    <3>3. CASE k > i
      <4>1. k + 1 \in 1..Len(queue') /\ queue'[k + 1] = queue[k]
        BY <1>4, <1>5, <3>3
      <4> QED
        BY <3>1, <4>1
    <3> QED
      BY <1>4, <3>2, <3>3
  <2>3. ASSUME d # c, NEW k \in 1..Len(queue'), queue'[k] = d
        PROVE  pc'[d] = "queued"
    <3>1. \E l \in 1..Len(queue) : queue[l] = d
      <4>1. CASE k <= i
        BY <1>4, <1>5, <2>3, <4>1
      <4>2. CASE k > i + 1
        <5>1. k - 1 \in 1..Len(queue) /\ queue'[k] = queue[k - 1]
          BY <1>4, <1>5, <4>2
        <5> QED
          BY <2>3, <5>1
      <4> QED
        BY <1>4, <1>5, <2>3, <4>1, <4>2
    <3> QED
      BY <1>2, <1>3, <2>3, <3>1
  <2> QED
    BY <2>1, <2>2, <2>3
<1>10. {d \in Calls : pc'[d] = "running"} = {d \in Calls : pc[d] = "running"}
  BY <1>2, <1>3
<1> QED
  BY <1>2, <1>3, <1>7, <1>8, <1>9, <1>10 DEF Agree

\* The steps that touch neither the queue nor the slots.
LEMMA OtherAgrees ==
  ASSUME CallInv, queue' = queue, inFlight' = inFlight,
         pc' \in [Calls -> Point],
         \A c \in Calls : pc'[c] # pc[c] => /\ pc[c] \notin {"queued", "running"}
                                            /\ pc'[c] \notin {"queued", "running"}
  PROVE  Agree(queue', inFlight', pc')
<1>1. {d \in Calls : pc'[d] = "running"} = {d \in Calls : pc[d] = "running"}
  OBVIOUS
<1>2. /\ \A i, j \in 1..Len(queue) : queue[i] = queue[j] => i = j
      /\ \A c \in Calls : pc[c] = "queued" <=> \E i \in 1..Len(queue) : queue[i] = c
      /\ inFlight = Cardinality({c \in Calls : pc[c] = "running"})
  BY DEF CallInv, Agree
<1>3. \A c \in Calls : pc'[c] = "queued" <=> pc[c] = "queued"
  OBVIOUS
<1>4. \A c \in Calls : pc'[c] = "queued" <=> \E i \in 1..Len(queue) : queue[i] = c
  BY <1>2, <1>3
<1> QED
  BY <1>1, <1>2, <1>4 DEF Agree

\* Every step keeps queue, slots and calls in agreement.
LEMMA CallNext == CallInv /\ [Next]_vars => CallInv'
<1> SUFFICES ASSUME CallInv, [Next]_vars PROVE CallInv'
  OBVIOUS
<1> USE RpcBudgetAssumption
<1>1. WakeInv'
  BY WakeNext DEF CallInv
<1>2. pc \in [Calls -> Point]
  BY DEF CallInv, Agree
<1>3. CASE RunsLoop
  <2>1. PICK busy \in Int, armed \in BOOLEAN, at \in [Calls -> Point] :
          busy <= MaxInFlight /\ Agree(queue, busy, at) /\ loop(queue, busy, armed, at)
    BY <1>3, LoopRun
  <2>2. queue \in Seq(Calls) /\ tokens \in Nat
    BY DEF CallInv, WakeInv, SchedType
  <2>3. Agree(queue', inFlight', pc')
    BY <2>1, <2>2, LoopAgrees
  <2> QED
    BY <1>1, <2>3 DEF CallInv
<1>4. CASE Refill \/ (\E k \in Keys : Sync(k)) \/ UNCHANGED vars
  <2>1. queue' = queue /\ inFlight' = inFlight /\ pc' = pc
    BY <1>4 DEF Refill, Sync, sched, vars
  <2> QED
    BY <1>1, <1>2, <2>1, OtherAgrees DEF CallInv
<1>5. ASSUME NEW c \in Calls, CacheHit(c) \/ RateLimited(c) \/ Store(c)
      PROVE  CallInv'
  <2>1. queue' = queue /\ inFlight' = inFlight
    BY <1>5 DEF CacheHit, RateLimited, Store, sched
  <2>2. \/ pc' = pc
        \/ /\ pc[c] \in {"idle", "null", "resolved"}
           /\ \E p \in {"idle", "null"} : pc' = [pc EXCEPT ![c] = p]
    BY <1>5 DEF CacheHit, MayAsk, RateLimited, Store
  <2>3. pc' \in [Calls -> Point]
    BY <1>2, <2>2 DEF Point
  <2>4. \A d \in Calls : pc'[d] # pc[d] => /\ pc[d] \notin {"queued", "running"}
                                           /\ pc'[d] \notin {"queued", "running"}
    BY <1>2, <2>2
  <2> QED
    BY <1>1, <2>1, <2>3, <2>4, OtherAgrees DEF CallInv
<1>6. ASSUME NEW c \in Calls, Request(c) PROVE CallInv'
  BY <1>1, <1>6, RequestAgrees DEF CallInv
<1> QED
  BY <1>3, <1>4, <1>5, <1>6 DEF Next, CallStep, RunsLoop

\* Queue, slots and calls agree in every reachable state.
THEOREM CallInvariant == Spec => []CallInv
<1>1. Init => Agree(queue, inFlight, pc)
  <2> SUFFICES ASSUME Init PROVE Agree(queue, inFlight, pc)
    OBVIOUS
  <2>1. queue = <<>> /\ inFlight = 0 /\ pc = [c \in Calls |-> "idle"]
    BY DEF Init
  <2>2. pc \in [Calls -> Point] /\ Len(queue) = 0
    BY <2>1 DEF Point
  <2>3. {c \in Calls : pc[c] = "running"} = {}
    BY <2>1
  <2>4. Cardinality({c \in Calls : pc[c] = "running"}) = 0
    BY <2>3, FS_EmptySet
  <2> QED
    BY <2>1, <2>2, <2>4 DEF Agree
<1>2. Spec => []WakeInv
  BY WakeInvariant
<1>3. Init /\ WakeInv => CallInv
  BY <1>1 DEF CallInv
<1> QED
  BY <1>2, <1>3, CallNext, PTL DEF Spec

\* Whatever answers, fails or is retried, the slots in use are those of the
\* running calls and the queue holds exactly the queued calls: no slot leaks
\* and no call is dropped from the queue.
THEOREM SlotsAlwaysMatch == Spec => []SlotsMatchCalls
<1>1. CallInv => SlotsMatchCalls
  <2> SUFFICES ASSUME CallInv PROVE SlotsMatchCalls
    OBVIOUS
  <2>1. queue \in Seq(Calls)
    BY DEF CallInv, WakeInv, SchedType
  <2>2. DOMAIN queue = 1..Len(queue) /\ \A i \in 1..Len(queue) : queue[i] \in Calls
    BY <2>1, LenProperties, ElementOfSeq
  <2>3. /\ inFlight = Cardinality({c \in Calls : pc[c] = "running"})
        /\ \A c \in Calls : pc[c] = "queued" <=> \E i \in 1..Len(queue) : queue[i] = c
    BY DEF CallInv, Agree
  <2> QED
    BY <2>2, <2>3 DEF SlotsMatchCalls
<1> QED
  BY <1>1, CallInvariant, PTL

-----------------------------------------------------------------------------
(***************************************************************************)
(* The order of admission.                                                 *)
(***************************************************************************)

\* c may start before d: it is more urgent, or as urgent and not later.
MayPrecede(c, d) == tier[c] < tier[d] \/ (tier[c] = tier[d] /\ d \notin ahead[c])

QueueOrdered ==
    \A i, j \in 1..Len(queue) : i < j => MayPrecede(queue[i], queue[j])

\* PriorityQueue.push keeps the queue in order.
LEMMA RequestOrders ==
  ASSUME RpcBudgetAssumption, CallInv, QueueOrdered, NEW c \in Calls, Request(c)
  PROVE  QueueOrdered'
<1> DEFINE n == PushIndex(queue, c)
<1>1. queue \in Seq(Calls) /\ tier \in [Calls -> Nat]
  BY DEF CallInv, WakeInv, SchedType, RpcBudgetAssumption
<1>2. \A k \in 1..Len(queue) : queue[k] \in Calls /\ pc[queue[k]] = "queued"
  BY <1>1, ElementOfSeq DEF CallInv, Agree
<1>3. /\ pc[c] \in {"idle", "null"} /\ queue' = push(queue, c)
      /\ ahead' = [d \in Calls |-> CASE d = c -> {e \in Calls : pc[e] = "queued"}
                                     [] pc[d] = "queued" -> ahead[d] \ {c}
                                     [] OTHER -> {}]
  BY DEF Request, MayAsk
<1>4. \A d \in Calls : pc[d] = "queued" => ahead'[d] = ahead[d] \ {c}
  BY <1>3
<1>5. /\ n \in 0..Len(queue) /\ Len(queue) \in Nat
      /\ \A k \in 1..Len(queue) : k <= n <=> Stays(queue, c, k)
  BY <1>1, PushIndexSplits, LenProperties
<1>6. /\ Len(queue') = Len(queue) + 1
      /\ \A k \in 1..(Len(queue) + 1) :
           queue'[k] = IF k <= n THEN queue[k] ELSE IF k = n + 1 THEN c ELSE queue[k - 1]
  BY <1>1, <1>3, PushPlaces
<1> HIDE DEF n
<1> DEFINE After(x, y) == tier[x] < tier[y] \/ (tier[x] = tier[y] /\ y \notin ahead'[x])
<1>7. ASSUME NEW k \in 1..Len(queue), NEW l \in 1..Len(queue), k < l
      PROVE  After(queue[k], queue[l])
  <2>1. MayPrecede(queue[k], queue[l])
    BY <1>7 DEF QueueOrdered
  <2>2. ahead'[queue[k]] = ahead[queue[k]] \ {c}
    BY <1>2, <1>4
  <2> QED
    BY <2>1, <2>2 DEF MayPrecede
<1>8. ASSUME NEW k \in 1..Len(queue), k <= n
      PROVE  After(queue[k], c)
  <2>1. PICK j \in 1..Len(queue) : k <= j /\ tier[queue[j]] <= tier[c]
    BY <1>5, <1>8 DEF Stays
  <2>2. tier[queue[k]] <= tier[queue[j]]
    <3>1. CASE k = j
      BY <1>1, <1>2, <3>1
    <3>2. CASE k < j
      BY <1>1, <1>2, <3>2 DEF QueueOrdered, MayPrecede
    <3> QED
      BY <1>5, <2>1, <3>1, <3>2
  <2>3. tier[queue[k]] \in Nat /\ tier[queue[j]] \in Nat /\ tier[c] \in Nat
    BY <1>1, <1>2
  <2>4. tier[queue[k]] <= tier[c]
    BY <2>1, <2>2, <2>3
  <2>5. c \notin ahead'[queue[k]]
    BY <1>2, <1>4
  <2> QED
    BY <2>3, <2>4, <2>5
<1>9. ASSUME NEW k \in 1..Len(queue), ~(k <= n)
      PROVE  After(c, queue[k])
  <2>1. ~(tier[queue[k]] <= tier[c])
    BY <1>5, <1>9 DEF Stays
  <2>2. tier[queue[k]] \in Nat /\ tier[c] \in Nat
    BY <1>1, <1>2
  <2> QED
    BY <2>1, <2>2
<1>10. ASSUME NEW k \in 1..Len(queue'), NEW l \in 1..Len(queue'), k < l
       PROVE  After(queue'[k], queue'[l])
  <2> HIDE DEF After
  <2>1. k \in 1..(Len(queue) + 1) /\ l \in 1..(Len(queue) + 1)
    BY <1>6
  <2>2. CASE l <= n
    <3>1. k \in 1..Len(queue) /\ l \in 1..Len(queue) /\ k <= n
      BY <1>5, <1>10, <2>1, <2>2
    <3>2. queue'[k] = queue[k] /\ queue'[l] = queue[l]
      BY <1>6, <2>1, <2>2, <3>1
    <3> QED
      BY <1>7, <1>10, <3>1, <3>2
  <2>3. CASE l = n + 1
    <3>1. k \in 1..Len(queue) /\ k <= n
      BY <1>5, <1>10, <2>1, <2>3
    <3>2. queue'[k] = queue[k] /\ queue'[l] = c
      BY <1>5, <1>6, <2>1, <2>3, <3>1
    <3> QED
      BY <1>8, <3>1, <3>2
  <2>4. CASE l > n + 1
    <3>1. l - 1 \in 1..Len(queue) /\ ~(l - 1 <= n)
      BY <1>5, <2>1, <2>4
    <3>2. queue'[l] = queue[l - 1]
      BY <1>5, <1>6, <2>1, <2>4
    <3>3. CASE k <= n
      <4>1. k \in 1..Len(queue) /\ k < l - 1
        BY <1>5, <2>1, <2>4, <3>3
      <4>2. queue'[k] = queue[k]
        BY <1>6, <2>1, <3>3
      <4> QED
        BY <1>7, <3>1, <3>2, <4>1, <4>2
    <3>4. CASE k = n + 1
      <4>1. queue'[k] = c
        BY <1>5, <1>6, <2>1, <3>4
      <4> QED
        BY <1>9, <3>1, <3>2, <4>1
    <3>5. CASE k > n + 1
      <4>1. k - 1 \in 1..Len(queue) /\ k - 1 < l - 1
        BY <1>5, <1>10, <2>1, <3>5
      <4>2. queue'[k] = queue[k - 1]
        BY <1>5, <1>6, <2>1, <3>5
      <4> QED
        BY <1>7, <3>1, <3>2, <4>1, <4>2
    <3> QED
      BY <1>5, <2>1, <3>3, <3>4, <3>5
  <2> QED
    BY <1>5, <2>1, <2>2, <2>3, <2>4
<1> QED
  BY <1>10 DEF QueueOrdered, MayPrecede

\* loop starts a prefix of the queue: what is left was behind what started.
LEMMA LoopOrders ==
  ASSUME RpcBudgetAssumption, CallInv, QueueOrdered, RunsLoop
  PROVE  /\ QueueOrdered'
         /\ \A c, d \in Calls :
              /\ pc[c] = "queued" /\ pc'[c] = "running"
              /\ pc[d] = "queued" /\ pc'[d] = "queued"
              => MayPrecede(c, d)
<1>1. PICK busy \in Int, armed \in BOOLEAN, at \in [Calls -> Point] :
         /\ busy <= MaxInFlight
         /\ Agree(queue, busy, at)
         /\ loop(queue, busy, armed, at)
         /\ ahead' = ahead
  BY LoopRun
<1>2. queue \in Seq(Calls) /\ tokens \in Nat
  BY DEF CallInv, WakeInv, SchedType
<1> DEFINE n == Started(queue, busy)
<1>3. /\ Agree(queue', inFlight', pc')
      /\ n \in Nat /\ n <= Len(queue)
      /\ Len(queue') = Len(queue) - n
      /\ \A i \in 1..Len(queue') : queue'[i] = queue[n + i]
  BY <1>1, <1>2, LoopAgrees
<1>4. Len(queue) \in Nat
  BY <1>2, LenProperties
<1> HIDE DEF n
<1>5. \A d \in Calls : pc'[d] = "queued" <=> \E i \in 1..Len(queue') : queue'[i] = d
  BY <1>3 DEF Agree
<1>6. /\ \A i, j \in 1..Len(queue) : queue[i] = queue[j] => i = j
      /\ \A d \in Calls : pc[d] = "queued" <=> \E i \in 1..Len(queue) : queue[i] = d
  BY DEF CallInv, Agree
<1>7. ASSUME NEW i \in 1..Len(queue'), NEW j \in 1..Len(queue'), i < j
      PROVE  MayPrecede(queue'[i], queue'[j])
  <2>1. n + i \in 1..Len(queue) /\ n + j \in 1..Len(queue) /\ n + i < n + j
    BY <1>3, <1>4, <1>7
  <2>2. MayPrecede(queue[n + i], queue[n + j])
    BY <2>1 DEF QueueOrdered
  <2> QED
    BY <1>3, <2>2
<1>8. QueueOrdered'
  <2>1. \A x, y : MayPrecede(x, y) <=> tier[x] < tier[y] \/ (tier[x] = tier[y] /\ y \notin ahead'[x])
    BY <1>1 DEF MayPrecede
  <2>2. \A i, j \in 1..Len(queue') : i < j =>
            \/ tier[queue'[i]] < tier[queue'[j]]
            \/ tier[queue'[i]] = tier[queue'[j]] /\ queue'[j] \notin ahead'[queue'[i]]
    BY <1>7, <2>1
  <2> QED
    BY <2>2 DEF QueueOrdered, MayPrecede
<1>9. ASSUME NEW c \in Calls, NEW d \in Calls,
             pc[c] = "queued", pc'[c] = "running",
             pc[d] = "queued", pc'[d] = "queued"
      PROVE  MayPrecede(c, d)
  <2>1. PICK i \in 1..Len(queue) : queue[i] = c
    BY <1>6, <1>9
  <2>2. PICK j \in 1..Len(queue') : queue'[j] = d
    BY <1>5, <1>9
  <2>3. n + j \in 1..Len(queue) /\ queue[n + j] = d
    BY <1>3, <1>4, <2>2
  <2>4. i <= n
    <3> SUFFICES ASSUME i > n PROVE FALSE
      BY <1>3, <1>4
    <3>1. i - n \in 1..Len(queue') /\ n + (i - n) = i
      BY <1>3, <1>4
    <3>2. queue'[i - n] = c
      BY <1>3, <2>1, <3>1
    <3> QED
      BY <1>5, <1>9, <3>1, <3>2
  <2>5. i < n + j
    BY <1>3, <1>4, <2>2, <2>4
  <2> QED
    BY <2>1, <2>3, <2>5 DEF QueueOrdered
<1> QED
  BY <1>8, <1>9

OrderInv == CallInv /\ QueueOrdered

\* Only loop starts a call.
LEMMA OnlyLoopStarts ==
  ASSUME CallInv, [Next]_vars, ~RunsLoop
  PROVE  /\ \A c \in Calls : pc[c] = "queued" => pc'[c] # "running"
         /\ ~(\E c \in Calls : Request(c)) => queue' = queue /\ ahead' = ahead
<1>1. pc \in [Calls -> Point]
  BY DEF CallInv, Agree
<1>2. CASE Refill \/ (\E k \in Keys : Sync(k)) \/ UNCHANGED vars
  BY <1>2 DEF Refill, Sync, sched, vars
<1>3. ASSUME NEW d \in Calls, Request(d)
      PROVE  \A c \in Calls : pc[c] = "queued" => pc'[c] # "running"
  BY <1>1, <1>3 DEF Request
<1>4. ASSUME NEW d \in Calls, CacheHit(d) \/ RateLimited(d) \/ Store(d)
      PROVE  /\ \A c \in Calls : pc[c] = "queued" => pc'[c] # "running"
             /\ queue' = queue /\ ahead' = ahead
  BY <1>1, <1>4 DEF CacheHit, RateLimited, Store, sched
<1> QED
  BY <1>2, <1>3, <1>4 DEF Next, CallStep, RunsLoop

\* Every step keeps the queue in order.
LEMMA OrderNext == OrderInv /\ [Next]_vars => OrderInv'
<1> SUFFICES ASSUME OrderInv, [Next]_vars PROVE OrderInv'
  OBVIOUS
<1> USE RpcBudgetAssumption
<1>1. CallInv'
  BY CallNext DEF OrderInv
<1>2. CASE RunsLoop
  BY <1>1, <1>2, LoopOrders DEF OrderInv
<1>3. CASE \E c \in Calls : Request(c)
  BY <1>1, <1>3, RequestOrders DEF OrderInv
<1>4. CASE ~RunsLoop /\ ~\E c \in Calls : Request(c)
  <2>1. queue' = queue /\ ahead' = ahead
    BY <1>4, OnlyLoopStarts DEF OrderInv
  <2> QED
    BY <1>1, <2>1 DEF OrderInv, QueueOrdered, MayPrecede
<1> QED
  BY <1>2, <1>3, <1>4

\* "Requests are admitted in priority order", and within a priority first
\* come, first served: whatever finishes, fails or is pushed meanwhile, a call
\* that starts leaves nobody in the queue who outranks it.
THEOREM AlwaysAdmittedInOrder == Spec => AdmittedInOrder
<1> DEFINE Fair(c, d) ==
             /\ pc[c] = "queued" /\ pc'[c] = "running"
             /\ pc[d] = "queued" /\ pc'[d] = "queued"
             => tier[c] < tier[d] \/ (tier[c] = tier[d] /\ d \notin ahead[c])
<1>1. OrderInv /\ [Next]_vars => \A c, d \in Calls : Fair(c, d)
  <2> SUFFICES ASSUME OrderInv, [Next]_vars PROVE \A c, d \in Calls : Fair(c, d)
    OBVIOUS
  <2>1. CASE RunsLoop
    BY <2>1, RpcBudgetAssumption, LoopOrders DEF OrderInv, MayPrecede
  <2>2. CASE ~RunsLoop
    BY <2>2, OnlyLoopStarts DEF OrderInv
  <2> QED
    BY <2>1, <2>2
<1>2. Init => QueueOrdered
  <2> SUFFICES ASSUME Init PROVE QueueOrdered
    OBVIOUS
  <2>1. Len(queue) = 0
    BY DEF Init
  <2> QED
    BY <2>1 DEF QueueOrdered
<1>3. Spec => []CallInv
  BY CallInvariant
<1>4. Init /\ CallInv => OrderInv
  BY <1>2 DEF OrderInv
<1>5. Spec => []OrderInv
  BY <1>3, <1>4, OrderNext, PTL DEF Spec
<1>6. OrderInv /\ [Next]_vars => [\A c, d \in Calls : Fair(c, d)]_vars
  BY <1>1
<1> QED
  BY <1>5, <1>6, PTL DEF Spec, AdmittedInOrder

-----------------------------------------------------------------------------
(***************************************************************************)
(* The answers and the cache.                                              *)
(***************************************************************************)

\* What the cache may hold: answers, never nulls.
Entry == [key : Keys, value : {"value"}]

DataType ==
    /\ tokens <= Burst
    /\ attempt \in [Calls -> 0..rlRetries]
    /\ value \in [Calls -> {"null", "value"}]
    /\ cache \in Seq(Entry)
    /\ Len(cache) <= MaxEntries
    /\ world \in [Keys -> World]
    /\ asked \in [Calls -> World]
    /\ ahead \in [Calls -> SUBSET Calls]

\* A question asked once its object is on every node is answered with it: the
\* nodes still have it while the call waits and runs, and no null comes back.
Thawed(c) ==
    /\ pc[c] \in {"queued", "running"} /\ asked[c] = "synced" => Known(c) = "synced"
    /\ pc[c] = "resolved" /\ value[c] = "null" => asked[c] # "synced"
    /\ pc[c] = "null" => asked[c] # "synced"

DataInv == CallInv /\ DataType /\ \A c \in Calls : Thawed(c)

\* loop moves calls from "queued" to "running" and nowhere else.
LEMMA LoopMoves ==
  ASSUME NEW q, NEW busy, NEW armed, NEW at, tokens \in Nat,
         q \in Seq(Calls), busy \in Int, MaxInFlight \in Nat, busy <= MaxInFlight,
         Agree(q, busy, at), loop(q, busy, armed, at)
  PROVE  \A c \in Calls : pc'[c] = at[c] \/ (pc'[c] = "running" /\ at[c] = "queued")
<1> DEFINE n == Started(q, busy)
           go == {q[i] : i \in 1..n}
<1>1. n \in Nat /\ n <= Len(q) /\ Len(q) \in Nat
  BY LenProperties DEF Started, Least
<1>2. pc' = [c \in Calls |-> IF c \in go THEN "running" ELSE at[c]]
  BY DEF loop
<1> HIDE DEF n
<1>3. \A c \in Calls : c \in go => at[c] = "queued"
  <2>1. \A i \in 1..n : i \in 1..Len(q)
    BY <1>1
  <2> QED
    BY <2>1 DEF Agree
<1> QED
  BY <1>2, <1>3

\* A bounded sequence stays bounded and typed when the oldest entry gives way.
LEMMA CacheSetType ==
  ASSUME NEW S, cache \in Seq(S), MaxEntries \in Nat \ {0}, Len(cache) <= MaxEntries,
         NEW k, NEW v, [key |-> k, value |-> v] \in S, CacheSet(k, v)
  PROVE  cache' \in Seq(S) /\ Len(cache') <= MaxEntries
<1> DEFINE e == [key |-> k, value |-> v]
           kept == IF Len(cache) >= MaxEntries THEN Tail(cache) ELSE cache
<1>1. Len(cache) \in Nat
  BY LenProperties
<1>2. kept \in Seq(S) /\ Len(kept) \in Nat /\ Len(kept) + 1 <= MaxEntries
  <2>1. CASE Len(cache) >= MaxEntries
    <3>1. cache # <<>>
      BY <1>1, <2>1, EmptySeq
    <3>2. Tail(cache) \in Seq(S) /\ Len(Tail(cache)) = Len(cache) - 1
      BY <3>1, HeadTailProperties
    <3> QED
      BY <1>1, <2>1, <3>2
  <2>2. CASE ~(Len(cache) >= MaxEntries)
    BY <1>1, <2>2
  <2> QED
    BY <2>1, <2>2
<1>3. cache' = cache \/ cache' = Append(kept, e)
  BY DEF CacheSet
<1> HIDE DEF kept, e
<1>4. e \in S
  BY DEF e
<1>5. Append(kept, e) \in Seq(S) /\ Len(Append(kept, e)) = Len(kept) + 1
  BY <1>2, <1>4, AppendProperties
<1> QED
  BY <1>2, <1>3, <1>5

\* The data keep their types under every step.
LEMMA DataTypeNext == DataInv /\ [Next]_vars => DataType'
<1> SUFFICES ASSUME DataInv, [Next]_vars PROVE DataType'
  OBVIOUS
<1> USE RpcBudgetAssumption
<1>1. /\ queue \in Seq(Calls) /\ tokens \in Nat
      /\ pc \in [Calls -> Point]
  BY DEF DataInv, CallInv, WakeInv, SchedType, Agree
<1>2. DataType /\ CallInv
  BY DEF DataInv
<1>3. CASE RunsLoop
  <2>1. PICK busy \in Int, armed \in BOOLEAN, at \in [Calls -> Point] :
          busy <= MaxInFlight /\ Agree(queue, busy, at) /\ loop(queue, busy, armed, at)
    BY <1>2, <1>3, LoopRun
  <2>2. tokens' <= tokens /\ tokens' \in Nat
    <3>1. WakeInv'
      BY <1>2, WakeNext DEF CallInv
    <3> QED
      BY <1>1, <2>1, <3>1, LoopAgrees DEF WakeInv, SchedType
  <2>3. tokens' <= Burst
    BY <1>1, <1>2, <2>2 DEF DataType, RpcBudgetAssumption
  <2>4. cache' = cache /\ world' = world /\ ahead' = ahead
    BY <1>3 DEF RunsLoop, Microtask, TimerFires, Answer, CallFails
  <2>5. /\ attempt' \in [Calls -> 0..rlRetries]
        /\ value' \in [Calls -> {"null", "value"}]
        /\ asked' \in [Calls -> World]
    <3>1. CASE Microtask \/ TimerFires
      BY <1>2, <3>1 DEF Microtask, TimerFires, DataType
    <3>2. ASSUME NEW c \in Calls, Answer(c) \/ CallFails(c)
          PROVE  /\ attempt' \in [Calls -> 0..rlRetries]
                 /\ value' \in [Calls -> {"null", "value"}]
                 /\ asked' \in [Calls -> World]
      <4>1. /\ attempt' = [attempt EXCEPT ![c] = 0]
            /\ value' = value \/ \E v \in {"null", "value"} : value' = [value EXCEPT ![c] = v]
            /\ asked' = asked \/ asked' = [asked EXCEPT ![c] = "lagging"]
        BY <3>2 DEF Answer, CallFails, Answers
      <4>2. 0 \in 0..rlRetries /\ "lagging" \in World
        BY DEF RpcBudgetAssumption, World
      <4>3. attempt' \in [Calls -> 0..rlRetries]
        BY <1>2, <4>1, <4>2 DEF DataType
      <4>4. value' \in [Calls -> {"null", "value"}]
        BY <1>2, <4>1 DEF DataType
      <4>5. asked' \in [Calls -> World]
        BY <1>2, <4>1, <4>2 DEF DataType
      <4> QED
        BY <4>3, <4>4, <4>5
    <3> QED
      BY <1>3, <3>1, <3>2 DEF RunsLoop
  <2> QED
    BY <1>2, <2>3, <2>4, <2>5 DEF DataType
<1>4. CASE Refill
  BY <1>1, <1>2, <1>4 DEF Refill, DataType, RpcBudgetAssumption
<1>5. ASSUME NEW k \in Keys, Sync(k) PROVE DataType'
  <2>1. world' \in [Keys -> World]
    BY <1>2, <1>5 DEF Sync, DataType, World
  <2> QED
    BY <1>2, <1>5, <2>1 DEF Sync, sched, DataType
<1>6. ASSUME NEW c \in Calls, CacheHit(c) PROVE DataType'
  <2>1. \E w \in World : asked' = [asked EXCEPT ![c] = w]
    <3>1. Known(c) \in World /\ "lagging" \in World
      BY <1>2 DEF Known, World, DataType, RpcBudgetAssumption
    <3> QED
      BY <1>6, <3>1 DEF CacheHit
  <2>2. asked' \in [Calls -> World]
    BY <1>2, <2>1 DEF DataType
  <2> QED
    BY <1>2, <1>6, <2>2 DEF CacheHit, sched, DataType
<1>7. ASSUME NEW c \in Calls, Request(c) PROVE DataType'
  <2>1. asked' \in [Calls -> World]
    <3>1. Known(c) \in World
      BY <1>2 DEF Known, World, DataType, RpcBudgetAssumption
    <3> QED
      BY <1>2, <1>7, <3>1 DEF Request, DataType
  <2>2. ahead' \in [Calls -> SUBSET Calls]
    <3>1. ahead' = [d \in Calls |-> CASE d = c -> {e \in Calls : pc[e] = "queued"}
                                      [] pc[d] = "queued" -> ahead[d] \ {c}
                                      [] OTHER -> {}]
      BY <1>7 DEF Request
    <3>2. pc[c] # "queued"
      BY <1>7 DEF Request, MayAsk
    <3>3. \A d \in Calls : ahead[d] \in SUBSET Calls
      BY <1>2 DEF DataType
    <3>4. \A d \in Calls : ahead'[d] \in SUBSET Calls
      BY <3>1, <3>2, <3>3
    <3> QED
      BY <3>1, <3>4
  <2> QED
    BY <1>2, <1>7, <2>1, <2>2 DEF Request, DataType
<1>8. ASSUME NEW c \in Calls, RateLimited(c) PROVE DataType'
  <2>1. attempt' \in [Calls -> 0..rlRetries]
    <3>1. attempt[c] + 1 \in 0..rlRetries
      BY <1>2, <1>8 DEF RateLimited, DataType, RpcBudgetAssumption
    <3> QED
      BY <1>2, <1>8, <3>1 DEF RateLimited, DataType
  <2> QED
    BY <1>2, <1>8, <2>1 DEF RateLimited, sched, DataType
<1>9. ASSUME NEW c \in Calls, Store(c) PROVE DataType'
  <2>1. value' \in [Calls -> {"null", "value"}] /\ asked' \in [Calls -> World]
    BY <1>2, <1>9 DEF Store, DataType, World
  <2>2. cache' \in Seq(Entry) /\ Len(cache') <= MaxEntries
    <3>1. CASE key[c] # NoKey /\ value[c] # "null"
      <4>1. CacheSet(key[c], value[c])
        BY <1>9, <3>1 DEF Store
      <4>2. value[c] = "value" /\ key[c] \in Keys
        BY <1>2, <3>1 DEF DataType, RpcBudgetAssumption
      <4>3. [key |-> key[c], value |-> value[c]] \in Entry
        BY <4>2 DEF Entry
      <4>4. cache \in Seq(Entry) /\ Len(cache) <= MaxEntries /\ MaxEntries \in Nat \ {0}
        BY <1>2 DEF DataType, RpcBudgetAssumption
      <4> QED
        BY <4>1, <4>3, <4>4, CacheSetType
    <3>2. CASE ~(key[c] # NoKey /\ value[c] # "null")
      BY <1>2, <1>9, <3>2 DEF Store, DataType
    <3> QED
      BY <3>1, <3>2
  <2> QED
    BY <1>2, <1>9, <2>1, <2>2 DEF Store, sched, DataType
<1>10. CASE UNCHANGED vars
  BY <1>2, <1>10 DEF vars, DataType
<1> QED
  BY <1>3, <1>4, <1>5, <1>6, <1>7, <1>8, <1>9, <1>10 DEF Next, CallStep, RunsLoop

\* Every step keeps late questions answerable and null-free.
LEMMA ThawNext ==
  ASSUME DataInv, [Next]_vars, NEW d \in Calls
  PROVE  Thawed(d)'
<1> USE RpcBudgetAssumption
<1>1. /\ queue \in Seq(Calls) /\ tokens \in Nat
      /\ inFlight \in Int /\ inFlight <= MaxInFlight /\ MaxInFlight \in Nat
      /\ pc \in [Calls -> Point] /\ Agree(queue, inFlight, pc)
  BY DEF DataInv, CallInv, WakeInv, SchedType, Agree, RpcBudgetAssumption
<1>2. /\ value \in [Calls -> {"null", "value"}]
      /\ asked \in [Calls -> World]
      /\ world \in [Keys -> World]
      /\ key \in [Calls -> Keys \union {NoKey}]
  BY DEF DataInv, DataType, RpcBudgetAssumption
<1>3. /\ pc[d] \in {"queued", "running"} /\ asked[d] = "synced" => Known(d) = "synced"
      /\ pc[d] = "resolved" /\ value[d] = "null" => asked[d] # "synced"
      /\ pc[d] = "null" => asked[d] # "synced"
  BY DEF DataInv, Thawed
<1>4. ASSUME world' = world PROVE Known(d)' = Known(d)
  BY <1>4 DEF Known
<1>5. ASSUME world' = world, asked'[d] = asked[d], value'[d] = value[d],
             pc'[d] = pc[d] \/ (pc[d] = "queued" /\ pc'[d] = "running")
      PROVE  Thawed(d)'
  BY <1>3, <1>4, <1>5 DEF Thawed
<1>6. CASE Microtask \/ TimerFires
  <2>1. PICK armed : loop(queue, inFlight, armed, pc)
    BY <1>6 DEF Microtask, TimerFires
  <2>2. pc'[d] = pc[d] \/ (pc'[d] = "running" /\ pc[d] = "queued")
    BY <1>1, <2>1, LoopMoves
  <2>3. world' = world /\ asked' = asked /\ value' = value
    BY <1>6 DEF Microtask, TimerFires
  <2> QED
    BY <1>5, <2>2, <2>3
<1>7. ASSUME NEW c \in Calls, Answer(c) PROVE Thawed(d)'
  <2> DEFINE at == [pc EXCEPT ![c] = "resolved"]
  <2>1. /\ pc[c] = "running" /\ loop(queue, inFlight - 1, timer, at)
        /\ world' = world /\ asked' = asked
        /\ \E v \in Answers(c) : value' = [value EXCEPT ![c] = v]
    BY <1>7 DEF Answer, finish
  <2>2. Agree(queue, inFlight - 1, at)
    <3>1. "resolved" \in Point \ {"queued", "running"} /\ CallInv
      BY DEF Point, DataInv
    <3> QED
      BY <2>1, <3>1, SlotFreed
  <2>3. at[d] = IF d = c THEN "resolved" ELSE pc[d]
    BY <1>1
  <2> HIDE DEF at
  <2>4. inFlight - 1 \in Int /\ inFlight - 1 <= MaxInFlight
    BY <1>1
  <2>5. pc'[d] = at[d] \/ (pc'[d] = "running" /\ at[d] = "queued")
    BY <1>1, <2>1, <2>2, <2>4, LoopMoves
  <2>6. CASE d = c
    <3>1. pc'[d] = "resolved"
      BY <2>3, <2>5, <2>6
    <3>2. value'[d] = "null" => Known(d) # "synced"
      BY <1>2, <2>1, <2>6 DEF Answers
    <3>3. value'[d] = "null" => asked'[d] # "synced"
      BY <1>3, <2>1, <2>6, <3>2
    <3> QED
      BY <3>1, <3>3 DEF Thawed
  <2>7. CASE d # c
    <3>1. value'[d] = value[d] /\ asked'[d] = asked[d]
      BY <1>2, <2>1, <2>7
    <3> QED
      BY <1>5, <2>1, <2>3, <2>5, <2>7, <3>1
  <2> QED
    BY <2>6, <2>7
<1>8. ASSUME NEW c \in Calls, CallFails(c) PROVE Thawed(d)'
  <2> DEFINE at == [pc EXCEPT ![c] = "idle"]
  <2>1. /\ pc[c] = "running" /\ loop(queue, inFlight - 1, timer, at)
        /\ world' = world /\ asked' = [asked EXCEPT ![c] = "lagging"] /\ value' = value
    BY <1>8 DEF CallFails, finish
  <2>2. Agree(queue, inFlight - 1, at)
    <3>1. "idle" \in Point \ {"queued", "running"} /\ CallInv
      BY DEF Point, DataInv
    <3> QED
      BY <2>1, <3>1, SlotFreed
  <2>3. at[d] = IF d = c THEN "idle" ELSE pc[d]
    BY <1>1
  <2> HIDE DEF at
  <2>4. inFlight - 1 \in Int /\ inFlight - 1 <= MaxInFlight
    BY <1>1
  <2>5. pc'[d] = at[d] \/ (pc'[d] = "running" /\ at[d] = "queued")
    BY <1>1, <2>1, <2>2, <2>4, LoopMoves
  <2>6. CASE d = c
    BY <2>3, <2>5, <2>6 DEF Thawed
  <2>7. CASE d # c
    <3>1. value'[d] = value[d] /\ asked'[d] = asked[d]
      BY <1>2, <2>1, <2>7
    <3> QED
      BY <1>5, <2>1, <2>3, <2>5, <2>7, <3>1
  <2> QED
    BY <2>6, <2>7
<1>9. CASE Refill \/ UNCHANGED vars
  BY <1>5, <1>9 DEF Refill, vars
<1>10. ASSUME NEW k \in Keys, Sync(k) PROVE Thawed(d)'
  <2>1. pc' = pc /\ asked' = asked /\ value' = value
    BY <1>10 DEF Sync
  <2>2. Known(d) = "synced" => Known(d)' = "synced"
    BY <1>2, <1>10 DEF Sync, Known
  <2> QED
    BY <1>3, <2>1, <2>2 DEF Thawed
<1>11. ASSUME NEW c \in Calls, CacheHit(c) PROVE Thawed(d)'
  <2>1. PICK i \in Cached(c) :
          pc' = [pc EXCEPT ![c] = IF cache[i].value = "null" THEN "null" ELSE "idle"]
    BY <1>11 DEF CacheHit
  <2>2. cache[i].value = "value"
    <3>1. cache \in Seq(Entry)
      BY DEF DataInv, DataType
    <3>2. i \in 1..Len(cache)
      BY <2>1, <3>1, LenProperties DEF Cached
    <3>3. cache[i] \in Entry
      BY <3>1, <3>2, ElementOfSeq
    <3> QED
      BY <3>3 DEF Entry
  <2>3. world' = world /\ value' = value
    BY <1>11 DEF CacheHit
  <2>4. CASE d = c
    BY <1>1, <2>1, <2>2, <2>4 DEF Thawed
  <2>5. CASE d # c
    <3>1. pc'[d] = pc[d] /\ asked'[d] = asked[d]
      BY <1>1, <1>2, <1>11, <2>5 DEF CacheHit
    <3> QED
      BY <1>5, <2>3, <3>1
  <2> QED
    BY <2>4, <2>5
<1>12. ASSUME NEW c \in Calls, Request(c) PROVE Thawed(d)'
  <2>1. /\ world' = world /\ value' = value
        /\ pc' = [pc EXCEPT ![c] = "queued"] /\ asked' = [asked EXCEPT ![c] = Known(c)]
    BY <1>12 DEF Request
  <2>2. CASE d = c
    <3>1. pc'[d] = "queued" /\ asked'[d] = Known(d) /\ Known(d)' = Known(d)
      BY <1>1, <1>2, <1>4, <2>1, <2>2
    <3> QED
      BY <3>1 DEF Thawed
  <2>3. CASE d # c
    BY <1>1, <1>2, <1>5, <2>1, <2>3
  <2> QED
    BY <2>2, <2>3
<1>13. ASSUME NEW c \in Calls, RateLimited(c) PROVE Thawed(d)'
  BY <1>5, <1>13 DEF RateLimited
<1>14. ASSUME NEW c \in Calls, Store(c) PROVE Thawed(d)'
  <2>1. /\ pc[c] = "resolved" /\ world' = world
        /\ pc' = [pc EXCEPT ![c] = IF value[c] = "null" THEN "null" ELSE "idle"]
        /\ value' = [value EXCEPT ![c] = "null"]
        /\ asked' = [asked EXCEPT ![c] = IF value[c] = "null" THEN asked[c] ELSE "lagging"]
    BY <1>14 DEF Store
  <2>2. CASE d = c
    <3>1. CASE value[d] = "null"
      <4>1. pc'[d] = "null" /\ asked'[d] = asked[d]
        BY <1>1, <1>2, <2>1, <2>2, <3>1
      <4> QED
        BY <1>3, <2>1, <2>2, <3>1, <4>1 DEF Thawed
    <3>2. CASE value[d] # "null"
      <4>1. pc'[d] = "idle"
        BY <1>1, <2>1, <2>2, <3>2
      <4> QED
        BY <4>1 DEF Thawed
    <3> QED
      BY <3>1, <3>2
  <2>3. CASE d # c
    BY <1>1, <1>2, <1>5, <2>1, <2>3
  <2> QED
    BY <2>2, <2>3
<1> QED
  BY <1>6, <1>7, <1>8, <1>9, <1>10, <1>11, <1>12, <1>13, <1>14 DEF Next, CallStep

\* Types and answers are kept in every reachable state.
THEOREM DataInvariant == Spec => []DataInv
<1> USE RpcBudgetAssumption
<1>1. Init => DataType
  <2> SUFFICES ASSUME Init PROVE DataType
    OBVIOUS
  <2>1. tokens <= Burst /\ cache \in Seq(Entry) /\ Len(cache) <= MaxEntries
    BY DEF Init, RpcBudgetAssumption
  <2>2. /\ attempt \in [Calls -> 0..rlRetries]
        /\ value \in [Calls -> {"null", "value"}]
    BY DEF Init, RpcBudgetAssumption
  <2>3. /\ world \in [Keys -> World]
        /\ asked \in [Calls -> World]
        /\ ahead \in [Calls -> SUBSET Calls]
    BY DEF Init, World
  <2> QED
    BY <2>1, <2>2, <2>3 DEF DataType
<1>2. Init => \A c \in Calls : Thawed(c)
  BY DEF Init, Thawed
<1>3. Init /\ CallInv => DataInv
  BY <1>1, <1>2 DEF DataInv
<1>4. DataInv /\ [Next]_vars => DataInv'
  <2> SUFFICES ASSUME DataInv, [Next]_vars PROVE DataInv'
    OBVIOUS
  <2>1. CallInv' /\ DataType'
    BY CallNext, DataTypeNext DEF DataInv
  <2>2. \A c \in Calls : Thawed(c)'
    BY ThawNext
  <2> QED
    BY <2>1, <2>2 DEF DataInv
<1> QED
  BY <1>3, <1>4, CallInvariant, PTL DEF Spec

\* A null answer is never served from memory: a poll made once every node has
\* the object does not come back empty, whatever was asked before.
THEOREM NeverFreezesNull == Spec => []NoFrozenNull
<1>1. DataInv => NoFrozenNull
  BY DEF DataInv, Thawed, NoFrozenNull
<1> QED
  BY <1>1, DataInvariant, PTL

\* The scheduler and the cache keep to their types and limits: at most
\* MaxInFlight calls in flight, Burst tokens and MaxEntries answers.
THEOREM BudgetTypeCorrect == Spec => []TypeOK
<1>1. DataInv => TypeOK
  <2> SUFFICES ASSUME DataInv PROVE TypeOK
    OBVIOUS
  <2>1. /\ pc \in [Calls -> Point] /\ queue \in Seq(Calls)
        /\ inFlight \in Int /\ inFlight <= MaxInFlight /\ MaxInFlight \in Nat
        /\ tokens \in 0..Burst
    BY RpcBudgetAssumption
       DEF DataInv, DataType, CallInv, WakeInv, SchedType, Agree, RpcBudgetAssumption
  <2>2. timer \in BOOLEAN /\ pumping \in BOOLEAN
    BY Zenon DEF DataInv, CallInv, WakeInv, SchedType
  <2>3. inFlight \in 0..MaxInFlight
    <3> DEFINE running == {c \in Calls : pc[c] = "running"}
    <3>1. inFlight = Cardinality(running)
      BY DEF DataInv, CallInv, Agree
    <3>2. running \subseteq Calls /\ IsFiniteSet(Calls)
      BY RpcBudgetAssumption DEF RpcBudgetAssumption
    <3> HIDE DEF running
    <3>3. Cardinality(running) \in Nat
      BY <3>2, FS_Subset, FS_CardinalityType
    <3> QED
      BY <2>1, <3>1, <3>3
  <2>4. cache \in Seq([key : Keys, value : {"null", "value"}])
    <3>1. cache \in Seq(Entry)
      BY DEF DataInv, DataType
    <3>2. Entry \subseteq [key : Keys, value : {"null", "value"}]
      BY DEF Entry
    <3>3. /\ Len(cache) \in Nat /\ SubSeq(cache, 1, Len(cache)) = cache
          /\ \A i \in 1..Len(cache) : cache[i] \in [key : Keys, value : {"null", "value"}]
      BY <3>1, <3>2, LenProperties, ElementOfSeq, SubSeqFull
    <3>4. SubSeq(cache, 1, Len(cache)) \in Seq([key : Keys, value : {"null", "value"}])
      BY <3>3, SubSeqProperties
    <3> QED
      BY <3>3, <3>4
  <2>5. /\ attempt \in [Calls -> 0..rlRetries] /\ value \in [Calls -> {"null", "value"}]
        /\ Len(cache) <= MaxEntries /\ world \in [Keys -> World]
        /\ asked \in [Calls -> World] /\ ahead \in [Calls -> SUBSET Calls]
    BY DEF DataInv, DataType
  <2> QED
    BY <2>1, <2>2, <2>3, <2>4, <2>5 DEF TypeOK
<1> QED
  BY <1>1, DataInvariant, PTL
============================================================================
