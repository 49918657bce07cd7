----------------------------- MODULE RpcBudget -----------------------------
(***************************************************************************)
(* The shared RPC budget (packages/rpc-budget/src): every RPC call of the  *)
(* worker looks in the response cache, waits in one priority queue, is     *)
(* admitted by the scheduler's loop while there is a token and a free      *)
(* slot, retries rate-limit errors inside its slot, and stores a non-null  *)
(* answer in the cache.                                                    *)
(*                                                                         *)
(* JavaScript runs each callback to its next await without interruption:   *)
(* one action is one such run.  `pumping` is the pending microtask, `timer`*)
(* the pending setTimeout.  The bucket's fluid refill is counted in whole  *)
(* tokens, the only amounts tryTake can tell apart.                        *)
(***************************************************************************)
EXTENDS Naturals, Sequences, FiniteSets

CONSTANTS
    Calls,          \* the callers, each with one call outstanding at a time
    Keys,           \* cacheable questions
    NoKey,          \* the key of a call whose answer is never cached
    tier,           \* the PRIORITY of each call
    key,            \* the cacheKey of each call
    MaxInFlight,    \* maxInFlight
    Burst,          \* capacity of the token bucket
    MaxEntries,     \* maxEntries of the response cache
    rlRetries       \* rateLimitRetries

ASSUME RpcBudgetAssumption ==
    /\ IsFiniteSet(Calls)
    /\ NoKey \notin Keys
    /\ tier \in [Calls -> Nat]
    /\ key \in [Calls -> Keys \union {NoKey}]
    /\ MaxInFlight \in Nat \ {0}
    /\ Burst \in Nat \ {0}
    /\ MaxEntries \in Nat \ {0}
    /\ rlRetries \in Nat

VARIABLES
    pc,             \* where each call is
    queue,          \* the calls in the priority queue, head first
    inFlight,       \* calls holding a slot
    timer,          \* a setTimeout of loop() is pending
    pumping,        \* a microtask of pump() is pending
    tokens,         \* whole tokens in the bucket
    attempt,        \* `attempt` of a running call
    value,          \* what a resolved call returned: "null" or "value"
    cache,          \* the response cache, oldest entry first
    world,          \* what the nodes know of the object behind each key
    asked,          \* history: what they knew when the call was made
    ahead           \* history: the calls queued when the call was pushed

sched == <<queue, inFlight, timer, pumping, tokens>>
vars == <<pc, queue, inFlight, timer, pumping, tokens, attempt, value, cache,
          world, asked, ahead>>

\* "idle" is a caller without a call, "null" one whose last answer was null.
Point == {"idle", "queued", "running", "resolved", "null"}
World == {"lagging", "synced"}

Init ==
    /\ pc = [c \in Calls |-> "idle"]
    /\ queue = <<>>
    /\ inFlight = 0
    /\ timer = FALSE
    /\ pumping = FALSE
    /\ tokens = Burst
    /\ attempt = [c \in Calls |-> 0]
    /\ value = [c \in Calls |-> "null"]
    /\ cache = <<>>
    /\ world = [k \in Keys |-> "lagging"]
    /\ asked = [c \in Calls |-> "lagging"]
    /\ ahead = [c \in Calls |-> {}]

\* An object (transaction, receipt, block) on some nodes of the load balancer
\* reaches all of them.
Sync(k) ==
    /\ world[k] = "lagging"
    /\ world' = [world EXCEPT ![k] = "synced"]
    /\ UNCHANGED <<pc, sched, attempt, value, cache, asked, ahead>>

-----------------------------------------------------------------------------
(***************************************************************************)
(* RequestScheduler and PriorityQueue.                                     *)
(***************************************************************************)

Least(a, b) == IF a <= b THEN a ELSE b

\* Mutant of PushIndex: walks past entries of the same priority too.
PushIndexLifo(q, c) ==
    Cardinality({i \in DOMAIN q : \E j \in DOMAIN q : i <= j /\ tier[q[j]] < tier[c]})

\* PriorityQueue.push: the entries that stay ahead of c are those up to the
\* last one whose priority number is not larger.
PushIndex(q, c) ==
    Cardinality({i \in DOMAIN q : \E j \in DOMAIN q : i <= j /\ tier[q[j]] <= tier[c]})

push(q, c) ==
    LET i == PushIndex(q, c)
    IN SubSeq(q, 1, i) \o <<c>> \o SubSeq(q, i + 1, Len(q))

\* loop() on a queue q, with `busy` slots taken and `armed` telling whether a
\* timer is pending: starts calls until the queue, the slots or the tokens
\* run out, and arms the timer when the tokens ran out first.  A started call
\* moves to "running"; `at` is where the calls are otherwise.
Started(q, busy) == Least(Least(Len(q), MaxInFlight - busy), tokens)

\* Mutant of loop: the timer is never armed.
LoopUnarmed(q, busy, armed, at) ==
    LET n == Started(q, busy)
        go == {q[i] : i \in 1..n}
    IN /\ queue' = SubSeq(q, n + 1, Len(q))
       /\ inFlight' = busy + n
       /\ tokens' = tokens - n
       /\ timer' = armed
       /\ pc' = [c \in Calls |-> IF c \in go THEN "running" ELSE at[c]]

loop(q, busy, armed, at) ==
    LET n == Started(q, busy)
        go == {q[i] : i \in 1..n}
    IN /\ queue' = SubSeq(q, n + 1, Len(q))
       /\ inFlight' = busy + n
       /\ tokens' = tokens - n
       /\ timer' = (armed \/ (n < Len(q) /\ busy + n < MaxInFlight))
       /\ pc' = [c \in Calls |-> IF c \in go THEN "running" ELSE at[c]]

\* The microtask queued by pump().
Microtask ==
    /\ pumping
    /\ pumping' = FALSE
    /\ loop(queue, inFlight, timer, pc)
    /\ UNCHANGED <<attempt, value, cache, world, asked, ahead>>

TimerFires ==
    /\ timer
    /\ loop(queue, inFlight, FALSE, pc)
    /\ UNCHANGED <<pumping, attempt, value, cache, world, asked, ahead>>

\* Mutant of Refill: every look at the clock drops the fraction of a token
\* that has accrued since the last one.
RefillDropsFraction == tokens < Burst /\ UNCHANGED vars

\* TokenBucket.refill: time passes.
Refill ==
    /\ tokens < Burst
    /\ tokens' = tokens + 1
    /\ UNCHANGED <<pc, queue, inFlight, timer, pumping, attempt, value, cache,
                   world, asked, ahead>>

\* Mutant of finish: a failed call keeps its slot.
FinishKeepsSlot(c, outcome) ==
    LET at == [pc EXCEPT ![c] = outcome]
    IN IF outcome = "idle" THEN loop(queue, inFlight, timer, at)
       ELSE loop(queue, inFlight - 1, timer, at)

\* The `finally` of execute(): the slot is free and loop() runs at once.
finish(c, outcome) ==
    loop(queue, inFlight - 1, timer, [pc EXCEPT ![c] = outcome])

-----------------------------------------------------------------------------
(***************************************************************************)
(* budgetedHttp's request() and the ResponseCache.                         *)
(***************************************************************************)

\* What the nodes know of the object c asks for, if it asks for one.
Known(c) == IF key[c] = NoKey THEN "synced" ELSE world[key[c]]

Cached(c) == {i \in DOMAIN cache : cache[i].key = key[c]}

\* A caller asks, or polls again after a null answer.
MayAsk(c) == pc[c] \in {"idle", "null"}

CacheHit(c) ==
    /\ MayAsk(c)
    /\ \E i \in Cached(c) : LET null == cache[i].value = "null" IN
         /\ pc' = [pc EXCEPT ![c] = IF null THEN "null" ELSE "idle"]
         /\ asked' = [asked EXCEPT ![c] = IF null THEN Known(c) ELSE "lagging"]
    /\ UNCHANGED <<sched, attempt, value, cache, world, ahead>>

\* schedule(): push, then pump().
Request(c) ==
    /\ MayAsk(c)
    /\ Cached(c) = {}
    /\ pc' = [pc EXCEPT ![c] = "queued"]
    /\ asked' = [asked EXCEPT ![c] = Known(c)]
    /\ ahead' = [d \in Calls |-> CASE d = c -> {e \in Calls : pc[e] = "queued"}
                                    [] pc[d] = "queued" -> ahead[d] \ {c}
                                    [] OTHER -> {}]
    /\ queue' = push(queue, c)
    /\ pumping' = TRUE
    /\ UNCHANGED <<inFlight, timer, tokens, attempt, value, cache, world>>

\* What an RPC node may answer: "null" until the node has the object.
Answers(c) == IF Known(c) = "synced" THEN {"value"} ELSE {"null", "value"}

Answer(c) ==
    /\ pc[c] = "running"
    /\ \E v \in Answers(c) : value' = [value EXCEPT ![c] = v]
    /\ attempt' = [attempt EXCEPT ![c] = 0]
    /\ finish(c, "resolved")
    /\ UNCHANGED <<pumping, cache, world, asked, ahead>>

\* A rate-limit error is retried, asleep in the same slot, ...
RateLimited(c) ==
    /\ pc[c] = "running"
    /\ attempt[c] < rlRetries
    /\ attempt' = [attempt EXCEPT ![c] = attempt[c] + 1]
    /\ UNCHANGED <<pc, sched, value, cache, world, asked, ahead>>

\* ... the last one, and any other error, rejects the call.
CallFails(c) ==
    /\ pc[c] = "running"
    /\ attempt' = [attempt EXCEPT ![c] = 0]
    /\ asked' = [asked EXCEPT ![c] = "lagging"]
    /\ finish(c, "idle")
    /\ UNCHANGED <<pumping, value, cache, world, ahead>>

\* Mutant of CacheSet: nothing is evicted.
CacheSetUnbounded(k, v) ==
    cache' = IF \E i \in DOMAIN cache : cache[i].key = k THEN cache
             ELSE Append(cache, [key |-> k, value |-> v])

\* ResponseCache.set.
CacheSet(k, v) ==
    LET kept == IF Len(cache) >= MaxEntries THEN Tail(cache) ELSE cache
    IN cache' = IF \E i \in DOMAIN cache : cache[i].key = k THEN cache
                ELSE Append(kept, [key |-> k, value |-> v])

\* Mutant of Store: a null answer is cached like any other.
StoreNull(c) ==
    /\ pc[c] = "resolved"
    /\ IF key[c] # NoKey THEN CacheSet(key[c], value[c]) ELSE UNCHANGED cache
    /\ pc' = [pc EXCEPT ![c] = IF value[c] = "null" THEN "null" ELSE "idle"]
    /\ value' = [value EXCEPT ![c] = "null"]
    /\ asked' = [asked EXCEPT ![c] = IF value[c] = "null" THEN asked[c] ELSE "lagging"]
    /\ UNCHANGED <<sched, attempt, world, ahead>>

\* The continuation of request() after schedule() resolved.
Store(c) ==
    /\ pc[c] = "resolved"
    /\ IF key[c] # NoKey /\ value[c] # "null"
       THEN CacheSet(key[c], value[c]) ELSE UNCHANGED cache
    /\ pc' = [pc EXCEPT ![c] = IF value[c] = "null" THEN "null" ELSE "idle"]
    /\ value' = [value EXCEPT ![c] = "null"]
    /\ asked' = [asked EXCEPT ![c] = IF value[c] = "null" THEN asked[c] ELSE "lagging"]
    /\ UNCHANGED <<sched, attempt, world, ahead>>

CallStep(c) ==
    \/ CacheHit(c) \/ Request(c) \/ Answer(c) \/ RateLimited(c)
    \/ CallFails(c) \/ Store(c)

Next ==
    \/ Microtask \/ TimerFires \/ Refill
    \/ \E k \in Keys : Sync(k)
    \/ \E c \in Calls : CallStep(c)

Spec == Init /\ [][Next]_vars

\* The event loop runs its microtasks and timers, time refills the bucket,
\* and every running request ends: http() times out after 30 s.
Fairness ==
    /\ WF_vars(Microtask)
    /\ WF_vars(TimerFires)
    /\ WF_vars(Refill)
    /\ \A c \in Calls : WF_vars(Answer(c) \/ CallFails(c))

FairSpec == Spec /\ Fairness

-----------------------------------------------------------------------------
(***************************************************************************)
(* Properties                                                              *)
(***************************************************************************)

\* The scheduler's counters and flags, the calls and the cache have their
\* types, and the counters keep to their limits.
TypeOK ==
    /\ pc \in [Calls -> Point]
    /\ queue \in Seq(Calls)
    /\ inFlight \in 0..MaxInFlight
    /\ timer \in BOOLEAN
    /\ pumping \in BOOLEAN
    /\ tokens \in 0..Burst
    /\ attempt \in [Calls -> 0..rlRetries]
    /\ value \in [Calls -> {"null", "value"}]
    /\ cache \in Seq([key : Keys, value : {"null", "value"}])
    /\ Len(cache) <= MaxEntries
    /\ world \in [Keys -> World]
    /\ asked \in [Calls -> World]
    /\ ahead \in [Calls -> SUBSET Calls]

\* Nobody waits on nobody: while a call is queued and a slot is free, the
\* microtask or the timer that will run loop() is pending.
NoLostWakeup ==
    queue # <<>> /\ inFlight < MaxInFlight => pumping \/ timer

\* The slots in use are those of the running calls, and the queue holds
\* exactly the queued calls, whatever answers, fails or is retried.
SlotsMatchCalls ==
    /\ inFlight = Cardinality({c \in Calls : pc[c] = "running"})
    /\ {queue[i] : i \in DOMAIN queue} = {c \in Calls : pc[c] = "queued"}

\* "Requests are admitted in priority order", first come first served within
\* a tier: when a call starts, no call left in the queue outranks it.
AdmittedInOrder ==
    [][\A c, d \in Calls :
         /\ pc[c] = "queued" /\ pc'[c] = "running"
         /\ pc[d] = "queued" /\ pc'[d] = "queued"
         => tier[c] < tier[d] \/ (tier[c] = tier[d] /\ d \notin ahead[c])]_vars

\* A null answer is never served from memory: once every node has an object,
\* a call for it does not come back empty (the receipt polls of 2026-09-15).
NoFrozenNull == \A c \in Calls : pc[c] = "null" => asked[c] # "synced"

\* A queued call of the most urgent tier is eventually started, whatever
\* traffic the other tiers keep up ("the watcher must keep up").
TopTierServed ==
    \A c \in Calls : (\A d \in Calls : tier[c] <= tier[d])
                       => (pc[c] = "queued" ~> pc[c] = "running")
=============================================================================
