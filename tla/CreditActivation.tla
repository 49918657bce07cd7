-------------------------- MODULE CreditActivation --------------------------
(***************************************************************************)
(* The activation step of the lifecycle tick, with the gateway as source:  *)
(* the agent's wallet turns CREDIT into API balance on the chain.  The     *)
(* daily cap is read from the wallet's Activated events, which a           *)
(* transaction still in flight has not emitted; only the loop's own        *)
(* lastActivation stands for that one, for ten minutes, until the balance  *)
(* has risen, or until the process restarts.  During a deploy two loops    *)
(* share the wallet, and neither knows of the other's lastActivation.  The *)
(* model covers one UTC day; amounts are whole dollars.                    *)
(***************************************************************************)
EXTENDS Integers, FiniteSets, FiniteSetsExt, Functions

CONSTANTS
    Loops,          \* the lifecycle loops that may run at once, one a container
    CreditHeld,     \* CREDIT the wallet starts with
    ApiBalance,     \* the API balance the day starts with
    ActLowWater, ActChunk, ActDailyCap,
    AcMaxEvents     \* bound: failures, restarts, minutes passing, funding

ASSUME CreditActivationAssumption ==
    /\ IsFiniteSet(Loops) /\ Loops # {}
    /\ {CreditHeld, ApiBalance, ActLowWater, ActChunk, ActDailyCap, AcMaxEvents}
           \subseteq Nat

VARIABLES
    acBalance,      \* the API balance
    acHeld,         \* CREDIT the wallet holds
    acToday,        \* the sum of today's Activated events
    acOwed,         \* activated and not in the API balance yet
    acWarm,         \* an 'activated $' row is younger than keepWarmAfterMs
    acAt,           \* each loop: idle, about to send, waiting for the receipt, or
                    \* its transaction is mined
    acLast,         \* each loop's lastActivation: the balance before, amount, under
                    \* ten minutes
    acOwn,          \* the activation a loop's lastActivation stands for while it is
                    \* not mined, 0 for none
    acLost,         \* the sum of those in flight that no lastActivation stands for
    acForgotten,    \* history: the sum of those whose lastActivation was dropped
    acEvents

acVars == <<acBalance, acHeld, acToday, acOwed, acWarm, acAt, acLast, acOwn, acLost,
            acForgotten, acEvents>>

NoActivation == [amount |-> 0, before |-> 0, recent |-> FALSE]
Least(a, b) == IF a < b THEN a ELSE b

AcInit ==
    /\ acBalance = ApiBalance
    /\ acHeld = CreditHeld
    /\ acToday = 0 /\ acOwed = 0
    /\ acWarm \in BOOLEAN
    /\ acAt = [c \in Loops |-> "idle"]
    /\ acLast = [c \in Loops |-> NoActivation]
    /\ acOwn = [c \in Loops |-> 0]
    /\ acLost = 0 /\ acForgotten = 0 /\ acEvents = 0

AcEvent ==
    /\ acEvents < AcMaxEvents
    /\ acEvents' = acEvents + 1

pending(c) == /\ acLast[c].amount > 0 /\ acLast[c].recent
              /\ 2 * (acBalance - acLast[c].before) < acLast[c].amount

\* activationDecision, of a loop with nothing pending: what to activate now.
activationDecision ==
    IF acBalance >= ActLowWater /\ acWarm THEN 0
    ELSE Least(ActChunk, Least(acHeld, IF acToday > ActDailyCap THEN 0
                                       ELSE ActDailyCap - acToday))

\* What the loop starts to send takes the place of what it had in flight, which
\* stays in flight; its lastActivation, if it had one, is dropped.
Replaces(c, amount) ==
    /\ acOwn' = [acOwn EXCEPT ![c] = amount]
    /\ acLost' = acLost + acOwn[c]
    /\ acForgotten' = IF acLast[c].amount > 0 THEN acForgotten + acOwn[c]
                      ELSE acForgotten

\* Mutant of Decide: the loop does not note what it is about to send.
DecideUnmarked(c) ==
    /\ acAt[c] = "idle" /\ ~pending(c)
    /\ Replaces(c, activationDecision)
    /\ acAt' = [acAt EXCEPT ![c] = IF activationDecision > 0 THEN "send" ELSE "idle"]
    /\ UNCHANGED <<acBalance, acHeld, acToday, acOwed, acWarm, acLast, acEvents>>

\* The tick reads the balance, what the wallet holds and, when it matters, the
\* day's events; lastActivation is set before the transaction is sent.  A tick with
\* one pending activates nothing.
Decide(c) ==
    /\ acAt[c] = "idle" /\ ~pending(c)
    /\ Replaces(c, activationDecision)
    /\ IF activationDecision > 0
       THEN /\ acLast' = [acLast EXCEPT ![c] = [amount |-> activationDecision,
                                              before |-> acBalance, recent |-> TRUE]]
            /\ acAt' = [acAt EXCEPT ![c] = "send"]
       ELSE /\ acLast' = [acLast EXCEPT ![c] = NoActivation]
            /\ UNCHANGED acAt
    /\ UNCHANGED <<acBalance, acHeld, acToday, acOwed, acWarm, acEvents>>

\* activateCredit: the transaction is sent, or writeContract throws, even then
\* perhaps after it was broadcast.
SendActivation(c) ==
    /\ acAt[c] = "send"
    /\ \/ /\ acAt' = [acAt EXCEPT ![c] = "wait"]
          /\ UNCHANGED <<acOwn, acEvents>>
       \/ /\ AcEvent
          /\ acAt' = [acAt EXCEPT ![c] = "idle"]
          /\ acOwn' \in {acOwn, [acOwn EXCEPT ![c] = 0]}
    /\ UNCHANGED <<acBalance, acHeld, acToday, acOwed, acWarm, acLast, acLost,
                   acForgotten>>

\* The receipt is there and the row appended; or the tick throws: no receipt
\* within 120 s, a reverted transaction, a row that cannot be stored.
ActivationEnds(c) ==
    /\ acAt[c] \in {"wait", "mined"}
    /\ acAt' = [acAt EXCEPT ![c] = "idle"]
    /\ acWarm' \in IF acAt[c] = "mined" THEN {acWarm, TRUE} ELSE {acWarm}
    /\ UNCHANGED <<acBalance, acHeld, acToday, acOwed, acLast, acOwn, acLost,
                   acForgotten, acEvents>>

\* A transaction is mined, or reverts for want of CREDIT (external).
Burns(amount) ==
    IF amount <= acHeld
    THEN /\ acHeld' = acHeld - amount
         /\ acToday' = acToday + amount
         /\ acOwed' = acOwed + amount
    ELSE UNCHANGED <<acHeld, acToday, acOwed>>

\* One in flight is mined, in any order, or gives way to another of the same nonce;
\* those no loop remembers may be mined in parts (external).
MineOwn(c) ==
    /\ acOwn[c] > 0 /\ acAt[c] # "send"
    /\ acOwn' = [acOwn EXCEPT ![c] = 0]
    /\ \/ /\ Burns(acOwn[c])
          /\ acAt' = IF acAt[c] = "wait" /\ acOwn[c] <= acHeld
                     THEN [acAt EXCEPT ![c] = "mined"] ELSE acAt
          /\ UNCHANGED acEvents
       \/ AcEvent /\ UNCHANGED <<acHeld, acToday, acOwed, acAt>>
    /\ UNCHANGED <<acBalance, acWarm, acLast, acLost, acForgotten>>

MineLost ==
    /\ \E amount \in 1..acLost :
          /\ acLost' = acLost - amount
          /\ \/ Burns(amount) /\ UNCHANGED acEvents
             \/ AcEvent /\ UNCHANGED <<acHeld, acToday, acOwed>>
    /\ UNCHANGED <<acBalance, acWarm, acAt, acLast, acOwn, acForgotten>>

\* The API balance follows the chain and falls as the agent infers (external).
BalanceMoves ==
    /\ \/ /\ acOwed > 0
          /\ acBalance' = acBalance + acOwed /\ acOwed' = 0
          /\ UNCHANGED acEvents
       \/ /\ acBalance > 0 /\ AcEvent
          /\ acBalance' = acBalance - 1 /\ UNCHANGED acOwed
       \/ /\ AcEvent
          /\ acBalance' = acBalance + 1 /\ UNCHANGED acOwed
    /\ UNCHANGED <<acHeld, acToday, acWarm, acAt, acLast, acOwn, acLost, acForgotten>>

TimePasses(c) ==
    /\ AcEvent
    /\ \/ /\ acLast[c].recent /\ acLast' = [acLast EXCEPT ![c].recent = FALSE]
          /\ UNCHANGED acWarm
       \/ acWarm /\ acWarm' = FALSE /\ UNCHANGED acLast
    /\ UNCHANGED <<acBalance, acHeld, acToday, acOwed, acAt, acOwn, acLost,
                   acForgotten>>

\* The container dies and its successor starts with nothing in memory; what was not
\* sent yet never is.
Restart(c) ==
    /\ AcEvent
    /\ acAt' = [acAt EXCEPT ![c] = "idle"]
    /\ acLast' = [acLast EXCEPT ![c] = NoActivation]
    /\ IF acAt[c] = "send"
       THEN acOwn' = [acOwn EXCEPT ![c] = 0] /\ UNCHANGED <<acLost, acForgotten>>
       ELSE Replaces(c, 0)
    /\ UNCHANGED <<acBalance, acHeld, acToday, acOwed, acWarm>>

AcNext ==
    \/ MineLost \/ BalanceMoves
    \/ \E c \in Loops :
          \/ Decide(c) \/ SendActivation(c) \/ ActivationEnds(c)
          \/ MineOwn(c) \/ TimePasses(c) \/ Restart(c)

AcTypeOK ==
    /\ {acBalance, acHeld, acToday, acOwed, acLost, acForgotten} \subseteq Nat
    /\ \A c \in Loops :
          /\ acAt[c] \in {"idle", "send", "wait", "mined"}
          /\ acLast[c].amount \in 0..ActChunk /\ acOwn[c] \in 0..ActChunk
          /\ acAt[c] = "send" => acOwn[c] > 0

\* The comment of activationDecision's caller: "a timeout must not become a second
\* activation".  What is mined and in flight stays within the day's cap, up to what a
\* loop forgot while it was in flight (ten minutes passed, the balance rose for
\* another reason, the process restarted) and one chunk for each other loop, none of
\* which sees in the events what this one has just sent.
ActivationBounded ==
    acToday + acLost + SumFunctionOnSet(acOwn, Loops)
        <= ActDailyCap + ActChunk * (Cardinality(Loops) - 1) + acForgotten
=============================================================================
