---------------------------- MODULE LifecycleLog ----------------------------
(***************************************************************************)
(* lifecycle_log as a hash chain with several writers: during a deploy the *)
(* old and the new worker both append.  A writer keeps the head it knows   *)
(* in memory, stamps a row with its own clock, and only then waits for the *)
(* advisory lock under which the row is checked against the newest row by  *)
(* createdAt and inserted.  A row is its index; its parent is the row its  *)
(* prevHash names, 0 for the genesis hash.                                 *)
(***************************************************************************)
EXTENDS Integers, Sequences

CONSTANTS
    Writers,
    Skew,       \* how far a writer's clock may be ahead
    LlMaxRows,  \* bound: rows
    LlMaxClock  \* bound: stamps

ASSUME LifecycleLogAssumption == {Skew, LlMaxRows, LlMaxClock} \subseteq Nat

VARIABLES
    llRows,     \* in the order of insertion: parent and createdAt
    llWriter,   \* each writer: up or not, its prevHash, the row it is appending
    llAhead,    \* how far its clock is ahead
    llClock

llVars == <<llRows, llWriter, llAhead, llClock>>

Resting == [up |-> FALSE, prevHash |-> 0, at |-> 0, tries |-> 0]

LlInit ==
    /\ llRows = <<>>
    /\ llWriter = [w \in Writers |-> Resting]
    /\ llAhead \in [Writers -> 0..Skew]
    /\ llClock = 1

\* findFirst by createdAt desc: any of the rows with the greatest stamp.
heads == IF llRows = <<>> THEN {0}
         ELSE {i \in DOMAIN llRows : \A j \in DOMAIN llRows :
                                         llRows[i].at >= llRows[j].at}

\* The writer's memory after a step; at is 0 when it appends nothing.
Knows(w, prevHash, at, tries) ==
    llWriter' = [llWriter EXCEPT ![w] =
        [up |-> TRUE, prevHash |-> prevHash, at |-> at, tries |-> tries]]

\* LifecycleLogWriter.fromDb
FromDb(w) ==
    /\ ~llWriter[w].up
    /\ \E h \in heads : Knows(w, h, 0, 0)
    /\ UNCHANGED <<llRows, llAhead, llClock>>

WriterDies(w) ==
    /\ llWriter[w].up
    /\ llWriter' = [llWriter EXCEPT ![w] = Resting]
    /\ UNCHANGED <<llRows, llAhead, llClock>>

\* appendOnce builds and signs the row: it carries the time it was stamped.
Stamp(w) ==
    /\ llWriter[w].up /\ llWriter[w].at = 0
    /\ Len(llRows) < LlMaxRows /\ llClock < LlMaxClock
    /\ Knows(w, llWriter[w].prevHash, llClock + llAhead[w], 1)
    /\ llClock' = llClock + 1
    /\ UNCHANGED <<llRows, llAhead>>

inserted(w) == Append(llRows, [parent |-> llWriter[w].prevHash,
                               at |-> llWriter[w].at])

\* Mutant of Persist: the head is not read again under the lock.
PersistBlindly(w) ==
    /\ llWriter[w].at # 0
    /\ llRows' = inserted(w)
    /\ Knows(w, Len(llRows) + 1, 0, 0)
    /\ UNCHANGED <<llAhead, llClock>>

\* prismaPersist, and the one retry of append: onto the head that has moved,
\* with a new stamp.  A second move, like any other error, is thrown; then the
\* row may have been inserted and the writer does not know.
Persist(w) ==
    /\ llWriter[w].at # 0
    /\ \E h \in heads :
          \/ /\ h = llWriter[w].prevHash
             /\ llRows' = inserted(w)
             /\ Knows(w, Len(llRows) + 1, 0, 0) \/ Knows(w, h, 0, 0)
             /\ UNCHANGED llClock
          \/ /\ h # llWriter[w].prevHash /\ llWriter[w].tries = 1
             /\ Knows(w, h, llClock + llAhead[w], 2)
             /\ llClock' = llClock + 1
             /\ UNCHANGED llRows
          \/ /\ h # llWriter[w].prevHash /\ llWriter[w].tries = 2
             /\ Knows(w, llWriter[w].prevHash, 0, 0)
             /\ UNCHANGED <<llRows, llClock>>
    /\ UNCHANGED llAhead

LlNext == \E w \in Writers : FromDb(w) \/ WriterDies(w) \/ Stamp(w) \/ Persist(w)
LlSpec == LlInit /\ [][LlNext]_llVars

-----------------------------------------------------------------------------
(***************************************************************************)
(* lifecycle-chain.ts: verifyLifecycleRows over the rows in the order of   *)
(* createdAt.  No row is altered, so every body hashes.                    *)
(***************************************************************************)

before(i) == {j \in DOMAIN llRows :
                 \/ llRows[j].at < llRows[i].at
                 \/ (llRows[j].at = llRows[i].at /\ j < i)}
previous(i) == CHOOSE j \in before(i) : before(j) = before(i) \ {j}

unlinked == {i \in DOMAIN llRows : before(i) # {}
                                   /\ llRows[i].parent # previous(i)}
linked == unlinked = {}
forks == {i \in unlinked : llRows[i].parent \in before(i)}
broken == unlinked \ forks

LlTypeOK ==
    /\ \A i \in DOMAIN llRows : llRows[i].parent \in 0..(i - 1)
    /\ \A w \in Writers : llWriter[w].prevHash \in 0..Len(llRows)

\* Rows were stamped in the order in which they were inserted.
ClocksAgree ==
    \A i, j \in DOMAIN llRows : i < j => llRows[i].at < llRows[j].at

\* prismaPersist and append: with the old and the new worker appending at once,
\* dying, losing answers and retrying, the chain has neither a fork nor a break
\* as long as no writer stamps a row earlier than one already inserted.
ChainLinked == ClocksAgree => linked /\ forks = {} /\ broken = {}
=============================================================================
