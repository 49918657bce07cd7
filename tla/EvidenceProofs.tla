--------------------------- MODULE EvidenceProofs ---------------------------
(***************************************************************************)
(* What the project shows to others: the log of its key's life, the proofs *)
(* of its reports, the hashes of its frozen files on chain, how much it    *)
(* paid for its credits in a day, and what the resolvers' verdicts rest    *)
(* on.  Each component is proved about on its own, for every value of the  *)
(* constants.                                                              *)
(***************************************************************************)
EXTENDS Artifacts, Receipts, LifecycleLog, CreditActivation, Resolvers, DataInduction,
        SequenceTheorems, FiniteSetTheorems, TLAPS

-----------------------------------------------------------------------------
(***************************************************************************)
(* LifecycleLog: any number of writers, rows, retries and clocks.          *)
(***************************************************************************)

LogRow == [parent : Nat, at : Nat]
LogWriter == [up : BOOLEAN, prevHash : Nat, at : Nat, tries : 0..2]

\* The types the log rests on: a row's parent was inserted before it, and a writer
\* knows a row that is there.
LogTypes ==
    /\ llRows \in Seq(LogRow)
    /\ llWriter \in [Writers -> LogWriter]
    /\ llAhead \in [Writers -> Nat]
    /\ llClock \in Nat
    /\ LlTypeOK

\* While the clocks agree every row names the one inserted just before it.
Chained == ClocksAgree => \A i \in DOMAIN llRows : llRows[i].parent = i - 1

LogInv == LogTypes /\ Chained

-----------------------------------------------------------------------------
\* prismaPersist's findFirst gives a row of the table or the genesis hash ...
LEMMA HeadsInTable ==
    ASSUME LogTypes
    PROVE  heads \subseteq 0..Len(llRows)
  BY DEF LogTypes, heads

\* ... and while the clocks agree it is the last one inserted.
LEMMA HeadIsLast ==
    ASSUME LogTypes, ClocksAgree, NEW h \in heads
    PROVE  h = Len(llRows)
  <1>1. CASE llRows = <<>>
    BY <1>1 DEF heads
  <1>2. CASE llRows # <<>>
    <2>1. /\ Len(llRows) \in DOMAIN llRows
          /\ h \in DOMAIN llRows
          /\ h \in 1..Len(llRows)
          /\ llRows[h].at >= llRows[Len(llRows)].at
          /\ llRows[h].at \in Nat /\ llRows[Len(llRows)].at \in Nat
      <3>1. llRows \in Seq(LogRow) /\ Len(llRows) \in Nat /\ Len(llRows) # 0
        BY <1>2 DEF LogTypes
      <3>2. /\ h \in DOMAIN llRows
            /\ \A j \in DOMAIN llRows : llRows[h].at >= llRows[j].at
        BY <1>2 DEF heads
      <3>3. DOMAIN llRows = 1..Len(llRows) /\ Len(llRows) \in DOMAIN llRows
        BY <3>1
      <3>4. ASSUME NEW j \in DOMAIN llRows PROVE llRows[j].at \in Nat
        <4>1. llRows[j] \in LogRow
          BY <3>1
        <4> QED  BY <4>1 DEF LogRow
      <3> QED  BY <3>2, <3>3, <3>4
    <2>2. h < Len(llRows) => llRows[h].at < llRows[Len(llRows)].at
      BY <2>1 DEF ClocksAgree
    <2> QED  BY <2>1, <2>2
  <1> QED  BY <1>1, <1>2

\* A row that is inserted names the head that was read under the lock.
LEMMA InsertKeepsInv ==
    ASSUME LogInv, NEW w \in Writers,
           llWriter[w].prevHash \in heads, llRows' = inserted(w),
           llWriter' \in [Writers -> LogWriter], UNCHANGED <<llAhead, llClock>>,
           \A v \in Writers : llWriter'[v].prevHash
                                  \in {llWriter[v].prevHash, Len(llRows) + 1}
    PROVE  LogInv'
  <1> DEFINE n == Len(llRows)
             r == [parent |-> llWriter[w].prevHash, at |-> llWriter[w].at]
  <1>1. /\ llRows \in Seq(LogRow) /\ llWriter[w] \in LogWriter /\ r \in LogRow
        /\ n \in Nat /\ DOMAIN llRows = 1..n
    BY DEF LogInv, LogTypes, LogWriter, LogRow
  <1>2. /\ llRows' = Append(llRows, r) /\ llRows' \in Seq(LogRow)
        /\ Len(llRows') = n + 1 /\ DOMAIN llRows' = 1..(n + 1)
        /\ llRows'[n + 1] = r
        /\ \A i \in 1..n : llRows'[i] = llRows[i]
    BY <1>1 DEF inserted
  <1>3. llWriter[w].prevHash \in 0..n
    BY HeadsInTable DEF LogInv
  <1>4. LlTypeOK'
    <2>1. \A i \in 1..(n + 1) : llRows'[i].parent \in 0..(i - 1)
      <3>1. \A i \in 1..n : llRows[i].parent \in 0..(i - 1)
        BY <1>1 DEF LogInv, LogTypes, LlTypeOK
      <3>2. llRows'[n + 1].parent \in 0..n
        BY <1>2, <1>3
      <3> QED  BY <1>1, <1>2, <3>1, <3>2
    <2>2. \A v \in Writers : llWriter'[v].prevHash \in 0..(n + 1)
      BY <1>1 DEF LogInv, LogTypes, LlTypeOK
    <2> QED  BY <1>2, <2>1, <2>2 DEF LlTypeOK
  <1>5. LogTypes'
    BY <1>2, <1>4 DEF LogInv, LogTypes
  <1>6. ASSUME ClocksAgree'
        PROVE  \A i \in DOMAIN llRows' : llRows'[i].parent = i - 1
    <2>1. ClocksAgree
      BY <1>1, <1>2, <1>6 DEF ClocksAgree
    <2>2. llWriter[w].prevHash = n
      BY <2>1, HeadIsLast DEF LogInv
    <2>3. \A i \in 1..n : llRows[i].parent = i - 1
      BY <1>1, <2>1 DEF LogInv, Chained
    <2> QED  BY <1>1, <1>2, <2>2, <2>3
  <1> QED  BY <1>5, <1>6 DEF LogInv, Chained

\* A step that leaves the table alone.
LEMMA RestKeepsInv ==
    ASSUME LogInv, UNCHANGED <<llRows, llAhead>>, llClock' \in Nat,
           llWriter' \in [Writers -> LogWriter],
           \A v \in Writers : llWriter'[v].prevHash \in 0..Len(llRows)
    PROVE  LogInv'
  BY DEF LogInv, LogTypes, LlTypeOK, Chained, ClocksAgree

\* A writer's memory changes to what Knows says of it.
LEMMA KnowsTypes ==
    ASSUME llWriter \in [Writers -> LogWriter], NEW w \in Writers,
           NEW p \in Nat, NEW a \in Nat, NEW t \in 0..2, Knows(w, p, a, t)
    PROVE  /\ llWriter' \in [Writers -> LogWriter]
           /\ \A v \in Writers : llWriter'[v].prevHash \in {llWriter[v].prevHash, p}
  BY DEF Knows, LogWriter

\* The table is empty.
LEMMA InitLog == LlInit => LogInv
  <1> SUFFICES ASSUME LlInit PROVE LogInv
    OBVIOUS
  <1> USE LifecycleLogAssumption
  <1>1. llRows \in Seq(LogRow) /\ Len(llRows) = 0 /\ DOMAIN llRows = {}
    BY DEF LlInit
  <1>2. /\ llWriter \in [Writers -> LogWriter] /\ llClock \in Nat
        /\ \A w \in Writers : llWriter[w].prevHash = 0
    BY DEF LlInit, Resting, LogWriter
  <1>3. llAhead \in [Writers -> Nat]
    BY DEF LlInit
  <1> QED  BY <1>1, <1>2, <1>3 DEF LogInv, LogTypes, LlTypeOK, Chained

\* Every step of the writers.
LEMMA NextLog == LogInv /\ [LlNext]_llVars => LogInv'
  <1> SUFFICES ASSUME LogInv, [LlNext]_llVars PROVE LogInv'
    OBVIOUS
  <1> USE LifecycleLogAssumption
  <1>1. /\ llWriter \in [Writers -> LogWriter] /\ llAhead \in [Writers -> Nat]
        /\ llClock \in Nat /\ Len(llRows) \in Nat
        /\ \A v \in Writers : llWriter[v].prevHash \in 0..Len(llRows)
    BY DEF LogInv, LogTypes, LlTypeOK
  <1>2. ASSUME NEW w \in Writers, NEW p \in 0..Len(llRows), NEW a \in Nat, NEW t \in 0..2,
               Knows(w, p, a, t), UNCHANGED <<llRows, llAhead>>, llClock' \in Nat
        PROVE  LogInv'
    <2>1. /\ llWriter' \in [Writers -> LogWriter]
          /\ \A v \in Writers : llWriter'[v].prevHash \in {llWriter[v].prevHash, p}
      BY <1>1, <1>2, KnowsTypes
    <2>2. \A v \in Writers : llWriter'[v].prevHash \in 0..Len(llRows)
      BY <1>1, <2>1
    <2> QED  BY <1>2, <2>1, <2>2, RestKeepsInv
  <1>3. ASSUME NEW w \in Writers, FromDb(w) PROVE LogInv'
    <2>1. PICK h \in heads : Knows(w, h, 0, 0)
      BY <1>3 DEF FromDb
    <2>2. h \in 0..Len(llRows)
      BY HeadsInTable DEF LogInv
    <2> QED  BY <1>1, <1>2, <1>3, <2>1, <2>2 DEF FromDb
  <1>4. ASSUME NEW w \in Writers, WriterDies(w) PROVE LogInv'
    <2>1. /\ llWriter' \in [Writers -> LogWriter]
          /\ \A v \in Writers : llWriter'[v].prevHash \in 0..Len(llRows)
      BY <1>1, <1>4 DEF WriterDies, Resting, LogWriter
    <2> QED  BY <1>1, <1>4, <2>1, RestKeepsInv DEF WriterDies
  <1>5. ASSUME NEW w \in Writers, Stamp(w) PROVE LogInv'
    <2>1. llWriter[w].prevHash \in 0..Len(llRows) /\ llClock + llAhead[w] \in Nat
      BY <1>1
    <2>2. Knows(w, llWriter[w].prevHash, llClock + llAhead[w], 1)
      BY <1>5 DEF Stamp
    <2>3. UNCHANGED <<llRows, llAhead>> /\ llClock' \in Nat
      BY <1>1, <1>5 DEF Stamp
    <2> QED  BY <1>2, <2>1, <2>2, <2>3
  <1>6. ASSUME NEW w \in Writers, Persist(w) PROVE LogInv'
    <2>1. PICK h \in heads :
              \/ /\ h = llWriter[w].prevHash /\ llRows' = inserted(w)
                 /\ Knows(w, Len(llRows) + 1, 0, 0) \/ Knows(w, h, 0, 0)
                 /\ UNCHANGED llClock
              \/ /\ Knows(w, h, llClock + llAhead[w], 2)
                 /\ llClock' = llClock + 1 /\ UNCHANGED llRows
              \/ /\ Knows(w, llWriter[w].prevHash, 0, 0)
                 /\ UNCHANGED <<llRows, llClock>>
      BY <1>6 DEF Persist
    <2>2. /\ h \in 0..Len(llRows) /\ Len(llRows) + 1 \in Nat
          /\ llWriter[w].prevHash \in 0..Len(llRows) /\ llClock + llAhead[w] \in Nat
      BY <1>1, HeadsInTable DEF LogInv
    <2>3. CASE /\ h = llWriter[w].prevHash /\ llRows' = inserted(w)
               /\ Knows(w, Len(llRows) + 1, 0, 0) \/ Knows(w, h, 0, 0)
               /\ UNCHANGED llClock
      <3>1. /\ llWriter' \in [Writers -> LogWriter]
            /\ \A v \in Writers : llWriter'[v].prevHash
                                       \in {llWriter[v].prevHash, Len(llRows) + 1}
        <4>0. /\ llWriter \in [Writers -> LogWriter] /\ 0 \in Nat /\ 0 \in 0..2
              /\ Len(llRows) + 1 \in Nat /\ h \in Nat
          BY <1>1, <2>2
        <4>1. CASE Knows(w, Len(llRows) + 1, 0, 0)
          BY <4>0, <4>1, KnowsTypes, Zenon
        <4>2. CASE Knows(w, h, 0, 0)
          <5>1. /\ llWriter' \in [Writers -> LogWriter]
                /\ \A v \in Writers : llWriter'[v].prevHash \in {llWriter[v].prevHash, h}
            BY <4>0, <4>2, KnowsTypes, Zenon
          <5>2. ASSUME NEW v \in Writers
                PROVE  llWriter'[v].prevHash \in {llWriter[v].prevHash, Len(llRows) + 1}
            <6>1. CASE v = w
              BY <2>3, <5>1, <6>1
            <6>2. CASE v # w
              BY <1>1, <4>2, <6>2 DEF Knows
            <6> QED  BY <6>1, <6>2
          <5> QED  BY <5>1, <5>2
        <4> QED  BY <2>3, <4>1, <4>2
      <3> QED  BY <1>6, <2>3, <3>1, InsertKeepsInv DEF Persist
    <2>4. CASE /\ Knows(w, h, llClock + llAhead[w], 2)
               /\ llClock' = llClock + 1 /\ UNCHANGED llRows
      <3>1. UNCHANGED <<llRows, llAhead>> /\ llClock' \in Nat
        BY <1>1, <1>6, <2>4 DEF Persist
      <3> QED  BY <1>2, <2>2, <2>4, <3>1
    <2>5. CASE /\ Knows(w, llWriter[w].prevHash, 0, 0)
               /\ UNCHANGED <<llRows, llClock>>
      <3>1. UNCHANGED <<llRows, llAhead>> /\ llClock' \in Nat
        BY <1>1, <1>6, <2>5 DEF Persist
      <3> QED  BY <1>1, <1>2, <2>2, <2>5, <3>1
    <2> QED  BY <2>1, <2>3, <2>4, <2>5
  <1>7. CASE UNCHANGED llVars
    BY <1>1, <1>7, RestKeepsInv DEF llVars
  <1> QED  BY <1>3, <1>4, <1>5, <1>6, <1>7 DEF LlNext

-----------------------------------------------------------------------------
\* verifyLifecycleRows on rows that each name the one inserted just before them.
LEMMA ChainedIsLinked == LogInv => ChainLinked
  <1> SUFFICES ASSUME LogInv, ClocksAgree PROVE linked /\ forks = {} /\ broken = {}
    BY DEF ChainLinked
  <1>1. /\ Len(llRows) \in Nat /\ DOMAIN llRows = 1..Len(llRows)
        /\ \A i \in 1..Len(llRows) : llRows[i].at \in Nat
    <2>1. llRows \in Seq(LogRow)
      BY DEF LogInv, LogTypes
    <2>2. ASSUME NEW i \in 1..Len(llRows) PROVE llRows[i].at \in Nat
      <3>1. llRows[i] \in LogRow
        BY <2>1
      <3> QED  BY <3>1 DEF LogRow
    <2> QED  BY <2>1, <2>2
  <1>2. \A i \in DOMAIN llRows : before(i) = 1..(i - 1)
    <2> TAKE i \in DOMAIN llRows
    <2>1. \A j \in DOMAIN llRows : j \in before(i) <=> j < i
      BY <1>1 DEF before, ClocksAgree
    <2> QED  BY <1>1, <2>1 DEF before
  <1>3. ASSUME NEW i \in DOMAIN llRows, before(i) # {} PROVE previous(i) = i - 1
    <2>1. i - 1 \in before(i) /\ before(i - 1) = before(i) \ {i - 1}
      BY <1>1, <1>2, <1>3
    <2>2. ASSUME NEW j \in before(i), before(j) = before(i) \ {j} PROVE j = i - 1
      <3>1. j \in DOMAIN llRows /\ before(j) = 1..(j - 1)
        BY <1>2, <2>2 DEF before
      <3> QED  BY <1>1, <1>2, <2>1, <2>2, <3>1
    <2> QED  BY <2>1, <2>2 DEF previous
  <1>4. \A i \in DOMAIN llRows : llRows[i].parent = i - 1
    BY DEF LogInv, Chained
  <1>5. unlinked = {}
    BY <1>3, <1>4 DEF unlinked
  <1> QED  BY <1>5 DEF linked, forks, broken

\* prismaPersist: parents precede their rows and writers know rows that are there.
THEOREM LogTypeCorrect == LlSpec => []LlTypeOK
  <1>1. LogInv => LlTypeOK
    BY DEF LogInv, LogTypes
  <1> QED  BY <1>1, InitLog, NextLog, PTL DEF LlSpec

\* append under the advisory lock: whatever the writers, retries, lost answers and
\* deaths, the chain has neither a fork nor a break while the stamps are in the order
\* of insertion.
THEOREM LogNeverForks == LlSpec => []ChainLinked
  BY InitLog, NextLog, ChainedIsLinked, PTL DEF LlSpec

-----------------------------------------------------------------------------
\* Every stamp was read from the clock before now, and a row that is being appended
\* was stamped after the row it names.
Timely ==
    /\ \A i \in DOMAIN llRows : llRows[i].at < llClock
    /\ \A w \in Writers : llWriter[w].at # 0 =>
          /\ llWriter[w].at < llClock
          /\ llWriter[w].prevHash # 0 => llRows[llWriter[w].prevHash].at < llWriter[w].at

\* The writers read one clock.
OneClock == LogInv /\ ClocksAgree /\ Timely /\ \A w \in Writers : llAhead[w] = 0

\* What the log's types say of one row and of one writer.
LEMMA LogNumbers ==
    ASSUME LogInv
    PROVE  /\ llRows \in Seq(LogRow) /\ Len(llRows) \in Nat /\ llClock \in Nat
           /\ DOMAIN llRows = 1..Len(llRows)
           /\ \A i \in 1..Len(llRows) : llRows[i].at \in Nat
           /\ llWriter \in [Writers -> LogWriter]
           /\ \A w \in Writers : /\ llWriter[w].at \in Nat
                                 /\ llWriter[w].prevHash \in 0..Len(llRows)
  <1>1. llRows \in Seq(LogRow) /\ llWriter \in [Writers -> LogWriter] /\ llClock \in Nat
    BY DEF LogInv, LogTypes
  <1>2. ASSUME NEW i \in 1..Len(llRows) PROVE llRows[i].at \in Nat
    <2>1. llRows[i] \in LogRow
      BY <1>1
    <2> QED  BY <2>1 DEF LogRow
  <1>3. ASSUME NEW w \in Writers PROVE llWriter[w].at \in Nat
    BY <1>1 DEF LogWriter
  <1>4. \A w \in Writers : llWriter[w].prevHash \in 0..Len(llRows)
    BY DEF LogInv, LogTypes, LlTypeOK
  <1> QED  BY <1>1, <1>2, <1>3, <1>4

\* What Knows leaves in the writer it is about, and in the others.
LEMMA KnowsIs ==
    ASSUME LogInv, NEW w \in Writers, NEW p, NEW a, NEW t, Knows(w, p, a, t)
    PROVE  /\ llWriter'[w].prevHash = p /\ llWriter'[w].at = a
           /\ \A v \in Writers : v # w => llWriter'[v] = llWriter[v]
  BY DEF Knows, LogInv, LogTypes

\* A step that leaves the table and moves one writer on keeps the stamps in order.
LEMMA WriterKeepsTimely ==
    ASSUME LogInv, ClocksAgree, Timely, NEW w \in Writers, UNCHANGED llRows,
           llClock' \in {llClock, llClock + 1},
           \A v \in Writers : v # w => llWriter'[v] = llWriter[v],
           llWriter'[w].at = 0 \/ ( /\ llWriter'[w].at = llClock /\ llClock' = llClock + 1
                                    /\ llWriter'[w].prevHash \in 0..Len(llRows) )
    PROVE  ClocksAgree' /\ Timely'
  <1>1. ClocksAgree'
    BY DEF ClocksAgree
  <1>2. \A i \in DOMAIN llRows' : llRows'[i].at < llClock'
    BY LogNumbers DEF Timely
  <1>3. ASSUME NEW v \in Writers, llWriter'[v].at # 0
        PROVE  /\ llWriter'[v].at < llClock'
               /\ llWriter'[v].prevHash # 0
                     => llRows'[llWriter'[v].prevHash].at < llWriter'[v].at
    <2>1. CASE v = w
      <3>1. /\ llWriter'[w].at = llClock /\ llClock' = llClock + 1
            /\ llWriter'[w].prevHash \in 0..Len(llRows) /\ llClock \in Nat
        BY <1>3, <2>1, LogNumbers
      <3>2. \A i \in 1..Len(llRows) : llRows[i].at < llClock
        BY LogNumbers DEF Timely
      <3> QED  BY <2>1, <3>1, <3>2, LogNumbers
    <2>2. CASE v # w
      <3>1. /\ llWriter'[v] = llWriter[v] /\ llWriter[v].at \in Nat /\ llClock \in Nat
            /\ llWriter[v].at < llClock
            /\ llWriter[v].prevHash # 0 => llRows[llWriter[v].prevHash].at < llWriter[v].at
        BY <1>3, <2>2, LogNumbers DEF Timely
      <3> QED  BY <3>1
    <2> QED  BY <2>1, <2>2
  <1> QED  BY <1>1, <1>2, <1>3 DEF Timely

\* A row that names the newest one carries the latest stamp.
LEMMA InsertKeepsTimely ==
    ASSUME LogInv, ClocksAgree, Timely, NEW w \in Writers,
           llWriter[w].at # 0, llWriter[w].prevHash \in heads,
           llRows' = inserted(w), UNCHANGED llClock, llWriter'[w].at = 0,
           \A v \in Writers : v # w => llWriter'[v] = llWriter[v]
    PROVE  ClocksAgree' /\ Timely'
  <1> DEFINE n == Len(llRows)
             r == [parent |-> llWriter[w].prevHash, at |-> llWriter[w].at]
  <1>1. /\ llRows \in Seq(LogRow) /\ n \in Nat /\ llClock \in Nat /\ r \in LogRow
        /\ DOMAIN llRows = 1..n /\ \A i \in 1..n : llRows[i].at \in Nat
        /\ \A v \in Writers : llWriter[v].at \in Nat /\ llWriter[v].prevHash \in 0..n
    <2>1. llWriter[w].at \in Nat /\ llWriter[w].prevHash \in Nat
      BY LogNumbers
    <2> QED  BY <2>1, LogNumbers DEF LogRow
  <1>2. /\ llRows' = Append(llRows, r) /\ DOMAIN llRows' = 1..(n + 1)
        /\ llRows'[n + 1] = r /\ \A i \in 1..n : llRows'[i] = llRows[i]
    BY <1>1 DEF inserted
  <1>3. llWriter[w].prevHash = n
    BY HeadIsLast DEF LogInv
  <1>4. n # 0 => llRows[n].at < llWriter[w].at
    BY <1>3 DEF Timely
  <1>5. \A i \in 1..n : llRows[i].at < llWriter[w].at
    <2>1. \A i \in 1..n : i < n => llRows[i].at < llRows[n].at
      BY <1>1 DEF ClocksAgree
    <2> QED  BY <1>1, <1>4, <2>1
  <1>6. llWriter[w].at < llClock
    BY DEF Timely
  <1>7. ClocksAgree'
    <2>1. ASSUME NEW i \in 1..(n + 1), NEW j \in 1..(n + 1), i < j
          PROVE  llRows'[i].at < llRows'[j].at
      <3>1. CASE j = n + 1
        BY <1>1, <1>2, <1>5, <2>1, <3>1
      <3>2. CASE j # n + 1
        <4>0. n \in Nat /\ i \in 1..(n + 1) /\ j \in 1..(n + 1)
          BY <1>1, <2>1
        <4>1. i \in 1..n /\ j \in 1..n
          <5> HIDE DEF n
          <5> QED  BY <2>1, <3>2, <4>0
        <4>2. llRows[i].at < llRows[j].at
          BY <1>1, <2>1, <4>1 DEF ClocksAgree
        <4> QED  BY <1>2, <4>1, <4>2
      <3> QED  BY <3>1, <3>2
    <2> QED  BY <1>2, <2>1 DEF ClocksAgree
  <1>8. \A i \in DOMAIN llRows' : llRows'[i].at < llClock'
    <2>1. \A i \in 1..n : llRows[i].at < llClock
      BY <1>1 DEF Timely
    <2> QED  BY <1>1, <1>2, <1>6, <2>1
  <1>9. ASSUME NEW v \in Writers, llWriter'[v].at # 0
        PROVE  /\ llWriter'[v].at < llClock'
               /\ llWriter'[v].prevHash # 0
                     => llRows'[llWriter'[v].prevHash].at < llWriter'[v].at
    <2>1. v # w /\ llWriter'[v] = llWriter[v]
      BY <1>9
    <2>2. /\ llWriter[v].at < llClock /\ llWriter[v].prevHash \in 0..n
          /\ llWriter[v].prevHash # 0 => llRows[llWriter[v].prevHash].at < llWriter[v].at
      BY <1>1, <1>9, <2>1 DEF Timely
    <2> QED  BY <1>1, <1>2, <2>1, <2>2
  <1> QED  BY <1>7, <1>8, <1>9 DEF Timely

\* Every step of writers that read one clock.
LEMMA NextOneClock == OneClock /\ [LlNext]_llVars => OneClock'
  <1> SUFFICES ASSUME OneClock, [LlNext]_llVars PROVE OneClock'
    OBVIOUS
  <1>1. LogInv /\ ClocksAgree /\ Timely /\ \A w \in Writers : llAhead[w] = 0
    BY DEF OneClock
  <1>2. LogInv'
    BY <1>1, NextLog
  <1>3. llAhead' = llAhead
    BY DEF LlNext, FromDb, WriterDies, Stamp, Persist, llVars
  <1>4. /\ llClock \in Nat /\ heads \subseteq 0..Len(llRows)
        /\ \A w \in Writers : /\ llWriter[w].prevHash \in 0..Len(llRows)
                              /\ llClock + llAhead[w] = llClock
    BY <1>1, LogNumbers, HeadsInTable DEF LogInv
  <1>5. ASSUME NEW w \in Writers, FromDb(w) PROVE ClocksAgree' /\ Timely'
    <2>1. PICK h \in heads : Knows(w, h, 0, 0)
      BY <1>5 DEF FromDb
    <2> QED  BY <1>1, <1>5, <2>1, KnowsIs, WriterKeepsTimely DEF FromDb
  <1>6. ASSUME NEW w \in Writers, WriterDies(w) PROVE ClocksAgree' /\ Timely'
    <2>1. llWriter'[w].at = 0 /\ \A v \in Writers : v # w => llWriter'[v] = llWriter[v]
      BY <1>1, <1>6 DEF WriterDies, Resting, LogInv, LogTypes
    <2> QED  BY <1>1, <1>6, <2>1, WriterKeepsTimely DEF WriterDies
  <1>7. ASSUME NEW w \in Writers, Stamp(w) PROVE ClocksAgree' /\ Timely'
    <2>1. /\ Knows(w, llWriter[w].prevHash, llClock, 1)
          /\ llClock' = llClock + 1 /\ UNCHANGED llRows
      BY <1>4, <1>7 DEF Stamp
    <2> QED  BY <1>1, <1>4, <2>1, KnowsIs, WriterKeepsTimely
  <1>8. ASSUME NEW w \in Writers, Persist(w) PROVE ClocksAgree' /\ Timely'
    <2>1. PICK h \in heads :
              \/ /\ h = llWriter[w].prevHash /\ llRows' = inserted(w)
                 /\ Knows(w, Len(llRows) + 1, 0, 0) \/ Knows(w, h, 0, 0)
                 /\ UNCHANGED llClock
              \/ /\ Knows(w, h, llClock, 2)
                 /\ llClock' = llClock + 1 /\ UNCHANGED llRows
              \/ /\ Knows(w, llWriter[w].prevHash, 0, 0)
                 /\ UNCHANGED <<llRows, llClock>>
      BY <1>4, <1>8 DEF Persist
    <2>2. llWriter[w].at # 0
      BY <1>8 DEF Persist
    <2>3. CASE /\ h = llWriter[w].prevHash /\ llRows' = inserted(w)
               /\ Knows(w, Len(llRows) + 1, 0, 0) \/ Knows(w, h, 0, 0)
               /\ UNCHANGED llClock
      <3>1. /\ llWriter'[w].at = 0
            /\ \A v \in Writers : v # w => llWriter'[v] = llWriter[v]
        BY <1>1, <2>3, KnowsIs
      <3> QED  BY <1>1, <2>2, <2>3, <3>1, InsertKeepsTimely
    <2>4. CASE /\ Knows(w, h, llClock, 2)
               /\ llClock' = llClock + 1 /\ UNCHANGED llRows
      BY <1>1, <1>4, <2>4, KnowsIs, WriterKeepsTimely
    <2>5. CASE /\ Knows(w, llWriter[w].prevHash, 0, 0)
               /\ UNCHANGED <<llRows, llClock>>
      BY <1>1, <2>5, KnowsIs, WriterKeepsTimely
    <2> QED  BY <2>1, <2>3, <2>4, <2>5
  <1>9. ASSUME UNCHANGED llVars PROVE ClocksAgree' /\ Timely'
    <2>1. UNCHANGED llRows /\ UNCHANGED llWriter /\ UNCHANGED llClock
      BY <1>9 DEF llVars
    <2>2. ClocksAgree'
      BY <1>1, <2>1 DEF ClocksAgree
    <2>3. Timely'
      BY <1>1, <2>1 DEF Timely
    <2> QED  BY <1>1, <2>2, <2>3
  <1> QED  BY <1>1, <1>2, <1>3, <1>5, <1>6, <1>7, <1>8, <1>9 DEF OneClock, LlNext

\* prismaPersist and append, where ChainLinked only assumes that the stamps are in the
\* order of insertion: when the old and the new worker read one clock, which gives no
\* stamp twice, they are: whatever the races, retries, lost answers and deaths, the chain
\* never forks or breaks.
THEOREM OneClockNeverForks ==
    ASSUME Skew = 0
    PROVE  LlSpec => [](ClocksAgree /\ linked /\ forks = {} /\ broken = {})
  <1>1. LlInit => OneClock
    <2> SUFFICES ASSUME LlInit PROVE OneClock
      OBVIOUS
    <2>1. \A w \in Writers : llAhead[w] = 0
      BY DEF LlInit
    <2>2. ClocksAgree /\ Timely
      BY DEF LlInit, ClocksAgree, Timely, Resting
    <2> QED  BY <2>1, <2>2, InitLog DEF OneClock
  <1>2. OneClock => ClocksAgree /\ linked /\ forks = {} /\ broken = {}
    BY ChainedIsLinked DEF OneClock, ChainLinked
  <1> QED  BY <1>1, <1>2, NextOneClock, PTL DEF LlSpec

-----------------------------------------------------------------------------
(***************************************************************************)
(* CreditActivation: any number of loops, balance, cap, chunk and events.  *)
(***************************************************************************)

AcSpec == AcInit /\ [][AcNext]_acVars

\* What the loops have sent or are about to, and what the day may come to.
Sent == SumFunctionOnSet(acOwn, Loops)
Spare == ActChunk * (Cardinality(Loops) - 1)
Room == ActDailyCap + Spare

AcTypes ==
    /\ acOwn \in [Loops -> 0..ActChunk]
    /\ acAt \in [Loops -> {"idle", "send", "wait", "mined"}]
    /\ acLast \in [Loops -> [amount : 0..ActChunk, before : Nat, recent : BOOLEAN]]
    /\ {acBalance, acHeld, acToday, acOwed, acLost, acForgotten} \subseteq Nat

\* A loop has its lastActivation for what it sends; what none stands for was
\* forgotten; what is about to be sent counts as sent.
ActivationInv ==
    /\ AcTypes
    /\ \A c \in Loops : /\ acOwn[c] > 0 => acLast[c].amount > 0
                        /\ acAt[c] = "send" => acOwn[c] > 0
    /\ acLost <= acForgotten
    /\ acToday + acLost + Sent <= Room + acForgotten

\* Amounts of at most k add up to at most k for each.
LEMMA SumAtMost ==
    ASSUME NEW S, IsFiniteSet(S), NEW k \in Nat, NEW f, \A x \in S : f[x] \in 0..k
    PROVE  /\ SumFunctionOnSet(f, S) \in Nat
           /\ SumFunctionOnSet(f, S) <= k * Cardinality(S)
  <1> DEFINE P == {T \in SUBSET S : SumFunctionOnSet(f, T) <= k * Cardinality(T)}
  <1>1. {} \in P
    <2>1. SumFunctionOnSet(f, {}) = 0 /\ Cardinality({}) = 0
      BY SumEmpty, FS_EmptySet
    <2>2. k * 0 = 0
      OBVIOUS
    <2> QED  BY <2>1, <2>2
  <1>2. ASSUME NEW T \in SUBSET S, NEW x \in S, T \in P, x \notin T
        PROVE  T \cup {x} \in P
    <2> DEFINE U == T \cup {x}
               n == Cardinality(T)
               s == SumFunctionOnSet(f, T)
    <2>1. IsFiniteSet(T) /\ IsFiniteSet(U) /\ U \in SUBSET S /\ U \ {x} = T /\ x \in U
      <3>1. U \in SUBSET S /\ U \ {x} = T /\ x \in U
        BY <1>2
      <3> QED  BY <3>1, FS_Subset
    <2>2. n \in Nat /\ Cardinality(U) = n + 1
      BY <1>2, <2>1, FS_AddElement, FS_CardinalityType
    <2>3. \A y \in U : f[y] \in Int
      BY <2>1
    <2>4. s \in Int /\ SumFunctionOnSet(f, U) = s + f[x]
      BY <2>1, <2>3, SumAdd
    <2>5. s <= k * n /\ f[x] \in Int /\ f[x] <= k
      BY <1>2
    <2>6. k * n \in Nat /\ k * (n + 1) = k * n + k
      <3> HIDE DEF n
      <3> QED  BY <2>2
    <2> DEFINE y == f[x]
               kn == k * n
    <2>7. SumFunctionOnSet(f, U) <= k * (n + 1)
      <3>1. s + y <= kn + k
        <4> HIDE DEF s, y, kn
        <4> QED  BY <2>4, <2>5, <2>6 DEF y, kn
      <3> QED  BY <2>4, <2>6, <3>1
    <2> QED  BY <2>1, <2>2, <2>7
  <1> HIDE DEF P
  <1>3. SUBSET S \subseteq P
    BY <1>1, <1>2, FiniteSetInduction
  <1>4. SumFunctionOnSet(f, S) <= k * Cardinality(S)
    BY <1>3 DEF P
  <1>5. SumFunctionOnSet(f, S) \in Nat
    <2>1. \A x \in S : f[x] \in Nat
      OBVIOUS
    <2> QED  BY <2>1, SumType
  <1> QED  BY <1>4, <1>5

\* The figures that are fixed, and that sum up to a natural number.
LEMMA Figures ==
    ASSUME AcTypes
    PROVE  /\ ActChunk \in Nat /\ ActDailyCap \in Nat /\ Spare \in Nat /\ Room \in Nat
           /\ Sent \in Nat
  <1>1. ActChunk \in Nat /\ ActDailyCap \in Nat /\ IsFiniteSet(Loops) /\ Loops # {}
    BY CreditActivationAssumption
  <1>2. Cardinality(Loops) - 1 \in Nat
    <2>1. Cardinality(Loops) \in Nat /\ Cardinality(Loops) # 0
      BY <1>1, FS_CardinalityType, FS_EmptySet
    <2> QED  BY <2>1
  <1>3. Spare \in Nat
    BY <1>1, <1>2 DEF Spare
  <1>4. \A c \in Loops : acOwn[c] \in 0..ActChunk
    BY DEF AcTypes
  <1>5. Sent \in Nat
    BY <1>1, <1>4, SumAtMost DEF Sent
  <1> QED  BY <1>1, <1>3, <1>5 DEF Room

\* One loop's amount changes; those of the others come to at most a chunk each.
LEMMA OwnMoves ==
    ASSUME AcTypes, NEW c \in Loops, NEW v \in 0..ActChunk,
           acOwn' = [acOwn EXCEPT ![c] = v]
    PROVE  /\ acOwn' \in [Loops -> 0..ActChunk]
           /\ acOwn'[c] = v /\ \A d \in Loops \ {c} : acOwn'[d] = acOwn[d]
           /\ acOwn[c] \in Nat /\ v \in Nat
           /\ \E others \in Nat :
                 others <= Spare /\ Sent = others + acOwn[c] /\ Sent' = others + v
  <1> DEFINE R == Loops \ {c}
             others == SumFunctionOnSet(acOwn, R)
  <1>1. /\ acOwn \in [Loops -> 0..ActChunk] /\ ActChunk \in Nat /\ IsFiniteSet(Loops)
        /\ acOwn' \in [Loops -> 0..ActChunk]
        /\ acOwn'[c] = v /\ \A d \in R : acOwn'[d] = acOwn[d]
    BY CreditActivationAssumption DEF AcTypes
  <1>2. /\ \A d \in Loops : acOwn[d] \in 0..ActChunk /\ acOwn'[d] \in 0..ActChunk
        /\ \A d \in Loops : acOwn[d] \in Int /\ acOwn'[d] \in Int
        /\ acOwn[c] \in Nat /\ v \in Nat
    BY <1>1
  <1>3. IsFiniteSet(R) /\ Cardinality(R) = Cardinality(Loops) - 1
    BY <1>1, FS_RemoveElement
  <1>4. others \in Nat /\ others <= ActChunk * Cardinality(R)
    <2>1. \A d \in R : acOwn[d] \in 0..ActChunk
      BY <1>2
    <2> QED  BY <1>1, <1>3, <2>1, SumAtMost
  <1>5. others <= Spare
    BY <1>3, <1>4 DEF Spare
  <1>6. Sent = others + acOwn[c]
    BY <1>1, <1>2, SumAdd DEF Sent
  <1>7. SumFunctionOnSet(acOwn', R) = others
    <2>1. \A d \in R : acOwn[d] \in Int /\ acOwn'[d] = acOwn[d]
      BY <1>1, <1>2
    <2> QED  BY <1>3, <2>1, SumEqual
  <1>8. SumFunctionOnSet(acOwn', Loops) = SumFunctionOnSet(acOwn', R) + acOwn'[c]
    BY <1>1, <1>2, SumAdd
  <1>9. Sent' = others + v
    BY <1>1, <1>7, <1>8 DEF Sent
  <1> HIDE DEF others
  <1> QED  BY <1>1, <1>2, <1>4, <1>5, <1>6, <1>9

\* activationDecision sends at most a chunk, within the day's cap as it knows it.
LEMMA DecisionBounded ==
    ASSUME AcTypes
    PROVE  /\ activationDecision \in 0..ActChunk
           /\ activationDecision > 0 => acToday + activationDecision <= ActDailyCap
  <1> DEFINE amount == activationDecision
             room == IF acToday > ActDailyCap THEN 0 ELSE ActDailyCap - acToday
  <1>1. ActChunk \in Nat /\ ActDailyCap \in Nat /\ acToday \in Nat /\ acHeld \in Nat
    BY Figures DEF AcTypes
  <1>2. room \in Nat /\ (room > 0 => acToday + room <= ActDailyCap)
    BY <1>1
  <1>3. amount = 0 \/ amount = Least(ActChunk, Least(acHeld, room))
    BY DEF activationDecision
  <1> HIDE DEF amount, room
  <1>4. /\ amount \in 0..ActChunk
        /\ amount > 0 => acToday + amount <= ActDailyCap
    BY <1>1, <1>2, <1>3 DEF Least
  <1> QED  BY <1>4 DEF amount

\* What takes the place of an activation in flight is counted, and so is that one.
LEMMA ReplacesBounded ==
    ASSUME ActivationInv, NEW c \in Loops, NEW v \in 0..ActChunk, Replaces(c, v),
           v > 0 => acToday + v <= ActDailyCap, UNCHANGED acToday
    PROVE  /\ acOwn' \in [Loops -> 0..ActChunk]
           /\ acOwn'[c] = v /\ \A d \in Loops \ {c} : acOwn'[d] = acOwn[d]
           /\ acLost' \in Nat /\ acForgotten' \in Nat
           /\ acLost' <= acForgotten'
           /\ acToday' + acLost' + Sent' <= Room + acForgotten'
  <1>1. AcTypes /\ acOwn' = [acOwn EXCEPT ![c] = v]
    BY DEF ActivationInv, Replaces
  <1>2. /\ acOwn' \in [Loops -> 0..ActChunk]
        /\ acOwn'[c] = v /\ \A d \in Loops \ {c} : acOwn'[d] = acOwn[d]
        /\ acOwn[c] \in Nat /\ v \in Nat
    BY <1>1, OwnMoves
  <1>3. PICK others \in Nat : others <= Spare /\ Sent = others + acOwn[c] /\ Sent' = others + v
    BY <1>1, OwnMoves
  <1> DEFINE own == acOwn[c]
             sum == Sent
             after == Sent'
  <1>4. /\ {acToday, acLost, acForgotten} \subseteq Nat /\ own \in Nat
        /\ ActDailyCap \in Nat /\ Spare \in Nat
    BY <1>1, <1>2, Figures DEF AcTypes
  <1>5. acLost' = acLost + own /\ acForgotten' = acForgotten + own
    <2>1. acLost' = acLost + own
      BY DEF Replaces
    <2>2. CASE acLast[c].amount > 0
      BY <2>1, <2>2 DEF Replaces
    <2>3. CASE ~(acLast[c].amount > 0)
      <3>1. ~(own > 0)
        BY <2>3 DEF ActivationInv
      <3>2. own = 0
        BY <1>4, <3>1
      <3>3. acForgotten' = acForgotten
        BY <2>3 DEF Replaces
      <3> QED  BY <1>4, <2>1, <3>2, <3>3
    <2> QED  BY <2>2, <2>3
  <1>6. acLost <= acForgotten /\ acToday + acLost + sum <= (ActDailyCap + Spare) + acForgotten
    BY DEF ActivationInv, Room
  <1>7. sum = others + own /\ after = others + v
    BY <1>3
  <1> HIDE DEF own, sum, after
  <1>8. acToday + (acLost + own) + after <= (ActDailyCap + Spare) + (acForgotten + own)
    <2>1. CASE v = 0
      BY <1>4, <1>6, <1>7, <2>1
    <2>2. CASE v > 0
      BY <1>2, <1>3, <1>4, <1>6, <1>7, <2>2
    <2> QED  BY <1>2, <2>1, <2>2
  <1>9. /\ acLost + own <= acForgotten + own
        /\ acLost + own \in Nat /\ acForgotten + own \in Nat
    BY <1>4, <1>6
  <1>10. acToday' + acLost' + Sent' <= Room + acForgotten'
    BY <1>5, <1>8 DEF after, Room
  <1> QED  BY <1>2, <1>5, <1>9, <1>10

\* At the start nothing has been activated.
LEMMA InitActivation == AcInit => ActivationInv
  <1> SUFFICES ASSUME AcInit PROVE ActivationInv
    OBVIOUS
  <1>1. 0 \in 0..ActChunk /\ NoActivation \in [amount : 0..ActChunk, before : Nat, recent : BOOLEAN]
    BY CreditActivationAssumption DEF NoActivation
  <1>2. AcTypes
    BY <1>1, CreditActivationAssumption DEF AcInit, AcTypes
  <1>3. \A c \in Loops : acOwn[c] = 0 /\ acAt[c] = "idle"
    BY DEF AcInit
  <1>4. Sent <= 0 * Cardinality(Loops) /\ Sent \in Nat
    <2>1. \A c \in Loops : acOwn[c] \in 0..0
      BY <1>3
    <2> QED  BY <2>1, SumAtMost, CreditActivationAssumption DEF Sent
  <1>5. Sent = 0
    <2>1. Cardinality(Loops) \in Nat
      BY CreditActivationAssumption, FS_CardinalityType
    <2> QED  BY <1>4, <2>1
  <1>6. acToday + acLost + Sent <= Room + acForgotten /\ acLost <= acForgotten
    <2>1. acToday = 0 /\ acLost = 0 /\ acForgotten = 0
      BY DEF AcInit
    <2>2. Room \in Nat
      BY <1>2, Figures
    <2> QED  BY <1>5, <2>1, <2>2
  <1> QED  BY <1>2, <1>3, <1>6 DEF ActivationInv

\* The tick decides on what it reads of the day and of its own.
LEMMA DecideBounded ==
    ASSUME ActivationInv, NEW c \in Loops, Decide(c)
    PROVE  ActivationInv'
  <1> DEFINE amount == activationDecision
  <1>1. AcTypes
    BY DEF ActivationInv
  <1>2. /\ Replaces(c, amount)
        /\ UNCHANGED <<acBalance, acHeld, acToday, acOwed>>
        /\ IF amount > 0
           THEN /\ acLast' = [acLast EXCEPT ![c] = [amount |-> amount,
                                                  before |-> acBalance, recent |-> TRUE]]
                /\ acAt' = [acAt EXCEPT ![c] = "send"]
           ELSE acLast' = [acLast EXCEPT ![c] = NoActivation] /\ UNCHANGED acAt
        /\ acAt[c] = "idle"
    BY DEF Decide
  <1>3. amount \in 0..ActChunk /\ (amount > 0 => acToday + amount <= ActDailyCap)
    BY <1>1, DecisionBounded
  <1> HIDE DEF amount
  <1>4. /\ acOwn' \in [Loops -> 0..ActChunk]
        /\ acOwn'[c] = amount /\ \A d \in Loops \ {c} : acOwn'[d] = acOwn[d]
        /\ acLost' \in Nat /\ acForgotten' \in Nat
        /\ acLost' <= acForgotten'
        /\ acToday' + acLost' + Sent' <= Room + acForgotten'
    BY <1>2, <1>3, ReplacesBounded
  <1>5. /\ acLast' \in [Loops -> [amount : 0..ActChunk, before : Nat, recent : BOOLEAN]]
        /\ acAt' \in [Loops -> {"idle", "send", "wait", "mined"}]
        /\ \A d \in Loops \ {c} : acLast'[d] = acLast[d] /\ acAt'[d] = acAt[d]
    <2>1. NoActivation \in [amount : 0..ActChunk, before : Nat, recent : BOOLEAN]
      BY CreditActivationAssumption DEF NoActivation
    <2>2. acBalance \in Nat
      BY <1>1 DEF AcTypes
    <2>3. [amount |-> amount, before |-> acBalance, recent |-> TRUE]
              \in [amount : 0..ActChunk, before : Nat, recent : BOOLEAN]
      BY <1>3, <2>2
    <2>4. acLast \in [Loops -> [amount : 0..ActChunk, before : Nat, recent : BOOLEAN]]
          /\ acAt \in [Loops -> {"idle", "send", "wait", "mined"}]
      BY <1>1 DEF AcTypes
    <2>5. \E note \in [amount : 0..ActChunk, before : Nat, recent : BOOLEAN] :
              acLast' = [acLast EXCEPT ![c] = note]
      BY <1>2, <2>1, <2>3
    <2>6. acAt' = [acAt EXCEPT ![c] = "send"] \/ acAt' = acAt
      BY <1>2
    <2>7. /\ acLast' \in [Loops -> [amount : 0..ActChunk, before : Nat, recent : BOOLEAN]]
          /\ \A d \in Loops \ {c} : acLast'[d] = acLast[d]
      BY <2>4, <2>5
    <2>8. /\ acAt' \in [Loops -> {"idle", "send", "wait", "mined"}]
          /\ \A d \in Loops \ {c} : acAt'[d] = acAt[d]
      BY <2>4, <2>6
    <2> QED  BY <2>7, <2>8
  <1>6. /\ amount > 0 => acLast'[c].amount > 0
        /\ acAt'[c] = "send" => amount > 0
    <2>1. acLast \in [Loops -> [amount : 0..ActChunk, before : Nat, recent : BOOLEAN]]
          /\ acAt \in [Loops -> {"idle", "send", "wait", "mined"}]
      BY <1>1 DEF AcTypes
    <2>2. CASE amount > 0
      BY <1>2, <2>1, <2>2
    <2>3. CASE ~(amount > 0)
      BY <1>2, <2>1, <2>3
    <2> QED  BY <2>2, <2>3
  <1>7. AcTypes'
    BY <1>1, <1>2, <1>4, <1>5 DEF AcTypes
  <1>8. \A d \in Loops : /\ acOwn'[d] > 0 => acLast'[d].amount > 0
                         /\ acAt'[d] = "send" => acOwn'[d] > 0
    BY <1>4, <1>5, <1>6 DEF ActivationInv
  <1> QED  BY <1>4, <1>7, <1>8 DEF ActivationInv, Room, Spare

\* The other steps change at most one loop's amount, and never for more.
LEMMA SettlesBounded ==
    ASSUME ActivationInv, NEW c \in Loops, acOwn' = acOwn \/ acOwn' = [acOwn EXCEPT ![c] = 0],
           acAt' \in [Loops -> {"idle", "send", "wait", "mined"}],
           acLast' \in [Loops -> [amount : 0..ActChunk, before : Nat, recent : BOOLEAN]],
           {acBalance', acHeld', acToday', acOwed'} \subseteq Nat,
           UNCHANGED <<acLost, acForgotten>>,
           \/ acToday' = acToday
           \/ acToday' = acToday + acOwn[c] /\ acOwn' = [acOwn EXCEPT ![c] = 0],
           \A d \in Loops : /\ acOwn'[d] > 0 => acLast'[d].amount = acLast[d].amount
                            /\ acAt'[d] = "send" => acAt[d] = "send" /\ acOwn'[d] = acOwn[d]
    PROVE  ActivationInv'
  <1>1. /\ AcTypes /\ acOwn \in [Loops -> 0..ActChunk] /\ 0 \in 0..ActChunk
        /\ {acToday, acLost, acForgotten} \subseteq Nat
    BY Figures DEF ActivationInv, AcTypes
  <1>2. AcTypes'
    BY <1>1 DEF AcTypes
  <1>3. \A d \in Loops : /\ acOwn'[d] > 0 => acLast'[d].amount > 0
                         /\ acAt'[d] = "send" => acOwn'[d] > 0
    <2> SUFFICES ASSUME NEW d \in Loops
                 PROVE  /\ acOwn'[d] > 0 => acLast'[d].amount > 0
                        /\ acAt'[d] = "send" => acOwn'[d] > 0
      OBVIOUS
    <2>1. acOwn'[d] > 0 => acOwn[d] > 0
      <3>1. acOwn'[d] = acOwn[d] \/ acOwn'[d] = 0
        BY <1>1
      <3> QED  BY <3>1
    <2> QED  BY <2>1 DEF ActivationInv
  <1> DEFINE sum == Sent
             after == Sent'
             own == acOwn[c]
  <1>4. \/ after = sum /\ acOwn' = acOwn
        \/ after + own = sum
    <2>1. CASE acOwn' = acOwn
      BY <2>1 DEF Sent
    <2>2. CASE acOwn' = [acOwn EXCEPT ![c] = 0]
      <3> DEFINE none == 0
      <3>1. none \in 0..ActChunk /\ acOwn' = [acOwn EXCEPT ![c] = none] /\ AcTypes
        BY <1>1, <2>2
      <3> HIDE DEF none
      <3>2. PICK others \in Nat :
                others <= Spare /\ Sent = others + acOwn[c] /\ Sent' = others + none
        BY <3>1, OwnMoves
      <3>3. sum = others + own /\ after = others /\ others \in Nat /\ own \in Nat
        BY <1>1, <3>2 DEF none
      <3> HIDE DEF sum, after, own
      <3>4. after + own = sum
        BY <3>3
      <3> QED  BY <3>4
    <2> QED  BY <2>1, <2>2
  <1>5. sum \in Nat /\ after \in Nat /\ own \in Nat /\ Room \in Nat
    <2>1. Sent' \in Nat
      <3>1. \A d \in Loops : acOwn'[d] \in 0..ActChunk
        BY <1>2 DEF AcTypes
      <3>2. IsFiniteSet(Loops) /\ ActChunk \in Nat
        BY CreditActivationAssumption
      <3>3. SumFunctionOnSet(acOwn', Loops) \in Nat
        BY <3>1, <3>2, SumAtMost
      <3> QED  BY <3>3 DEF Sent
    <2> QED  BY <1>1, <2>1, Figures
  <1>6. acToday + acLost + sum <= Room + acForgotten /\ acLost <= acForgotten
    BY DEF ActivationInv
  <1>7. acToday' = acToday \/ (acToday' = acToday + own /\ acOwn' = [acOwn EXCEPT ![c] = 0])
    OBVIOUS
  <1>8. acOwn' = acOwn /\ acOwn' = [acOwn EXCEPT ![c] = 0] => own = 0
    BY <1>1
  <1> HIDE DEF sum, after, own
  <1>9. acToday' + acLost + after <= Room + acForgotten
    BY <1>1, <1>4, <1>5, <1>6, <1>7, <1>8
  <1>10. acToday' + acLost' + Sent' <= Room + acForgotten' /\ acLost' <= acForgotten'
    BY <1>6, <1>9 DEF after
  <1> QED  BY <1>2, <1>3, <1>10 DEF ActivationInv, Room, Spare

\* A transaction that is mined burns CREDIT or reverts.
LEMMA BurnsTypes ==
    ASSUME AcTypes, NEW amount \in Nat, Burns(amount)
    PROVE  /\ {acHeld', acToday', acOwed'} \subseteq Nat
           /\ acToday' = acToday \/ acToday' = acToday + amount
  BY DEF AcTypes, Burns

\* One that no loop remembers is mined.
LEMMA MineLostBounded ==
    ASSUME ActivationInv, MineLost
    PROVE  ActivationInv'
  <1>1. AcTypes /\ {acToday, acLost, acForgotten, acHeld, acOwed} \subseteq Nat /\ Room \in Nat
        /\ Sent \in Nat
    BY Figures DEF ActivationInv, AcTypes
  <1>2. PICK amount \in 1..acLost :
            /\ acLost' = acLost - amount
            /\ Burns(amount) \/ UNCHANGED <<acHeld, acToday, acOwed>>
    BY DEF MineLost
  <1>3. /\ {acHeld', acToday', acOwed'} \subseteq Nat
        /\ acToday' = acToday \/ acToday' = acToday + amount
    <2>1. amount \in Nat
      BY <1>1
    <2> QED  BY <1>1, <1>2, <2>1, BurnsTypes
  <1>4. UNCHANGED <<acBalance, acAt, acLast, acOwn, acForgotten>>
    BY DEF MineLost
  <1>5. acLost' \in Nat /\ acLost' <= acLost
    BY <1>1, <1>2
  <1>6. AcTypes'
    BY <1>1, <1>3, <1>4, <1>5 DEF AcTypes
  <1>7. Sent' = Sent
    BY <1>4 DEF Sent
  <1>8. acLost <= acForgotten /\ acToday + acLost + Sent <= Room + acForgotten
    BY DEF ActivationInv
  <1> DEFINE sum == Sent
  <1>9. sum \in Nat
    BY <1>1
  <1> HIDE DEF sum
  <1>10. acToday' + acLost' + sum <= Room + acForgotten /\ acLost' <= acForgotten
    BY <1>1, <1>2, <1>3, <1>5, <1>8, <1>9 DEF sum
  <1>11. acToday' + acLost' + Sent' <= Room + acForgotten' /\ acLost' <= acForgotten'
    BY <1>4, <1>7, <1>10 DEF sum
  <1> QED  BY <1>4, <1>6, <1>11 DEF ActivationInv, Room, Spare

\* Every step of the loops and of the chain.
LEMMA NextActivation == ActivationInv /\ [AcNext]_acVars => ActivationInv'
  <1> SUFFICES ASSUME ActivationInv, [AcNext]_acVars PROVE ActivationInv'
    OBVIOUS
  <1>1. /\ AcTypes /\ {acBalance, acHeld, acToday, acOwed, acLost, acForgotten} \subseteq Nat
        /\ acOwn \in [Loops -> 0..ActChunk]
        /\ acAt \in [Loops -> {"idle", "send", "wait", "mined"}]
        /\ acLast \in [Loops -> [amount : 0..ActChunk, before : Nat, recent : BOOLEAN]]
    BY DEF ActivationInv, AcTypes
  <1>2. PICK any \in Loops : TRUE
    BY CreditActivationAssumption
  <1>3. ASSUME NEW c \in Loops, SendActivation(c) PROVE ActivationInv'
    <2>1. /\ acAt' = [acAt EXCEPT ![c] = "wait"] \/ acAt' = [acAt EXCEPT ![c] = "idle"]
          /\ acOwn' = acOwn \/ acOwn' = [acOwn EXCEPT ![c] = 0]
          /\ UNCHANGED <<acBalance, acHeld, acToday, acOwed, acLast, acLost, acForgotten>>
      BY <1>3 DEF SendActivation
    <2>2. /\ acAt' \in [Loops -> {"idle", "send", "wait", "mined"}]
          /\ \A d \in Loops : acAt'[d] = "send" => acAt[d] = "send" /\ acOwn'[d] = acOwn[d]
      BY <1>1, <2>1
    <2> QED  BY <1>1, <2>1, <2>2, SettlesBounded
  <1>4. ASSUME NEW c \in Loops, ActivationEnds(c) PROVE ActivationInv'
    <2>1. /\ acAt' = [acAt EXCEPT ![c] = "idle"]
          /\ UNCHANGED <<acBalance, acHeld, acToday, acOwed, acLast, acOwn, acLost, acForgotten>>
      BY <1>4 DEF ActivationEnds
    <2>2. /\ acAt' \in [Loops -> {"idle", "send", "wait", "mined"}]
          /\ \A d \in Loops : acAt'[d] = "send" => acAt[d] = "send" /\ acOwn'[d] = acOwn[d]
      BY <1>1, <2>1
    <2> QED  BY <1>1, <2>1, <2>2, SettlesBounded
  <1>5. ASSUME NEW c \in Loops, MineOwn(c) PROVE ActivationInv'
    <2>1. /\ acOwn' = [acOwn EXCEPT ![c] = 0] /\ acAt[c] # "send"
          /\ acAt' = acAt \/ acAt' = [acAt EXCEPT ![c] = "mined"]
          /\ Burns(acOwn[c]) \/ UNCHANGED <<acHeld, acToday, acOwed>>
          /\ UNCHANGED <<acBalance, acLast, acLost, acForgotten>>
      BY <1>5 DEF MineOwn
    <2>2. /\ {acHeld', acToday', acOwed'} \subseteq Nat
          /\ acToday' = acToday \/ acToday' = acToday + acOwn[c]
      <3>1. acOwn[c] \in Nat
        BY <1>1
      <3> QED  BY <1>1, <2>1, <3>1, BurnsTypes
    <2>3. /\ acAt' \in [Loops -> {"idle", "send", "wait", "mined"}]
          /\ \A d \in Loops : acAt'[d] = "send" => acAt[d] = "send" /\ acOwn'[d] = acOwn[d]
      BY <1>1, <2>1
    <2> QED  BY <1>1, <2>1, <2>2, <2>3, SettlesBounded
  <1>6. CASE BalanceMoves
    <2>1. /\ acBalance' \in Nat /\ acOwed' \in Nat
          /\ UNCHANGED <<acHeld, acToday, acAt, acLast, acOwn, acLost, acForgotten>>
      BY <1>1, <1>6 DEF BalanceMoves
    <2> QED  BY <1>1, <1>2, <2>1, SettlesBounded
  <1>7. ASSUME NEW c \in Loops, TimePasses(c) PROVE ActivationInv'
    <2>1. /\ acLast' = acLast \/ acLast' = [acLast EXCEPT ![c].recent = FALSE]
          /\ UNCHANGED <<acBalance, acHeld, acToday, acOwed, acAt, acOwn, acLost, acForgotten>>
      BY <1>7 DEF TimePasses
    <2>2. /\ acLast' \in [Loops -> [amount : 0..ActChunk, before : Nat, recent : BOOLEAN]]
          /\ \A d \in Loops : acLast'[d].amount = acLast[d].amount
      <3>1. CASE acLast' = acLast
        BY <1>1, <3>1
      <3>2. CASE acLast' = [acLast EXCEPT ![c].recent = FALSE]
        <4> DEFINE note == [acLast[c] EXCEPT !.recent = FALSE]
        <4>1. /\ note \in [amount : 0..ActChunk, before : Nat, recent : BOOLEAN]
              /\ note.amount = acLast[c].amount
          BY <1>1
        <4>2. acLast' = [acLast EXCEPT ![c] = note]
          BY <3>2
        <4> HIDE DEF note
        <4> QED  BY <1>1, <4>1, <4>2
      <3> QED  BY <2>1, <3>1, <3>2
    <2> QED  BY <1>1, <2>1, <2>2, SettlesBounded
  <1>8. ASSUME NEW c \in Loops, Restart(c) PROVE ActivationInv'
    <2>1. /\ acAt' = [acAt EXCEPT ![c] = "idle"]
          /\ acLast' = [acLast EXCEPT ![c] = NoActivation]
          /\ UNCHANGED <<acBalance, acHeld, acToday, acOwed>>
      BY <1>8 DEF Restart
    <2>2. NoActivation \in [amount : 0..ActChunk, before : Nat, recent : BOOLEAN]
          /\ 0 \in 0..ActChunk
      BY CreditActivationAssumption DEF NoActivation
    <2>3. /\ acAt' \in [Loops -> {"idle", "send", "wait", "mined"}]
          /\ acLast' \in [Loops -> [amount : 0..ActChunk, before : Nat, recent : BOOLEAN]]
          /\ acAt'[c] = "idle"
          /\ \A d \in Loops \ {c} : acAt'[d] = acAt[d] /\ acLast'[d] = acLast[d]
      BY <1>1, <2>1, <2>2
    <2>4. CASE acAt[c] = "send"
      <3>1. acOwn' = [acOwn EXCEPT ![c] = 0] /\ UNCHANGED <<acLost, acForgotten>>
        BY <1>8, <2>4 DEF Restart
      <3>2. acOwn'[c] = 0 /\ \A d \in Loops \ {c} : acOwn'[d] = acOwn[d]
        BY <1>1, <3>1
      <3>3. \A d \in Loops : /\ acOwn'[d] > 0 => acLast'[d].amount = acLast[d].amount
                             /\ acAt'[d] = "send" => acAt[d] = "send" /\ acOwn'[d] = acOwn[d]
        BY <2>3, <3>2
      <3>4. {acBalance', acHeld', acToday', acOwed'} \subseteq Nat /\ acToday' = acToday
        BY <1>1, <2>1
      <3> QED  BY <2>3, <3>1, <3>3, <3>4, SettlesBounded
    <2>5. CASE acAt[c] # "send"
      <3>1. Replaces(c, 0)
        BY <1>8, <2>5 DEF Restart
      <3>2. /\ acOwn' \in [Loops -> 0..ActChunk]
            /\ acOwn'[c] = 0 /\ \A d \in Loops \ {c} : acOwn'[d] = acOwn[d]
            /\ acLost' \in Nat /\ acForgotten' \in Nat
            /\ acLost' <= acForgotten'
            /\ acToday' + acLost' + Sent' <= Room + acForgotten'
        BY <2>1, <2>2, <3>1, ReplacesBounded
      <3>3. AcTypes'
        BY <1>1, <2>1, <2>3, <3>2 DEF AcTypes
      <3>4. \A d \in Loops : /\ acOwn'[d] > 0 => acLast'[d].amount > 0
                             /\ acAt'[d] = "send" => acOwn'[d] > 0
        BY <2>3, <3>2 DEF ActivationInv
      <3> QED  BY <3>2, <3>3, <3>4 DEF ActivationInv, Room, Spare
    <2> QED  BY <2>4, <2>5
  <1>9. CASE UNCHANGED acVars
    <2>1. UNCHANGED <<acBalance, acHeld, acToday, acOwed, acAt, acLast, acOwn, acLost, acForgotten>>
      BY <1>9 DEF acVars
    <2> QED  BY <1>1, <1>2, <2>1, SettlesBounded
  <1> QED
    BY <1>3, <1>4, <1>5, <1>6, <1>7, <1>8, <1>9, DecideBounded, MineLostBounded DEF AcNext

\* What is mined and in flight stays within the day's cap, but for what a loop forgot in
\* flight and a chunk for each other loop (activationDecision and its caller).
THEOREM DayBounded == AcSpec => [](AcTypeOK /\ ActivationBounded)
  <1>1. ActivationInv => AcTypeOK /\ ActivationBounded
    <2> SUFFICES ASSUME ActivationInv PROVE AcTypeOK /\ ActivationBounded
      OBVIOUS
    <2>1. AcTypeOK
      <3>1. AcTypes
        BY DEF ActivationInv
      <3>2. \A c \in Loops : /\ acAt[c] \in {"idle", "send", "wait", "mined"}
                             /\ acLast[c].amount \in 0..ActChunk /\ acOwn[c] \in 0..ActChunk
        BY <3>1 DEF AcTypes
      <3>3. {acBalance, acHeld, acToday, acOwed, acLost, acForgotten} \subseteq Nat
        BY <3>1 DEF AcTypes
      <3> QED  BY <3>2, <3>3 DEF ActivationInv, AcTypeOK
    <2>2. acToday + acLost + Sent <= Room + acForgotten
      BY DEF ActivationInv
    <2> QED  BY <2>1, <2>2 DEF ActivationBounded, Sent, Room, Spare
  <1> QED  BY <1>1, InitActivation, NextActivation, PTL DEF AcSpec

-----------------------------------------------------------------------------
(***************************************************************************)
(* Receipts: any batch, block time and horizon.                            *)
(***************************************************************************)

RcSpec == RcInit /\ [][RcNext]_rcVars

-----------------------------------------------------------------------------
(***************************************************************************)
(* The fold of a proof.                                                    *)
(***************************************************************************)

Rehash(x, s) == FoldLeft(hashPair, x, s)
FoldsTo(it, x, s) ==
    it = [t \in SUBSET (DOMAIN s) |->
             IF t = {} THEN x ELSE hashPair(it[t \ {Max(t)}], s[Max(t)])]

\* FoldLeft is a recursion over the subsets of the indices.
LEMMA FoldUnfold ==
    ASSUME NEW x, NEW s
    PROVE  Rehash(x, s) = (CHOOSE it : FoldsTo(it, x, s))[DOMAIN s]
  BY DEF Rehash, FoldLeft, MapThenFoldSet, FoldsTo

\* The recursion over the subsets of a sequence's indices has a solution.
LEMMA FoldSolution ==
    ASSUME NEW x, NEW s, NEW n \in Nat, DOMAIN s = 1..n
    PROVE  FoldsTo(CHOOSE it : FoldsTo(it, x, s), x, s)
  <1> DEFINE D == 1..n
             Step(g) == [t \in SUBSET D |->
                            IF t = {} THEN x ELSE hashPair(g[t \ {Max(t)}], s[Max(t)])]
             Upto(k, g) == \A t \in SUBSET D : Cardinality(t) <= k => g[t] = Step(g)[t]
             N == {k \in Nat : \E g : Upto(k, g)}
  <1>1. IsFiniteSet(D) /\ Cardinality(D) = n
    BY FS_Interval
  <1>2. ASSUME NEW t \in SUBSET D
        PROVE  /\ IsFiniteSet(t) /\ Cardinality(t) \in Nat /\ Cardinality(t) <= n
               /\ t # {} => /\ Max(t) \in t
                            /\ Cardinality(t \ {Max(t)}) = Cardinality(t) - 1
    <2>1. IsFiniteSet(t) /\ Cardinality(t) <= Cardinality(D)
      BY <1>1, FS_Subset
    <2>2. Cardinality(t) \in Nat
      BY <2>1, FS_CardinalityType
    <2>3. t # {} => Max(t) \in t
      <3>1. t \in SUBSET Int
        OBVIOUS
      <3> QED  BY <2>1, <3>1, GreatestIs
    <2>4. t # {} => Cardinality(t \ {Max(t)}) = Cardinality(t) - 1
      BY <2>1, <2>3, FS_RemoveElement
    <2> QED  BY <1>1, <2>1, <2>2, <2>3, <2>4
  <1>3. 0 \in N
    <2> DEFINE g == [t \in SUBSET D |-> x]
    <2>1. ASSUME NEW t \in SUBSET D, Cardinality(t) <= 0 PROVE g[t] = Step(g)[t]
      <3>0. Cardinality(t) \in Nat
        BY <1>2
      <3>1. Cardinality(t) = 0
        BY <3>0, <2>1
      <3>2. t = {}
        BY <3>1, <1>2, FS_EmptySet
      <3> QED  BY <3>2
    <2> QED  BY <2>1
  <1>4. ASSUME NEW k \in Nat, k \in N PROVE k + 1 \in N
    <2>1. PICK g : Upto(k, g)
      BY <1>4
    <2>2. ASSUME NEW t \in SUBSET D, Cardinality(t) <= k + 1
          PROVE  Step(g)[t] = Step(Step(g))[t]
      <3>1. CASE t = {}
        BY <3>1
      <3>2. CASE t # {}
        <4> DEFINE r == t \ {Max(t)}
        <4>0. /\ Cardinality(t) \in Nat /\ Cardinality(t) <= k + 1
              /\ Cardinality(t \ {Max(t)}) = Cardinality(t) - 1
          BY <3>2, <2>2, <1>2
        <4>1. r \in SUBSET D /\ Cardinality(r) <= k
          <5>1. r \in SUBSET D
            OBVIOUS
          <5>2. Cardinality(r) = Cardinality(t) - 1
            BY <4>0
          <5> HIDE DEF r
          <5> QED  BY <5>1, <5>2, <4>0
        <4>2. g[r] = Step(g)[r]
          <5> HIDE DEF Step, r
          <5> QED  BY <2>1, <4>1
        <4>3. Step(g)[t] = hashPair(g[r], s[Max(t)])
          BY <3>2
        <4> DEFINE G == Step(g)
        <4> HIDE DEF G
        <4>4. Step(G)[t] = hashPair(G[r], s[Max(t)])
          BY <3>2
        <4> QED  BY <4>2, <4>3, <4>4 DEF G
      <3> QED  BY <3>1, <3>2
    <2>3. Upto(k + 1, Step(g))
      <3> HIDE DEF Step
      <3> QED  BY <2>2
    <2>4. k + 1 \in Nat
      OBVIOUS
    <2> HIDE DEF Upto, Step
    <2> QED  BY <2>3, <2>4
  <1>5. n \in N
    <2> HIDE DEF N
    <2> QED  BY <1>3, <1>4, NatSetInduction
  <1>6. PICK g : Upto(n, g)
    BY <1>5
  <1> DEFINE it == [t \in SUBSET D |-> g[t]]
  <1>7. \A t \in SUBSET D : it[t] = Step(g)[t]
    <2> HIDE DEF Step
    <2> QED  BY <1>6, <1>2
  <1>8. ASSUME NEW t \in SUBSET D PROVE it[t] = Step(it)[t]
    <2>1. CASE t = {}
      BY <2>1, <1>7
    <2>2. CASE t # {}
      <3>1. it[t \ {Max(t)}] = g[t \ {Max(t)}]
        OBVIOUS
      <3>2. it[t] = hashPair(g[t \ {Max(t)}], s[Max(t)])
        BY <2>2, <1>7
      <3> HIDE DEF it
      <3>3. Step(it)[t] = hashPair(it[t \ {Max(t)}], s[Max(t)])
        BY <2>2
      <3> QED  BY <3>1, <3>2, <3>3
    <2> QED  BY <2>1, <2>2
  <1>9. it = Step(it)
    <2>1. it = [t \in SUBSET D |-> it[t]]
      OBVIOUS
    <2>2. [t \in SUBSET D |-> it[t]] = [t \in SUBSET D |-> Step(it)[t]]
      <3> HIDE DEF it, Step
      <3> QED  BY <1>8
    <2>3. [t \in SUBSET D |-> Step(it)[t]] = Step(it)
      <3> HIDE DEF it
      <3> QED  OBVIOUS
    <2> HIDE DEF it, Step
    <2> QED  BY <2>1, <2>2, <2>3
  <1> HIDE DEF it
  <1>10. FoldsTo(it, x, s)
    BY <1>9 DEF FoldsTo
  <1> QED  BY <1>10

\* f holds what a fold of x over s has come to after each of its n elements.
Traces(f, x, s, n) ==
    /\ f[0] = x /\ f[n] = Rehash(x, s)
    /\ \A k \in 0..(n - 1) : f[k + 1] = hashPair(f[k], s[k + 1])

\* A fold goes along the sequence.
LEMMA FoldSteps ==
    ASSUME NEW x, NEW s, NEW n \in Nat, DOMAIN s = 1..n
    PROVE  \E f : Traces(f, x, s, n)
  <1> DEFINE it == CHOOSE g : FoldsTo(g, x, s)
             f == [k \in 0..n |-> it[1..k]]
  <1>1. FoldsTo(it, x, s)
    BY FoldSolution
  <1>2. Rehash(x, s) = it[1..n]
    BY FoldUnfold
  <1> HIDE DEF it
  <1>3. f[0] = x
    <2>1. 1..0 = {} /\ {} \in SUBSET (DOMAIN s)
      OBVIOUS
    <2>2. it[{}] = x
      BY <2>1, <1>1 DEF FoldsTo
    <2> QED  BY <2>1, <2>2
  <1>4. f[n] = Rehash(x, s)
    BY <1>2
  <1>5. ASSUME NEW k \in 0..(n - 1) PROVE f[k + 1] = hashPair(f[k], s[k + 1])
    <2>1. /\ 1..(k + 1) \in SUBSET Int /\ IsFiniteSet(1..(k + 1)) /\ 1..(k + 1) # {}
          /\ 1..(k + 1) \in SUBSET (DOMAIN s)
      <3>1. k \in Int /\ 1 \in Int /\ k + 1 \in Int
        OBVIOUS
      <3>2. IsFiniteSet(1..(k + 1))
        BY <3>1, FS_Interval
      <3>3. 1 \in 1..(k + 1)
        OBVIOUS
      <3> QED  BY <3>2, <3>3
    <2> DEFINE m == Max(1..(k + 1))
    <2>2. m \in 1..(k + 1) /\ \A y \in 1..(k + 1) : y <= m
      BY <2>1, GreatestIs
    <2> HIDE DEF m
    <2>3. m = k + 1
      BY <2>2
    <2>4. (1..(k + 1)) \ {k + 1} = 1..k
      OBVIOUS
    <2>5. it[1..(k + 1)] = hashPair(it[(1..(k + 1)) \ {m}], s[m])
      BY <2>1, <1>1 DEF FoldsTo, m
    <2>6. it[1..(k + 1)] = hashPair(it[1..k], s[k + 1])
      BY <2>3, <2>4, <2>5
    <2> QED  BY <2>6
  <1> HIDE DEF f
  <1>6. Traces(f, x, s, n)
    BY <1>3, <1>4, <1>5 DEF Traces
  <1> QED  BY <1>6

\* Two recursions from one value by one step agree.
LEMMA FoldAgrees ==
    ASSUME NEW n \in Nat, NEW f, NEW g,
           f[0] = g[0],
           \A k \in 0..(n - 1) : f[k] = g[k] => f[k + 1] = g[k + 1]
    PROVE  f[n] = g[n]
  <1> DEFINE N == {k \in Nat : k <= n => f[k] = g[k]}
  <1>1. 0 \in N
    OBVIOUS
  <1>2. ASSUME NEW k \in Nat, k \in N PROVE k + 1 \in N
    <2>1. ASSUME k + 1 <= n PROVE f[k + 1] = g[k + 1]
      <3>1. k \in 0..(n - 1) /\ f[k] = g[k]
        BY <2>1, <1>2
      <3> QED  BY <3>1
    <2> QED  BY <2>1
  <1> HIDE DEF N
  <1>3. n \in N
    BY <1>1, <1>2, NatSetInduction
  <1> QED  BY <1>3 DEF N

\* The proof of a leaf alone is empty.
LEMMA FoldEmpty ==
    ASSUME NEW x
    PROVE  Rehash(x, <<>>) = x
  <1>1. DOMAIN <<>> = 1..0
    OBVIOUS
  <1>2. PICK f : Traces(f, x, <<>>, 0)
    BY <1>1, FoldSteps
  <1> QED  BY <1>2 DEF Traces

\* One more sibling is hashed last.
LEMMA FoldAppend ==
    ASSUME NEW x, NEW S, NEW s \in Seq(S), NEW e \in S
    PROVE  Rehash(x, Append(s, e)) = hashPair(Rehash(x, s), e)
  <1> DEFINE n == Len(s)
             s2 == Append(s, e)
  <1>1. /\ n \in Nat /\ n + 1 \in Nat /\ DOMAIN s = 1..n /\ DOMAIN s2 = 1..(n + 1)
        /\ s2[n + 1] = e
        /\ \A k \in 1..n : s2[k] = s[k]
    OBVIOUS
  <1> HIDE DEF n, s2
  <1>0. n \in Nat /\ DOMAIN s = 1..n
    BY <1>1
  <1>a. PICK f : Traces(f, x, s, n)
    BY <1>0, FoldSteps
  <1>2. /\ f[0] = x /\ f[n] = Rehash(x, s)
        /\ \A k \in 0..(n - 1) : f[k + 1] = hashPair(f[k], s[k + 1])
    BY <1>a DEF Traces
  <1>b. PICK g : Traces(g, x, s2, n + 1)
    BY <1>1, FoldSteps
  <1>3. /\ g[0] = x /\ g[n + 1] = Rehash(x, s2)
        /\ \A k \in 0..((n + 1) - 1) : g[k + 1] = hashPair(g[k], s2[k + 1])
    BY <1>b DEF Traces
  <1>4. \A k \in 0..(n - 1) : g[k + 1] = hashPair(g[k], s[k + 1])
    <2>1. ASSUME NEW k \in 0..(n - 1) PROVE g[k + 1] = hashPair(g[k], s[k + 1])
      <3>1. k \in 0..((n + 1) - 1) /\ k + 1 \in 1..n
        BY <1>1
      <3>2. s2[k + 1] = s[k + 1]
        BY <1>1, <3>1
      <3> QED  BY <3>1, <3>2, <1>3
    <2> QED  BY <2>1
  <1>5. f[n] = g[n]
    <2>1. f[0] = g[0]
      BY <1>2, <1>3
    <2>2. \A k \in 0..(n - 1) : f[k] = g[k] => f[k + 1] = g[k + 1]
      BY <1>2, <1>4
    <2> QED  BY <1>0, <2>1, <2>2, FoldAgrees
  <1>6. g[n + 1] = hashPair(g[n], e)
    <2>1. n \in 0..((n + 1) - 1)
      BY <1>1
    <2> QED  BY <2>1, <1>1, <1>3
  <1> QED  BY <1>2, <1>3, <1>5, <1>6 DEF s2

\* Two leaves with the same proof and the same root are the same.
LEMMA FoldInjective ==
    ASSUME NEW x, NEW y, NEW S, NEW s \in Seq(S)
    PROVE  Rehash(x, s) = Rehash(y, s) => x = y
  <1> DEFINE n == Len(s)
  <1>1. n \in Nat /\ DOMAIN s = 1..n
    OBVIOUS
  <1> HIDE DEF n
  <1>a. PICK f : Traces(f, x, s, n)
    BY <1>1, FoldSteps
  <1>2. /\ f[0] = x /\ f[n] = Rehash(x, s)
        /\ \A k \in 0..(n - 1) : f[k + 1] = hashPair(f[k], s[k + 1])
    BY <1>a DEF Traces
  <1>b. PICK g : Traces(g, y, s, n)
    BY <1>1, FoldSteps
  <1>3. /\ g[0] = y /\ g[n] = Rehash(y, s)
        /\ \A k \in 0..(n - 1) : g[k + 1] = hashPair(g[k], s[k + 1])
    BY <1>b DEF Traces
  <1> SUFFICES ASSUME Rehash(x, s) = Rehash(y, s) PROVE x = y
    OBVIOUS
  <1>4. ASSUME NEW a, NEW b, NEW c, hashPair(a, c) = hashPair(b, c) PROVE a = b
    <2>1. {a, c} = {b, c}
      BY <1>4 DEF hashPair
    <2>2. a \in {b, c} /\ b \in {a, c}
      BY <2>1, Zenon
    <2> QED  BY <2>2
  <1> DEFINE N == {k \in Nat : k <= n /\ f[k] = g[k] => x = y}
  <1>5. 0 \in N
    BY <1>2, <1>3
  <1>6. ASSUME NEW k \in Nat, k \in N PROVE k + 1 \in N
    <2>1. ASSUME k + 1 <= n, f[k + 1] = g[k + 1] PROVE x = y
      <3>1. k \in 0..(n - 1) /\ k <= n
        BY <2>1, <1>1
      <3>2. hashPair(f[k], s[k + 1]) = hashPair(g[k], s[k + 1])
        BY <3>1, <2>1, <1>2, <1>3
      <3>3. f[k] = g[k]
        BY <3>2, <1>4
      <3> QED  BY <3>1, <3>3, <1>6
    <2> QED  BY <2>1
  <1> HIDE DEF N
  <1>7. n \in N
    BY <1>1, <1>5, <1>6, NatSetInduction
  <1> QED  BY <1>1, <1>2, <1>3, <1>7 DEF N

-----------------------------------------------------------------------------
(***************************************************************************)
(* The tree under construction: each node of the level is what the proof   *)
(* so far gives of every leaf under it.                                    *)
(***************************************************************************)

Leaves == ToSet(rcBatch)

TreeTypes ==
    /\ rcBatch \in Batches /\ rcTime \in CommitTimes
    /\ rcLevel \in Seq(ToSet(rcLevel))
    /\ rcGroups \in Seq(SUBSET Leaves)
    /\ Len(rcLevel) = Len(rcGroups)
    /\ rcProofs = [l \in Leaves |-> rcProofs[l]]
    /\ \A l \in Leaves : rcProofs[l] \in Seq(ToSet(rcProofs[l]))

\* Every leaf is under one node.
Partitioned ==
    /\ \A l \in Leaves : \E i \in 1..Len(rcLevel) : l \in rcGroups[i]
    /\ \A i, j \in 1..Len(rcLevel) : rcGroups[i] \cap rcGroups[j] # {} => i = j

ProofsHold ==
    \A i \in 1..Len(rcLevel) : \A l \in rcGroups[i] :
        Rehash(LeafHash[l], rcProofs[l]) = rcLevel[i]

LeafOf(r) == [report |-> r, proof |-> rcProofs[r]]

Stored ==
    rcCommit # NoCommit =>
        /\ Len(rcLevel) = 1
        /\ rcCommit = [root |-> rcLevel[1], leaves |-> {LeafOf(r) : r \in Leaves}]

\* A receipt says what its commit row says, and one given before says nothing.
Answered ==
    rcReceipt # Unasked =>
        LET r == rcReceipt
        IN  /\ r.content \in Askable /\ r.other \in Askable /\ r.horizon \in Horizons
            /\ r.commit.committed \in BOOLEAN
            /\ r.commit.committed =>
                   /\ rcCommit # NoCommit /\ r.other \in Leaves
                   /\ r.commit.root = rcCommit.root /\ r.commit.tx = "own"
                   /\ r.commit.proof = rcProofs[r.other]
                   /\ r.commit.time \in {rcTime, -1}
            /\ ~r.commit.committed => r.commit.tx = "none"
            /\ r.eligibility = classifyEligibility(0, r.commit.committed,
                                                   r.commit.time, r.horizon)

ReceiptInv == TreeTypes /\ Partitioned /\ ProofsHold /\ Stored /\ Answered

\* classifyEligibility gives one of the five classes.
LEMMA ClassIn ==
    ASSUME NEW rt, NEW c, NEW bt, NEW h
    PROVE  classifyEligibility(rt, c, bt, h) \in Eligibilities
  BY DEF classifyEligibility, Eligibilities

\* A function on 1..n is a sequence of its values.
LEMMA SeqMade ==
    ASSUME NEW n \in Nat, NEW f, f = [i \in 1..n |-> f[i]]
    PROVE  f \in Seq(ToSet(f)) /\ Len(f) = n
  <1>1. DOMAIN f = 1..n
    OBVIOUS
  <1>2. \A i \in 1..n : f[i] \in ToSet(f)
    BY <1>1 DEF ToSet
  <1>3. f \in [1..n -> ToSet(f)]
    BY <1>2
  <1> HIDE DEF ToSet
  <1> QED  BY <1>3, <1>1

\* The leaves are finitely many reports, each with a hash.
LEMMA BatchLeaves ==
    ASSUME rcBatch \in Batches
    PROVE  /\ Leaves \in SUBSET Nat /\ IsFiniteSet(Leaves)
           /\ Leaves \cup {Uncommitted} \subseteq DOMAIN LeafHash
  <1>1. rcBatch \in Seq(Nat \ {0})
    BY ReceiptsAssumption
  <1>2. DOMAIN rcBatch = 1..Len(rcBatch) /\ Len(rcBatch) \in Nat
    BY <1>1
  <1>3. \A i \in 1..Len(rcBatch) : rcBatch[i] \in Nat
    BY <1>1
  <1>4. Leaves = {rcBatch[i] : i \in 1..Len(rcBatch)}
    BY <1>2 DEF Leaves, ToSet
  <1>5. IsFiniteSet(1..Len(rcBatch))
    BY <1>2, FS_Interval
  <1>6. IsFiniteSet(Leaves)
    BY <1>4, <1>5, FiniteImage
  <1>8. Leaves \cup {Uncommitted} \subseteq DOMAIN LeafHash
    <2> HIDE DEF ToSet
    <2> QED  BY ReceiptsAssumption DEF Leaves
  <1> QED  BY <1>3, <1>4, <1>6, <1>8

\* The first level: the hashes, in order, and empty proofs.
LEMMA TreeInitially == RcInit => ReceiptInv
  <1> SUFFICES ASSUME RcInit PROVE ReceiptInv
    OBVIOUS
  <1>1. /\ Leaves \in SUBSET Int /\ IsFiniteSet(Leaves)
    <2>1. rcBatch \in Batches
      BY DEF RcInit
    <2>2. Leaves \in SUBSET Nat /\ IsFiniteSet(Leaves)
      BY <2>1, BatchLeaves
    <2> QED  BY <2>2
  <1> DEFINE o == Ascending(Leaves)
             n == Cardinality(Leaves)
  <1>2. /\ o \in [1..n -> Leaves] /\ n \in Nat
        /\ \A i, j \in 1..n : o[i] = o[j] => i = j
        /\ \A x \in Leaves : \E i \in 1..n : o[i] = x
    BY <1>1, AscendingIs
  <1>3. /\ rcLevel = [i \in DOMAIN o |-> LeafHash[o[i]]]
        /\ rcGroups = [i \in DOMAIN o |-> {o[i]}]
        /\ rcProofs = [l \in Leaves |-> <<>>]
        /\ rcBatch \in Batches /\ rcTime \in CommitTimes
        /\ rcCommit = NoCommit /\ rcReceipt = Unasked
    BY DEF Leaves, RcInit
  <1> HIDE DEF o, n
  <1>4. /\ rcLevel = [i \in 1..n |-> LeafHash[o[i]]]
        /\ rcGroups = [i \in 1..n |-> {o[i]}]
        /\ \A i \in 1..n : rcLevel[i] = LeafHash[o[i]] /\ rcGroups[i] = {o[i]}
    BY <1>2, <1>3
  <1>5. rcLevel \in Seq(ToSet(rcLevel)) /\ Len(rcLevel) = n
    <2>1. rcLevel = [i \in 1..n |-> rcLevel[i]]
      BY <1>4
    <2> QED  BY <2>1, <1>2, SeqMade
  <1>6. rcGroups \in Seq(SUBSET Leaves) /\ Len(rcGroups) = n
    <2>1. \A i \in 1..n : {o[i]} \in SUBSET Leaves
      BY <1>2
    <2>2. rcGroups \in [1..n -> SUBSET Leaves]
      BY <2>1, <1>4
    <2> QED  BY <2>2, <1>2
  <1>7. TreeTypes
    <2>1. \A l \in Leaves : rcProofs[l] \in Seq(ToSet(rcProofs[l]))
      <3>1. ASSUME NEW l \in Leaves PROVE rcProofs[l] \in Seq(ToSet(rcProofs[l]))
        <4>1. rcProofs[l] = <<>>
          BY <1>3
        <4>2. <<>> \in Seq(ToSet(<<>>))
          <5> HIDE DEF ToSet
          <5> QED  OBVIOUS
        <4> QED  BY <4>1, <4>2
      <3> QED  BY <3>1
    <2> QED  BY <1>3, <1>5, <1>6, <2>1 DEF TreeTypes
  <1>8. Partitioned
    <2>1. ASSUME NEW l \in Leaves PROVE \E i \in 1..Len(rcLevel) : l \in rcGroups[i]
      <3>1. PICK i \in 1..n : o[i] = l
        BY <1>2
      <3>2. l \in rcGroups[i]
        BY <3>1, <1>4
      <3> QED  BY <3>2, <1>5
    <2>2. ASSUME NEW i \in 1..n, NEW j \in 1..n, rcGroups[i] \cap rcGroups[j] # {}
          PROVE  i = j
      <3>1. rcGroups[i] = {o[i]} /\ rcGroups[j] = {o[j]}
        BY <1>4
      <3>2. o[i] = o[j]
        BY <2>2, <3>1
      <3> QED  BY <3>2, <1>2
    <2> QED  BY <2>1, <2>2, <1>5 DEF Partitioned
  <1>9. ProofsHold
    <2>1. ASSUME NEW i \in 1..n, NEW l \in rcGroups[i]
          PROVE  Rehash(LeafHash[l], rcProofs[l]) = rcLevel[i]
      <3>1. l = o[i] /\ l \in Leaves
        <4>1. rcGroups[i] = {o[i]} /\ o[i] \in Leaves
          BY <1>2, <1>4
        <4> QED  BY <4>1
      <3>2. rcProofs[l] = <<>>
        BY <3>1, <1>3
      <3>3. Rehash(LeafHash[l], <<>>) = LeafHash[l]
        BY FoldEmpty
      <3> QED  BY <3>1, <3>2, <3>3, <1>4
    <2> QED  BY <2>1, <1>5 DEF ProofsHold
  <1>10. Stored /\ Answered
    BY <1>3 DEF Stored, Answered
  <1> QED  BY <1>7, <1>8, <1>9, <1>10 DEF ReceiptInv

\* One round: a leaf of a pair gets the other half, and the level halves.
LEMMA LevelBuilt ==
    ASSUME ReceiptInv, BuildLevel
    PROVE  /\ TreeTypes' /\ Partitioned' /\ ProofsHold'
           /\ Leaves' = Leaves
  <1> DEFINE n == Len(rcLevel)
             m == (n + 1) \div 2
             at(l) == CHOOSE i \in DOMAIN rcGroups : l \in rcGroups[i]
             other(i) == IF i % 2 = 1 THEN i + 1 ELSE i - 1
             half(i) == (i + 1) \div 2
  <1>1. n \in Nat /\ m \in Nat /\ n > 1
    <2>1. n \in Nat /\ n > 1
      BY DEF ReceiptInv, TreeTypes, BuildLevel
    <2> HIDE DEF n
    <2> QED  BY <2>1
  <1>2. /\ DOMAIN rcLevel = 1..n /\ DOMAIN rcGroups = 1..n /\ Len(rcGroups) = n
        /\ \A i \in 1..n : rcGroups[i] \in SUBSET Leaves
    BY DEF ReceiptInv, TreeTypes
  <1>3. Halved = 1..m
    BY DEF Halved
  <1>4. /\ rcLevel' = [i \in 1..m |->
               IF 2 * i <= n THEN hashPair(rcLevel[2 * i - 1], rcLevel[2 * i])
               ELSE rcLevel[2 * i - 1]]
        /\ rcGroups' = [i \in 1..m |->
               rcGroups[2 * i - 1] \cup (IF 2 * i <= n THEN rcGroups[2 * i] ELSE {})]
    BY <1>3 DEF BuildLevel, parents, paired
  <1>5. /\ DOMAIN rcProofs = Leaves
        /\ rcProofs' = [l \in Leaves |->
               IF other(at(l)) \in 1..n
               THEN Append(rcProofs[l], rcLevel[other(at(l))]) ELSE rcProofs[l]]
    <2>1. DOMAIN rcProofs = Leaves
      BY DEF ReceiptInv, TreeTypes
    <2> QED  BY <2>1, <1>2 DEF BuildLevel
  <1>6. Leaves' = Leaves /\ rcBatch' = rcBatch /\ rcTime' = rcTime
    BY DEF BuildLevel, Leaves
  <1>7. ASSUME NEW l \in Leaves, NEW i \in 1..n, l \in rcGroups[i] PROVE at(l) = i
    <2>1. \E k \in DOMAIN rcGroups : l \in rcGroups[k]
      BY <1>2, <1>7
    <2>2. at(l) \in DOMAIN rcGroups /\ l \in rcGroups[at(l)]
      BY <2>1
    <2> HIDE DEF at
    <2>3. at(l) \in 1..n /\ rcGroups[at(l)] \cap rcGroups[i] # {}
      BY <2>2, <1>2, <1>7
    <2> QED  BY <2>3, <1>7 DEF ReceiptInv, Partitioned
  <1> HIDE DEF at, n, m
  <1>8. ASSUME NEW j \in 1..m
        PROVE  /\ 2 * j - 1 \in 1..n /\ (2 * j - 1) % 2 = 1 /\ (2 * j) % 2 = 0
               /\ 2 * j <= n => 2 * j \in 1..n
               /\ ~(2 * j <= n) => 2 * j = n + 1
    BY <1>1 DEF m
  <1>9. ASSUME NEW i \in 1..n
        PROVE  /\ half(i) \in 1..m /\ i \in {2 * half(i) - 1, 2 * half(i)}
    BY <1>1 DEF m
  <1>10. rcLevel' \in Seq(ToSet(rcLevel')) /\ Len(rcLevel') = m
    <2>1. rcLevel' = [i \in 1..m |-> rcLevel'[i]]
      BY <1>4
    <2> QED  BY <2>1, <1>1, SeqMade
  <1>11. rcGroups' \in Seq(SUBSET Leaves) /\ Len(rcGroups') = m
    <2>1. ASSUME NEW i \in 1..m
          PROVE  rcGroups[2 * i - 1] \cup (IF 2 * i <= n THEN rcGroups[2 * i] ELSE {})
                     \in SUBSET Leaves
      <3>1. rcGroups[2 * i - 1] \in SUBSET Leaves
        BY <1>2, <1>8
      <3>2. 2 * i <= n => rcGroups[2 * i] \in SUBSET Leaves
        BY <1>2, <1>8
      <3> QED  BY <3>1, <3>2
    <2>2. rcGroups' \in [1..m -> SUBSET Leaves]
      BY <2>1, <1>4
    <2> QED  BY <2>2, <1>1
  <1>12. ASSUME NEW l \in Leaves PROVE rcProofs'[l] \in Seq(ToSet(rcProofs'[l]))
    <2> DEFINE p == rcProofs[l]
               e == rcLevel[other(at(l))]
    <2>1. p \in Seq(ToSet(p))
      BY DEF ReceiptInv, TreeTypes
    <2>2. rcProofs'[l] \in {p, Append(p, e)}
      BY <1>5
    <2>3. Append(p, e) \in Seq(ToSet(Append(p, e)))
      <3> HIDE DEF p, e
      <3> DEFINE a == Append(p, e)
      <3> DEFINE S == ToSet(p) \cup {e}
      <3>0. Len(p) \in Nat /\ p \in [1..Len(p) -> S] /\ e \in S
        <4>1. p \in [1..Len(p) -> ToSet(p)] /\ Len(p) \in Nat
          BY <2>1
        <4>2. ToSet(p) \subseteq S /\ e \in S
          OBVIOUS
        <4> HIDE DEF S
        <4> QED  BY <4>1, <4>2
      <3> HIDE DEF S
      <3>1. Len(p) \in Nat /\ a = [i \in 1..(Len(p) + 1) |-> a[i]]
        <4>1. p \in Seq(S)
          BY <3>0
        <4>2. a \in Seq(S) /\ Len(a) = Len(p) + 1
          BY <4>1, <3>0
        <4> HIDE DEF a
        <4> QED  BY <4>2, <3>0
      <3> HIDE DEF a
      <3>2. Len(p) + 1 \in Nat
        BY <3>1
      <3> QED  BY <3>1, <3>2, SeqMade DEF a
    <2> HIDE DEF p, e
    <2> QED  BY <2>1, <2>2, <2>3
  <1>13. TreeTypes'
    <2>1. rcProofs' = [l \in Leaves |-> rcProofs'[l]]
      BY <1>5
    <2>2. rcBatch \in Batches /\ rcTime \in CommitTimes
      BY DEF ReceiptInv, TreeTypes
    <2> QED  BY <2>1, <2>2, <1>6, <1>10, <1>11, <1>12 DEF TreeTypes
  <1>14. ASSUME NEW j \in 1..m, NEW l, l \in rcGroups'[j]
         PROVE  /\ l \in Leaves
                /\ \/ l \in rcGroups[2 * j - 1]
                   \/ 2 * j <= n /\ l \in rcGroups[2 * j]
    <2>1. rcGroups'[j] =
              rcGroups[2 * j - 1] \cup (IF 2 * j <= n THEN rcGroups[2 * j] ELSE {})
      BY <1>4
    <2>2. rcGroups'[j] \in SUBSET Leaves
      BY <1>11
    <2> QED  BY <2>1, <2>2, <1>14
  <1>15. Partitioned'
    <2>1. ASSUME NEW l \in Leaves PROVE \E j \in 1..m : l \in rcGroups'[j]
      <3>1. PICK i \in 1..n : l \in rcGroups[i]
        BY DEF ReceiptInv, Partitioned, n
      <3> DEFINE h == half(i)
      <3>2. h \in 1..m /\ i \in {2 * h - 1, 2 * h}
        BY <1>9
      <3> HIDE DEF h
      <3>3. rcGroups'[h] =
                rcGroups[2 * h - 1] \cup (IF 2 * h <= n THEN rcGroups[2 * h] ELSE {})
        BY <3>2, <1>4
      <3>4. l \in rcGroups'[h]
        BY <3>1, <3>2, <3>3
      <3> QED  BY <3>2, <3>4
    <2>2. ASSUME NEW i \in 1..m, NEW j \in 1..m, rcGroups'[i] \cap rcGroups'[j] # {}
          PROVE  i = j
      <3>1. PICK l : l \in rcGroups'[i] /\ l \in rcGroups'[j]
        BY <2>2
      <3>2. PICK a \in 1..n : l \in rcGroups[a] /\ a \in {2 * i - 1, 2 * i}
        BY <3>1, <1>8, <1>14
      <3>3. PICK b \in 1..n : l \in rcGroups[b] /\ b \in {2 * j - 1, 2 * j}
        BY <3>1, <1>8, <1>14
      <3>4. a = b
        <4>1. rcGroups[a] \cap rcGroups[b] # {}
          BY <3>2, <3>3
        <4> QED  BY <4>1 DEF ReceiptInv, Partitioned, n
      <3> QED  BY <3>2, <3>3, <3>4
    <2> QED  BY <2>1, <2>2, <1>6, <1>10 DEF Partitioned
  <1>16. ProofsHold'
    <2>1. ASSUME NEW j \in 1..m, NEW l \in rcGroups'[j]
          PROVE  Rehash(LeafHash[l], rcProofs'[l]) = rcLevel'[j]
      <3> DEFINE p == rcProofs[l]
      <3>1. l \in Leaves
        BY <1>14
      <3>2. p \in Seq(ToSet(p))
        BY <3>1 DEF ReceiptInv, TreeTypes
      <3>3. ASSUME NEW i \in 1..n, l \in rcGroups[i]
            PROVE  Rehash(LeafHash[l], p) = rcLevel[i]
        BY <3>3 DEF ReceiptInv, ProofsHold, n
      <3>4. ASSUME NEW e PROVE Rehash(LeafHash[l], Append(p, e)) =
                                   hashPair(Rehash(LeafHash[l], p), e)
        <4> DEFINE S == ToSet(p) \cup {e}
        <4>1. p \in Seq(S)
          <5>1. p \in [1..Len(p) -> ToSet(p)] /\ Len(p) \in Nat
            <6> HIDE DEF p
            <6> QED  BY <3>2
          <5>2. ToSet(p) \subseteq S
            OBVIOUS
          <5> HIDE DEF p, S
          <5>3. p \in [1..Len(p) -> S]
            BY <5>1, <5>2
          <5> QED  BY <5>1, <5>3
        <4>2. e \in S
          OBVIOUS
        <4> HIDE DEF p, S
        <4> QED  BY <4>1, <4>2, FoldAppend
      <3>5. CASE l \in rcGroups[2 * j - 1]
        <4>1. at(l) = 2 * j - 1 /\ other(at(l)) = 2 * j
          <5>1. at(l) = 2 * j - 1
            BY <3>1, <3>5, <1>7, <1>8
          <5>2. (2 * j - 1) + 1 = 2 * j
            OBVIOUS
          <5> QED  BY <5>1, <5>2, <1>8
        <4>2. Rehash(LeafHash[l], p) = rcLevel[2 * j - 1]
          BY <3>3, <3>5, <1>8
        <4>3. CASE 2 * j <= n
          <5>1. 2 * j \in 1..n
            BY <4>3, <1>8
          <5>2. rcProofs'[l] = Append(p, rcLevel[2 * j])
            BY <3>1, <4>1, <5>1, <1>5
          <5>3. rcLevel'[j] = hashPair(rcLevel[2 * j - 1], rcLevel[2 * j])
            BY <4>3, <1>4
          <5> HIDE DEF p
          <5> QED  BY <5>2, <5>3, <4>2, <3>4
        <4>4. CASE ~(2 * j <= n)
          <5>1. 2 * j \notin 1..n
            BY <4>4
          <5>2. rcProofs'[l] = p
            BY <3>1, <4>1, <5>1, <1>5
          <5>3. rcLevel'[j] = rcLevel[2 * j - 1]
            BY <4>4, <1>4
          <5> HIDE DEF p
          <5> QED  BY <5>2, <5>3, <4>2
        <4> QED  BY <4>3, <4>4
      <3>6. CASE 2 * j <= n /\ l \in rcGroups[2 * j]
        <4>1. at(l) = 2 * j /\ other(at(l)) = 2 * j - 1
          <5>1. at(l) = 2 * j
            BY <3>1, <3>6, <1>7, <1>8
          <5> QED  BY <5>1, <1>8
        <4>2. Rehash(LeafHash[l], p) = rcLevel[2 * j]
          BY <3>3, <3>6, <1>8
        <4>3. rcProofs'[l] = Append(p, rcLevel[2 * j - 1])
          BY <3>1, <4>1, <1>5, <1>8
        <4>4. rcLevel'[j] = hashPair(rcLevel[2 * j - 1], rcLevel[2 * j])
          BY <3>6, <1>4
        <4>5. hashPair(rcLevel[2 * j], rcLevel[2 * j - 1])
                  = hashPair(rcLevel[2 * j - 1], rcLevel[2 * j])
          BY DEF hashPair
        <4> HIDE DEF p
        <4> QED  BY <4>2, <4>3, <4>4, <4>5, <3>4
      <3> QED  BY <3>5, <3>6, <1>14
    <2> QED  BY <2>1, <1>10 DEF ProofsHold
  <1> QED  BY <1>6, <1>13, <1>15, <1>16

\* No receipt says it is committed while the tree is built.
LEMMA BuildLevelKeeps == ASSUME ReceiptInv, BuildLevel PROVE ReceiptInv'
  <1>1. TreeTypes' /\ Partitioned' /\ ProofsHold' /\ Leaves' = Leaves
    BY LevelBuilt
  <1>2. Stored'
    BY DEF BuildLevel, Stored
  <1>3. Answered'
    <2> SUFFICES ASSUME rcReceipt' # Unasked PROVE Answered'
      BY DEF Answered
    <2>1. /\ rcReceipt' = rcReceipt /\ rcCommit = NoCommit /\ rcCommit' = rcCommit
          /\ rcTime' = rcTime /\ Askable' = Askable
      BY <1>1 DEF BuildLevel, Askable, Leaves
    <2>2. ~rcReceipt.commit.committed
      BY <2>1 DEF ReceiptInv, Answered
    <2> QED  BY <2>1, <2>2 DEF ReceiptInv, Answered
  <1> QED  BY <1>1, <1>2, <1>3 DEF ReceiptInv

\* The row has the root that all the proofs give.
LEMMA StoreLeavesKeeps == ASSUME ReceiptInv, StoreLeaves PROVE ReceiptInv'
  <1>1. TreeTypes' /\ Partitioned' /\ ProofsHold'
    BY DEF StoreLeaves, ReceiptInv, TreeTypes, Partitioned, ProofsHold, Leaves
  <1>2. Stored'
    BY DEF StoreLeaves, Stored, Leaves, LeafOf
  <1>3. Answered'
    <2> SUFFICES ASSUME rcReceipt' # Unasked PROVE Answered'
      BY DEF Answered
    <2>1. /\ rcReceipt' = rcReceipt /\ rcCommit = NoCommit
          /\ rcTime' = rcTime /\ Askable' = Askable /\ Leaves' = Leaves
      BY DEF StoreLeaves, Askable, Leaves
    <2>2. ~rcReceipt.commit.committed
      BY <2>1 DEF ReceiptInv, Answered
    <2> QED  BY <2>1, <2>2 DEF ReceiptInv, Answered
  <1> QED  BY <1>1, <1>2, <1>3 DEF ReceiptInv

\* The commit part of a receipt, as the row and the block have it.
LEMMA CommitPart ==
    ASSUME Stored, NEW r, NEW readable \in BOOLEAN
    PROVE  LET c == commitOf(r, readable)
           IN  /\ c.committed \in BOOLEAN
               /\ c.committed => /\ rcCommit # NoCommit /\ r \in Leaves
                                 /\ c.root = rcCommit.root /\ c.tx = "own"
                                 /\ c.proof = rcProofs[r]
                                 /\ c.time \in {rcTime, -1}
               /\ ~c.committed => c.tx = "none"
               /\ c.committed <=> committed(r)
  <1>1. CASE committed(r)
    <2>1. rcCommit # NoCommit /\ r \in Leaves
      BY <1>1 DEF committed, Leaves
    <2>2. rcCommit.leaves = {LeafOf(x) : x \in Leaves}
      BY <2>1 DEF Stored
    <2>3. LeafOf(r) \in rcCommit.leaves /\ LeafOf(r).report = r
      BY <2>1, <2>2 DEF LeafOf
    <2> DEFINE l == CHOOSE x \in rcCommit.leaves : x.report = r
    <2>4. l \in rcCommit.leaves /\ l.report = r
      BY <2>3
    <2> HIDE DEF l
    <2>5. PICK x \in Leaves : l = LeafOf(x)
      BY <2>2, <2>4
    <2>6. l.proof = rcProofs[r]
      BY <2>4, <2>5 DEF LeafOf
    <2>7. commitOf(r, readable) =
              [committed |-> TRUE, root |-> rcCommit.root, tx |-> "own",
               time |-> IF readable THEN rcTime ELSE -1, proof |-> l.proof]
      BY <1>1 DEF commitOf, l
    <2> QED  BY <1>1, <2>1, <2>6, <2>7
  <1>2. CASE ~committed(r)
    BY <1>2 DEF commitOf
  <1> QED  BY <1>1, <1>2

\* The tree and its row rest while a receipt is made.
LEMMA TreeRests ==
    ASSUME ReceiptInv,
           UNCHANGED <<rcBatch, rcLevel, rcGroups, rcProofs, rcCommit, rcTime>>
    PROVE  TreeTypes' /\ Partitioned' /\ ProofsHold' /\ Stored'
  <1>0. Leaves' = Leaves
    BY DEF Leaves
  <1>1. TreeTypes'
    BY <1>0 DEF ReceiptInv, TreeTypes
  <1>2. Partitioned'
    BY <1>0 DEF ReceiptInv, Partitioned
  <1>3. ProofsHold'
    BY DEF ReceiptInv, ProofsHold
  <1>4. Stored'
    <2>1. ASSUME NEW r PROVE LeafOf(r)' = LeafOf(r)
      BY DEF LeafOf
    <2> QED  BY <1>0, <2>1 DEF ReceiptInv, Stored, LeafOf
  <1> QED  BY <1>1, <1>2, <1>3, <1>4

\* buildReceipt copies the row.
LEMMA AskKeeps == ASSUME ReceiptInv, Ask PROVE ReceiptInv'
  <1>1. /\ UNCHANGED <<rcBatch, rcLevel, rcGroups, rcProofs, rcCommit, rcTime>>
        /\ Leaves' = Leaves /\ Askable' = Askable
    BY DEF Ask, Leaves, Askable
  <1>2. TreeTypes' /\ Partitioned' /\ ProofsHold' /\ Stored'
    BY <1>1, TreeRests
  <1>3. PICK content \in Askable, other \in Askable, expected \in Askable,
             readable \in BOOLEAN, h \in Horizons :
            rcReceipt' = [content |-> content, expected |-> expected, horizon |-> h,
                          commit |-> commitOf(other, readable), other |-> other,
                          eligibility |-> classifyEligibility(0, committed(other),
                              commitOf(other, readable).time, h)]
    BY DEF Ask
  <1> DEFINE c == commitOf(other, readable)
  <1>4. /\ c.committed \in BOOLEAN
        /\ c.committed => /\ rcCommit # NoCommit /\ other \in Leaves
                          /\ c.root = rcCommit.root /\ c.tx = "own"
                          /\ c.proof = rcProofs[other]
                          /\ c.time \in {rcTime, -1}
        /\ ~c.committed => c.tx = "none"
        /\ c.committed <=> committed(other)
    BY CommitPart DEF ReceiptInv
  <1>5. classifyEligibility(0, committed(other), c.time, h)
            = classifyEligibility(0, c.committed, c.time, h)
    BY <1>4 DEF committed
  <1>6. /\ rcReceipt'.content = content /\ rcReceipt'.other = other
        /\ rcReceipt'.horizon = h /\ rcReceipt'.commit = c
        /\ rcReceipt'.eligibility = classifyEligibility(0, c.committed, c.time, h)
    BY <1>3, <1>5
  <1> HIDE DEF c
  <1>7. Answered'
    BY <1>1, <1>4, <1>6 DEF Answered
  <1> QED  BY <1>2, <1>7 DEF ReceiptInv

\* Every step of the tree and of the receipt.
LEMMA ReceiptStep == ReceiptInv /\ [RcNext]_rcVars => ReceiptInv'
  <1>1. ASSUME ReceiptInv, UNCHANGED rcVars PROVE ReceiptInv'
    <2>1. TreeTypes' /\ Partitioned' /\ ProofsHold' /\ Stored'
      BY <1>1, TreeRests DEF rcVars
    <2>2. Answered'
      BY <1>1 DEF ReceiptInv, Answered, Leaves, Askable, rcVars
    <2> QED  BY <2>1, <2>2 DEF ReceiptInv
  <1> QED  BY <1>1, BuildLevelKeeps, StoreLeavesKeeps, AskKeeps DEF RcNext

\* A proof that is checked tells its leaf.
LEMMA ReceiptImplies == ReceiptInv => RcTypeOK /\ ReceiptSound
  <1> SUFFICES ASSUME ReceiptInv PROVE RcTypeOK /\ ReceiptSound
    OBVIOUS
  <1>1. RcTypeOK
    <2>1. UNION Range(rcGroups) = ToSet(rcBatch)
      <3>1. DOMAIN rcGroups = 1..Len(rcLevel)
        BY DEF ReceiptInv, TreeTypes
      <3>2. ASSUME NEW l \in Leaves PROVE l \in UNION Range(rcGroups)
        BY <3>1 DEF Range, ReceiptInv, Partitioned
      <3>3. ASSUME NEW i \in 1..Len(rcLevel) PROVE rcGroups[i] \subseteq Leaves
        BY DEF ReceiptInv, TreeTypes
      <3>4. UNION Range(rcGroups) \subseteq Leaves
        BY <3>1, <3>3 DEF Range
      <3> QED  BY <3>2, <3>4 DEF Leaves
    <2>2. rcReceipt # Unasked => rcReceipt.eligibility \in Eligibilities
      BY ClassIn DEF ReceiptInv, Answered
    <2>3. Len(rcLevel) = Len(rcGroups) /\ DOMAIN rcProofs = ToSet(rcBatch)
      BY DEF ReceiptInv, TreeTypes, Leaves
    <2> QED  BY <2>1, <2>2, <2>3 DEF RcTypeOK
  <1> DEFINE r == rcReceipt
  <1>2. ASSUME r # Unasked
        PROVE  /\ r.content \in Askable /\ r.commit.committed \in BOOLEAN
               /\ r.commit.committed =>
                      /\ rcCommit # NoCommit /\ r.other \in Leaves
                      /\ r.commit.root = rcCommit.root /\ r.commit.tx = "own"
                      /\ r.commit.proof = rcProofs[r.other]
                      /\ r.commit.time \in {rcTime, -1}
               /\ ~r.commit.committed => r.commit.tx = "none"
               /\ r.eligibility = classifyEligibility(0, r.commit.committed,
                                                      r.commit.time, r.horizon)
    BY <1>2 DEF ReceiptInv, Answered
  <1>3. ASSUME rcCommit # NoCommit, NEW l \in Leaves
        PROVE  Rehash(LeafHash[l], rcProofs[l]) = rcCommit.root
    <2>1. Len(rcLevel) = 1 /\ rcCommit.root = rcLevel[1]
      BY <1>3 DEF ReceiptInv, Stored
    <2>2. l \in rcGroups[1]
      BY <2>1 DEF ReceiptInv, Partitioned
    <2> QED  BY <2>1, <2>2 DEF ReceiptInv, ProofsHold
  <1>4. ASSUME NEW a \in Askable, NEW b \in Askable, LeafHash[a] = LeafHash[b]
        PROVE  a = b
    <2>1. Askable \subseteq DOMAIN LeafHash
      <3>1. rcBatch \in Batches
        BY DEF ReceiptInv, TreeTypes
      <3> QED  BY <3>1, BatchLeaves DEF Askable, Leaves
    <2>2. IsInjective(LeafHash)
      BY ReceiptsAssumption
    <2> QED  BY <1>4, <2>1, <2>2 DEF IsInjective
  <1>5. ASSUME r # Unasked, verifyReceiptOffline(r)
        PROVE  /\ r.content = r.expected /\ r.commit.committed
               /\ r.content = r.other /\ r.content \in Leaves
    <2>1. /\ r.content = r.expected /\ r.commit.committed
          /\ Rehash(LeafHash[r.content], r.commit.proof) = r.commit.root
      BY <1>5 DEF verifyReceiptOffline, verifyProof, Rehash
    <2>2. Rehash(LeafHash[r.content], rcProofs[r.other])
              = Rehash(LeafHash[r.other], rcProofs[r.other])
      BY <1>2, <1>3, <1>5, <2>1
    <2>3. rcProofs[r.other] \in Seq(ToSet(rcProofs[r.other]))
      BY <1>2, <1>5, <2>1 DEF ReceiptInv, TreeTypes
    <2>4. LeafHash[r.content] = LeafHash[r.other]
      <3> DEFINE p == rcProofs[r.other]
                 x == LeafHash[r.content]
                 y == LeafHash[r.other]
      <3>1. p \in Seq(ToSet(p)) /\ Rehash(x, p) = Rehash(y, p)
        BY <2>2, <2>3
      <3> HIDE DEF p, x, y
      <3>2. x = y
        BY <3>1, FoldInjective
      <3> QED  BY <3>2 DEF x, y
    <2>5. r.other \in Leaves /\ Leaves \subseteq Askable
      BY <1>2, <1>5, <2>1 DEF Askable, Leaves
    <2>6. r.content = r.other
      BY <1>2, <1>4, <1>5, <2>4, <2>5
    <2> QED  BY <2>1, <2>5, <2>6
  <1>6. ASSUME r # Unasked, r.content = r.expected, r.commit.committed,
               r.content \in Leaves, r.commit.proof = rcProofs[r.content]
        PROVE  verifyReceiptOffline(r) /\ verifyReceiptOnChain(r)
    <2>1. rcCommit # NoCommit /\ r.commit.root = rcCommit.root /\ r.commit.tx = "own"
      BY <1>2, <1>6
    <2>2. Rehash(LeafHash[r.content], r.commit.proof) = r.commit.root
      BY <1>3, <1>6, <2>1
    <2> QED  BY <1>6, <2>1, <2>2 DEF verifyReceiptOffline, verifyProof, Rehash,
                                     verifyReceiptOnChain, rootInTxLogs
  <1>7. ASSUME r # Unasked, verifyReceiptOffline(r)
        PROVE  /\ r.eligibility \in {eligibilityFromChain(r), "missing_time"}
               /\ eligibilityFromChain(r) = "eligible" =>
                      rcTime < r.horizon /\ rcTime <= ReplayAfter
    <2>1. /\ r.commit.committed = TRUE /\ r.commit.tx = "own"
          /\ r.commit.time \in {rcTime, -1} /\ rcTime \in Nat /\ r.horizon \in Nat
      <3>1. r.horizon \in Horizons
        BY <1>7 DEF ReceiptInv, Answered
      <3>2. rcTime \in CommitTimes
        BY DEF ReceiptInv, TreeTypes
      <3> QED  BY <1>2, <1>5, <1>7, <3>1, <3>2, ReceiptsAssumption
    <2>2. eligibilityFromChain(r) = classifyEligibility(0, TRUE, rcTime, r.horizon)
      BY <2>1 DEF eligibilityFromChain
    <2>3. r.eligibility = classifyEligibility(0, TRUE, r.commit.time, r.horizon)
      BY <1>2, <1>7, <2>1
    <2>4. classifyEligibility(0, TRUE, -1, r.horizon) = "missing_time"
      BY DEF classifyEligibility
    <2>5. classifyEligibility(0, TRUE, rcTime, r.horizon) = "eligible" =>
              rcTime < r.horizon /\ rcTime <= ReplayAfter
      BY <2>1, EligibilityAssumption DEF classifyEligibility
    <2> QED  BY <2>1, <2>2, <2>3, <2>4, <2>5
  <1>8. ReceiptSound
    <2> HIDE DEF ReceiptInv
    <2> SUFFICES ASSUME r # Unasked
                 PROVE  /\ (verifyReceiptOffline(r) /\ verifyReceiptOnChain(r)) <=>
                               /\ r.content = r.expected /\ r.commit.committed
                               /\ r.content \in ToSet(rcBatch)
                               /\ r.commit.proof = rcProofs[r.content]
                        /\ verifyReceiptOffline(r) =>
                               /\ r.eligibility \in
                                      {eligibilityFromChain(r), "missing_time"}
                               /\ eligibilityFromChain(r) = "eligible" =>
                                      rcTime < r.horizon /\ rcTime <= ReplayAfter
      BY DEF ReceiptSound
    <2>1. ASSUME verifyReceiptOffline(r)
          PROVE  /\ r.content = r.expected /\ r.commit.committed
                 /\ r.content \in Leaves /\ r.commit.proof = rcProofs[r.content]
      BY <1>2, <1>5, <2>1
    <2> QED  BY <1>6, <1>7, <2>1 DEF Leaves
  <1> QED  BY <1>1, <1>8

\* buildMerkleTree, buildReceipt and verify-receipt: for every batch, every block time and
\* horizon, a receipt passes the checks exactly when it is that of a report of the batch,
\* and what it says of its eligibility is then the chain's or that it is unknown.
THEOREM ReceiptsProve == RcSpec => [](RcTypeOK /\ ReceiptSound)
  <1>1. ReceiptInv /\ [RcNext]_rcVars => ReceiptInv'
    BY ReceiptStep
  <1>2. RcInit => ReceiptInv
    BY TreeInitially
  <1>3. ReceiptInv => RcTypeOK /\ ReceiptSound
    BY ReceiptImplies
  <1> QED  BY <1>1, <1>2, <1>3, PTL DEF RcSpec

-----------------------------------------------------------------------------
(***************************************************************************)
(* Artifacts: any labels and hashes, any number of posts and deployments.  *)
(***************************************************************************)

ArtSpec == ArtInit /\ [][ArtNext]_artVars

-----------------------------------------------------------------------------
Who == {"worker", "operator"}
Event == [label : Labels, hash : FileHashes]
ArtifactRow == [label : Labels, hash : FileHashes, event : Nat]

RunOf(at, todo, hash, event, clean) ==
    [at |-> at, todo |-> todo, hash |-> hash, event |-> event, clean |-> clean]

\* The event a row or a pending transaction names has its label and hash.
Names(e, l, h) ==
    e # 0 => e \in 1..Len(artEvents) /\ artEvents[e] = [label |-> l, hash |-> h]

RunInv(a, r) ==
    /\ r = RunOf(r.at, r.todo, r.hash, r.event, r.clean)
    /\ r.at \in {"idle", "send", "wait"} /\ r.clean \in BOOLEAN
    /\ r.todo \in Seq(Labels)
    /\ r.at # "idle" => r.hash \in [Labels -> FileHashes]
    /\ r.at = "wait" => r.todo # <<>>
    /\ r.event \in 0..Len(artEvents)
    /\ r.at = "wait" => Names(r.event, Head(r.todo), r.hash[Head(r.todo)])

\* What the operator's run, undisturbed, has behind it.
Behind(a, r) ==
    a = "operator" /\ r.at # "idle" /\ r.clean =>
        \A l \in Labels \ ToSet(r.todo) : recorded(l, r.hash[l])

Alone(a) ==
    artRun[a].at # "idle" /\ artRun[a].clean =>
        artInserts = <<>> /\ \A b \in Who \ {a} : artRun[b].at = "idle"

TableTypes ==
    /\ artFile \in [Labels -> FileHashes]
    /\ artEvents \in Seq(Event) /\ artSent \in Nat /\ Len(artEvents) <= artSent
    /\ artRows \in Seq(ArtifactRow) /\ artInserts \in Seq(ArtifactRow)
    /\ artRun = [a \in Who |-> artRun[a]]

RowsName ==
    /\ \A i \in 1..Len(artRows) :
           Names(artRows[i].event, artRows[i].label, artRows[i].hash)
    /\ \A i \in 1..Len(artInserts) :
           Names(artInserts[i].event, artInserts[i].label, artInserts[i].hash)

RunsHold == \A a \in Who : RunInv(a, artRun[a]) /\ Behind(a, artRun[a]) /\ Alone(a)

ArtifactInv == TableTypes /\ RowsName /\ RunsHold

-----------------------------------------------------------------------------
(***************************************************************************)
(* The newest of a label's rows or events.                                 *)
(***************************************************************************)

LEMMA NewestUnfold ==
    ASSUME NEW s, NEW l
    PROVE  LET I == {i \in 1..Len(s) : s[i].label = l}
           IN  newest(s, l) = IF I # {} THEN Max(I) ELSE 0
  BY DEF newest, SelectLastInSeq

\* The newest index is that of one of the label's, and none is beyond it.
LEMMA NewestIs ==
    ASSUME NEW S, NEW s \in Seq(S), NEW l
    PROVE  /\ newest(s, l) \in 0..Len(s)
           /\ newest(s, l) # 0 => s[newest(s, l)].label = l
           /\ \A i \in 1..Len(s) : s[i].label = l => newest(s, l) # 0 /\ i <= newest(s, l)
  <1> DEFINE I == {i \in 1..Len(s) : s[i].label = l}
  <1>1. newest(s, l) = IF I # {} THEN Max(I) ELSE 0
    BY NewestUnfold
  <1>2. Len(s) \in Nat
    OBVIOUS
  <1>3. I \in SUBSET Int /\ IsFiniteSet(I)
    <2>1. I \in SUBSET (1..Len(s)) /\ IsFiniteSet(1..Len(s))
      BY <1>2, FS_Interval
    <2>2. IsFiniteSet(I)
      BY <2>1, FS_Subset
    <2> QED  BY <2>2
  <1>4. CASE I = {}
    BY <1>1, <1>2, <1>4
  <1>5. CASE I # {}
    <2>1. newest(s, l) \in I /\ \A i \in I : i <= newest(s, l)
      BY <1>1, <1>3, <1>5, GreatestIs
    <2> QED  BY <1>2, <2>1
  <1> QED  BY <1>4, <1>5

\* Only one index is the newest.
LEMMA NewestOnly ==
    ASSUME NEW S, NEW s \in Seq(S), NEW l, NEW n \in 0..Len(s),
           n # 0 => s[n].label = l,
           \A i \in 1..Len(s) : s[i].label = l => n # 0 /\ i <= n
    PROVE  newest(s, l) = n
  <1> DEFINE m == newest(s, l)
  <1>1. /\ m \in 0..Len(s) /\ (m # 0 => s[m].label = l)
        /\ \A i \in 1..Len(s) : s[i].label = l => m # 0 /\ i <= m
    BY NewestIs
  <1> HIDE DEF m
  <1>2. Len(s) \in Nat
    OBVIOUS
  <1>3. ASSUME NEW x \in 0..Len(s), x # 0 PROVE x \in 1..Len(s)
    BY <1>2, <1>3
  <1>4. m # 0 => n # 0 /\ m <= n
    BY <1>1, <1>3
  <1>5. n # 0 => m # 0 /\ n <= m
    BY <1>1, <1>3
  <1>6. m \in Int /\ n \in Int
    BY <1>1, <1>2
  <1>7. m = n
    BY <1>4, <1>5, <1>6
  <1> QED  BY <1>7 DEF m

\* A row that is appended is the newest of its label and of no other.
LEMMA NewestAppend ==
    ASSUME NEW S, NEW s \in Seq(S), NEW r \in S, NEW l
    PROVE  newest(Append(s, r), l) = IF r.label = l THEN Len(s) + 1 ELSE newest(s, l)
  <1> DEFINE t == Append(s, r)
             n == Len(s)
             m == newest(s, l)
  <1>1. /\ t \in Seq(S) /\ Len(t) = n + 1 /\ n \in Nat /\ t[n + 1] = r
        /\ \A i \in 1..n : t[i] = s[i]
    OBVIOUS
  <1>2. /\ m \in 0..n /\ (m # 0 => s[m].label = l)
        /\ \A i \in 1..n : s[i].label = l => m # 0 /\ i <= m
    BY NewestIs
  <1> HIDE DEF t, n, m
  <1>3. \A i \in 1..(n + 1) : i \in 1..n \/ i = n + 1
    BY <1>1
  <1>4. CASE r.label = l
    <2>1. newest(t, l) = n + 1
      <3>1. n + 1 \in 0..Len(t) /\ t[n + 1].label = l
        BY <1>1, <1>4
      <3>2. \A i \in 1..Len(t) : n + 1 # 0 /\ i <= n + 1
        BY <1>1
      <3> QED  BY <1>1, <3>1, <3>2, NewestOnly
    <2> QED  BY <1>4, <2>1 DEF t, n
  <1>5. CASE r.label # l
    <2>1. newest(t, l) = m
      <3>1. m \in 0..Len(t)
        BY <1>1, <1>2
      <3>2. m # 0 => t[m].label = l
        BY <1>1, <1>2
      <3>3. ASSUME NEW i \in 1..Len(t), t[i].label = l PROVE m # 0 /\ i <= m
        <4>1. i \in 1..n
          BY <1>1, <1>3, <1>5, <3>3
        <4> QED  BY <4>1, <3>3, <1>1, <1>2
      <3> QED  BY <1>1, <3>1, <3>2, <3>3, NewestOnly
    <2> QED  BY <1>5, <2>1 DEF t, m
  <1> QED  BY <1>4, <1>5

\* The labels of a set, in the order of computeArtifactHashes.
LEMMA OrderIs ==
    ASSUME NEW S
    PROVE  inOrder(S) \in Seq(Labels) /\ ToSet(inOrder(S)) = S \cap Labels
  <1> DEFINE I == {i \in DOMAIN ArtifactLabels : ArtifactLabels[i] \in S}
             at == Ascending(I)
             n == Cardinality(I)
             o == [k \in 1..n |-> ArtifactLabels[at[k]]]
  <1>1. DOMAIN ArtifactLabels = 1..Len(ArtifactLabels) /\ Len(ArtifactLabels) \in Nat
    BY ArtifactsAssumption
  <1>2. I \in SUBSET Int /\ IsFiniteSet(I)
    <2>1. I \in SUBSET (1..Len(ArtifactLabels)) /\ IsFiniteSet(1..Len(ArtifactLabels))
      BY <1>1, FS_Interval
    <2>2. IsFiniteSet(I)
      BY <2>1, FS_Subset
    <2> QED  BY <2>1, <2>2
  <1>3. /\ at \in [1..n -> I] /\ n \in Nat
        /\ \A x \in I : \E i \in 1..n : at[i] = x
    BY <1>2, AscendingIs
  <1>4. inOrder(S) = [k \in DOMAIN at |-> ArtifactLabels[at[k]]]
    BY DEF inOrder
  <1> HIDE DEF at, n
  <1>5. inOrder(S) = o
    BY <1>3, <1>4
  <1>6. \A k \in 1..n : at[k] \in I
    BY <1>3
  <1>7. \A i \in I : ArtifactLabels[i] \in Labels
    BY DEF Labels, ToSet
  <1>8. o \in [1..n -> Labels]
    BY <1>6, <1>7
  <1>9. ToSet(o) = S \cap Labels
    <2>1. \A k \in 1..n : o[k] \in S \cap Labels
      BY <1>6, <1>7
    <2>2. ASSUME NEW l \in S \cap Labels PROVE \E k \in 1..n : o[k] = l
      <3>1. PICK i \in DOMAIN ArtifactLabels : ArtifactLabels[i] = l
        BY DEF Labels, ToSet
      <3>2. i \in I
        BY <3>1
      <3>3. PICK k \in 1..n : at[k] = i
        BY <1>3, <3>2
      <3> QED  BY <3>1, <3>3
    <2>3. DOMAIN o = 1..n
      OBVIOUS
    <2> HIDE DEF o
    <2> QED  BY <2>1, <2>2, <2>3 DEF ToSet
  <1> HIDE DEF o
  <1>10. o \in Seq(Labels)
    BY <1>3, <1>8
  <1> QED  BY <1>5, <1>9, <1>10

\* At the start the table is empty and nobody runs.
LEMMA ArtifactInitially == ArtInit => ArtifactInv
  <1> SUFFICES ASSUME ArtInit PROVE ArtifactInv
    OBVIOUS
  <1>1. /\ artFile \in [Labels -> FileHashes]
    BY ArtifactsAssumption DEF ArtInit
  <1>2. /\ artEvents = <<>> /\ artSent = 0 /\ artRows = <<>> /\ artInserts = <<>>
        /\ artRun = [a \in Who |-> NoRun]
    BY DEF ArtInit, Who
  <1>3. <<>> \in Seq(Event) /\ <<>> \in Seq(ArtifactRow) /\ <<>> \in Seq(Labels)
    OBVIOUS
  <1>4. TableTypes
    BY <1>1, <1>2, <1>3 DEF TableTypes
  <1>5. RowsName
    BY <1>2 DEF RowsName
  <1>6. RunsHold
    <2>1. \A a \in Who : artRun[a] = NoRun
      BY <1>2
    <2>2. NoRun = RunOf(NoRun.at, NoRun.todo, NoRun.hash, NoRun.event, NoRun.clean)
      BY DEF NoRun, RunOf
    <2>3. /\ NoRun.at = "idle" /\ NoRun.todo = <<>> /\ NoRun.event = 0
          /\ NoRun.clean = TRUE
      BY DEF NoRun
    <2>4. ASSUME NEW a \in Who PROVE RunInv(a, NoRun)
      <3>1. 0 \in 0..Len(artEvents)
        BY <1>2
      <3> QED  BY <1>3, <2>2, <2>3, <3>1 DEF RunInv
    <2>5. ASSUME NEW a \in Who PROVE Behind(a, NoRun)
      BY <2>3 DEF Behind
    <2>6. ASSUME NEW a \in Who PROVE Alone(a)
      BY <2>1, <2>3 DEF Alone
    <2> QED  BY <2>1, <2>4, <2>5, <2>6 DEF RunsHold
  <1> QED  BY <1>4, <1>5, <1>6 DEF ArtifactInv

-----------------------------------------------------------------------------
(***************************************************************************)
(* What a step leaves alone.                                               *)
(***************************************************************************)

LEMMA RunFields ==
    ASSUME NEW at, NEW t, NEW h, NEW e, NEW c
    PROVE  LET r == RunOf(at, t, h, e, c)
           IN  r.at = at /\ r.todo = t /\ r.hash = h /\ r.event = e /\ r.clean = c
  BY DEF RunOf

\* A run that another disturbs goes on, no longer clean.
LEMMA DisturbedIs ==
    ASSUME NEW a, NEW r, RunInv(a, r)
    PROVE  /\ RunInv(a, Disturbed(r)) /\ Disturbed(r).at = r.at
           /\ r.at # "idle" => ~Disturbed(r).clean
  <1>1. CASE r.at = "idle"
    BY <1>1 DEF Disturbed
  <1>2. CASE r.at # "idle"
    <2>1. PICK at, t, h, e, c : r = RunOf(at, t, h, e, c)
      BY DEF RunInv
    <2>2. Disturbed(r) = RunOf(at, t, h, e, FALSE)
      <3>1. Disturbed(r) = [r EXCEPT !.clean = FALSE]
        BY <1>2 DEF Disturbed
      <3>2. [RunOf(at, t, h, e, c) EXCEPT !.clean = FALSE] = RunOf(at, t, h, e, FALSE)
        <4>1. \A x : [RunOf(at, t, h, e, c) EXCEPT !.clean = x] = RunOf(at, t, h, e, x)
          BY DEF RunOf
        <4> QED  BY <4>1, Zenon
      <3> QED  BY <2>1, <3>1, <3>2
    <2> DEFINE d == Disturbed(r)
    <2>3. /\ d.at = at /\ d.todo = t /\ d.hash = h /\ d.event = e /\ d.clean = FALSE
          /\ r.at = at /\ r.todo = t /\ r.hash = h /\ r.event = e
      BY <2>1, <2>2 DEF RunOf
    <2>4. d = RunOf(d.at, d.todo, d.hash, d.event, d.clean)
      BY <2>2, <2>3
    <2> HIDE DEF d
    <2>5. RunInv(a, d)
      BY <2>3, <2>4 DEF RunInv
    <2> QED  BY <2>3, <2>5 DEF d
  <1> QED  BY <1>1, <1>2

EventsGrow ==
    /\ artEvents' \in Seq(Event) /\ Len(artEvents) <= Len(artEvents')
    /\ \A i \in 1..Len(artEvents) : artEvents'[i] = artEvents[i]

\* What an event says does not change.
LEMMA NamesStays ==
    ASSUME TableTypes, EventsGrow, NEW e, NEW l, NEW h, Names(e, l, h)
    PROVE  Names(e, l, h)'
  <1>1. Len(artEvents) \in Nat /\ Len(artEvents') \in Nat
    BY DEF TableTypes, EventsGrow
  <1> QED  BY <1>1 DEF Names, EventsGrow

\* A run rests while events are added.
LEMMA RunStays ==
    ASSUME TableTypes, EventsGrow, NEW a, NEW r, RunInv(a, r)
    PROVE  RunInv(a, r)'
  <1>1. \A e, l, h : Names(e, l, h) => Names(e, l, h)'
    BY NamesStays
  <1>2. r.event \in 0..Len(artEvents')
    <2>1. Len(artEvents) \in Nat /\ Len(artEvents') \in Nat
      BY DEF TableTypes, EventsGrow
    <2> QED  BY <2>1 DEF RunInv, EventsGrow
  <1> QED  BY <1>1, <1>2 DEF RunInv

\* The rows rest while events are added.
LEMMA RowsStay ==
    ASSUME TableTypes, RowsName, EventsGrow, artRows' = artRows, artInserts' = artInserts
    PROVE  RowsName'
  <1>1. \A e, l, h : Names(e, l, h) => Names(e, l, h)'
    BY NamesStays
  <1> QED  BY <1>1 DEF RowsName

\* What a run has behind it stays while no row is added.
LEMMA BehindStays ==
    ASSUME artRows' = artRows, NEW a, NEW r, Behind(a, r)
    PROVE  Behind(a, r)'
  <1>1. \A l, h : recorded(l, h)' = recorded(l, h)
    BY DEF recorded
  <1> QED  BY <1>1 DEF Behind

\* The other run rests.
LEMMA OtherRests ==
    ASSUME TableTypes, RunsHold, EventsGrow, NEW b \in Who, artRun'[b] = artRun[b]
    PROVE  RunInv(b, artRun[b])'
  <1>1. ASSUME NEW a, NEW r, RunInv(a, r) PROVE RunInv(a, r)'
    BY <1>1, RunStays
  <1>2. RunInv(b, artRun[b])
    BY DEF RunsHold
  <1> QED  BY <1>1, <1>2

\* Nobody else's run is clean while there is one under way.
LEMMA NotClean ==
    ASSUME RunsHold, NEW a \in Who, artRun[a].at # "idle", NEW b \in Who, b # a,
           artRun[b].at # "idle"
    PROVE  artRun[b].clean = FALSE
  BY DEF RunsHold, RunInv, Alone

\* The step adds no event.
LEMMA EventsRest ==
    ASSUME TableTypes, artEvents' = artEvents
    PROVE  EventsGrow
  BY DEF TableTypes, EventsGrow

-----------------------------------------------------------------------------
(***************************************************************************)
(* One lemma per action.                                                   *)
(***************************************************************************)

LEMMA DeployKeeps == ASSUME ArtifactInv, Deploy PROVE ArtifactInv'
  <1> USE DEF ArtifactInv
  <1>1. UNCHANGED <<artEvents, artSent, artRows, artRun, artInserts>>
    BY DEF Deploy
  <1>2. TableTypes'
    BY <1>1 DEF Deploy, TableTypes
  <1>3. RowsName'
    BY <1>1, EventsRest, RowsStay
  <1>4. ASSUME NEW b \in Who
        PROVE  RunInv(b, artRun[b])' /\ Behind(b, artRun[b])' /\ Alone(b)'
    <2>1. RunInv(b, artRun[b])'
      BY <1>1, EventsRest, OtherRests
    <2>2. Behind(b, artRun[b])'
      <3>1. ASSUME NEW a, NEW r, Behind(a, r) PROVE Behind(a, r)'
        BY <1>1, <3>1, BehindStays
      <3>2. Behind(b, artRun[b])
        BY DEF RunsHold
      <3> QED  BY <1>1, <3>1, <3>2
    <2>3. Alone(b)'
      BY <1>1 DEF RunsHold, Alone
    <2> QED  BY <2>1, <2>2, <2>3
  <1> QED  BY <1>2, <1>3, <1>4 DEF RunsHold

\* A run starts with the labels whose newest row is not the file's, or with all.
LEMMA BeginKeeps ==
    ASSUME ArtifactInv, NEW a \in Who, NEW todo \in Seq(Labels), Begin(a, todo),
           a = "operator" => \A l \in Labels \ ToSet(todo) : recorded(l, artFile[l]),
           UNCHANGED <<artFile, artEvents, artSent, artRows, artInserts>>
    PROVE  ArtifactInv'
  <1> USE DEF ArtifactInv
  <1>1. DOMAIN artRun = Who
    BY DEF TableTypes
  <1>2. PICK c \in BOOLEAN :
            /\ c = (artInserts = <<>> /\ \A b \in Who \ {a} : artRun[b].at = "idle")
            /\ artRun' = [b \in Who |-> IF b = a THEN RunOf("send", todo, artFile, 0, c)
                                        ELSE Disturbed(artRun[b])]
    BY <1>1 DEF Begin, RunOf
  <1>3. TableTypes'
    <2>1. artRun' = [b \in Who |-> artRun'[b]]
      BY <1>2
    <2> QED  BY <2>1 DEF TableTypes
  <1>4. RowsName'
    BY EventsRest, RowsStay
  <1>5. artRun'[a] = RunOf("send", todo, artFile, 0, c)
    BY <1>2
  <1>6. LET r == artRun'[a]
        IN  /\ r = RunOf(r.at, r.todo, r.hash, r.event, r.clean)
            /\ r.at = "send" /\ r.todo = todo /\ r.hash = artFile /\ r.event = 0
            /\ r.clean = c
    BY <1>5, RunFields
  <1>7. ASSUME NEW b \in Who, b # a
        PROVE  /\ artRun'[b] = Disturbed(artRun[b]) /\ RunInv(b, artRun[b])'
               /\ artRun'[b].at = artRun[b].at
               /\ artRun'[b].at # "idle" => ~artRun'[b].clean
    <2>1. artRun'[b] = Disturbed(artRun[b])
      BY <1>2, <1>7
    <2>2. RunInv(b, artRun[b])
      BY DEF RunsHold
    <2>3. /\ RunInv(b, Disturbed(artRun[b])) /\ Disturbed(artRun[b]).at = artRun[b].at
          /\ artRun[b].at # "idle" => ~Disturbed(artRun[b]).clean
      BY <2>2, DisturbedIs
    <2>4. ASSUME NEW r, RunInv(b, r) PROVE RunInv(b, r)'
      BY <2>4, RunStays, EventsRest
    <2>5. RunInv(b, artRun[b])'
      <3> DEFINE d == Disturbed(artRun[b])
      <3>1. RunInv(b, d) /\ artRun'[b] = d
        BY <2>1, <2>3
      <3> HIDE DEF d
      <3> QED  BY <3>1, <2>4
    <2> QED  BY <2>1, <2>3, <2>5
  <1>8. RunInv(a, artRun[a])'
    <2>1. 0 \in 0..Len(artEvents)
      BY DEF TableTypes
    <2>2. artFile \in [Labels -> FileHashes]
      BY DEF TableTypes
    <2> QED  BY <1>6, <2>1, <2>2 DEF RunInv
  <1>9. Behind(a, artRun[a])'
    <2>1. \A l, h : recorded(l, h)' = recorded(l, h)
      BY DEF recorded
    <2> QED  BY <1>6, <2>1 DEF Behind
  <1>10. Alone(a)'
    <2>1. c => artInserts = <<>> /\ \A b \in Who \ {a} : artRun[b].at = "idle"
      BY <1>2
    <2>2. artRun'[a].clean = c
      BY <1>6
    <2>3. \A b \in Who \ {a} : artRun'[b].at = artRun[b].at
      BY <1>7
    <2>4. artInserts' = artInserts
      OBVIOUS
    <2> HIDE DEF ArtifactInv
    <2> QED  BY <2>1, <2>2, <2>3, <2>4 DEF Alone
  <1>11. ASSUME NEW b \in Who, b # a PROVE Behind(b, artRun[b])' /\ Alone(b)'
    BY <1>7, <1>11 DEF Behind, Alone
  <1>12. RunsHold'
    BY <1>7, <1>8, <1>9, <1>10, <1>11 DEF RunsHold
  <1> QED  BY <1>3, <1>4, <1>12

\* ensureArtifactsCommitted.
LEMMA EnsureStartsKeeps == ASSUME ArtifactInv, EnsureStarts PROVE ArtifactInv'
  <1>1. EnsureLabels \in Seq(Labels)
    <2>1. EnsureLabels \in Seq(STRING) /\ ToSet(EnsureLabels) \subseteq Labels
      BY ArtifactsAssumption DEF Labels
    <2>2. \A i \in 1..Len(EnsureLabels) : EnsureLabels[i] \in ToSet(EnsureLabels)
      BY <2>1 DEF ToSet
    <2>3. /\ EnsureLabels \in [1..Len(EnsureLabels) -> Labels]
          /\ Len(EnsureLabels) \in Nat
      <3>1. EnsureLabels = [i \in 1..Len(EnsureLabels) |-> EnsureLabels[i]]
        BY <2>1
      <3> QED  BY <2>1, <2>2, <3>1
    <2> QED  BY <2>3
  <1>2. "worker" \in Who /\ Begin("worker", EnsureLabels)
    BY DEF EnsureStarts, Who
  <1>3. UNCHANGED <<artFile, artEvents, artSent, artRows, artInserts>>
    BY DEF EnsureStarts
  <1> QED  BY <1>1, <1>2, <1>3, BeginKeeps

\* recommitArtifacts: a label it leaves out is recorded.
LEMMA RecommitStartsKeeps == ASSUME ArtifactInv, RecommitStarts PROVE ArtifactInv'
  <1>1. "operator" \in Who
    BY DEF Who
  <1>2. UNCHANGED <<artFile, artEvents, artSent, artRows, artInserts>>
    BY DEF RecommitStarts
  <1>3. CASE Begin("operator", ArtifactLabels)
    <2>1. ArtifactLabels \in Seq(Labels)
      <3>1. ArtifactLabels \in Seq(STRING)
        BY ArtifactsAssumption
      <3>2. \A i \in 1..Len(ArtifactLabels) : ArtifactLabels[i] \in Labels
        BY <3>1 DEF ToSet, Labels
      <3>3. ArtifactLabels = [i \in 1..Len(ArtifactLabels) |-> ArtifactLabels[i]]
        BY <3>1
      <3>4. Len(ArtifactLabels) \in Nat
        BY <3>1
      <3>5. ArtifactLabels \in [1..Len(ArtifactLabels) -> Labels]
        BY <3>2, <3>3
      <3> QED  BY <3>4, <3>5
    <2>2. Labels \ ToSet(ArtifactLabels) = {}
      BY DEF Labels
    <2> QED  BY <1>1, <1>2, <1>3, <2>1, <2>2, BeginKeeps
  <1>4. CASE Begin("operator", inOrder({l \in Labels : ~recorded(l, artFile[l])}))
    <2> DEFINE S == {l \in Labels : ~recorded(l, artFile[l])}
               o == inOrder(S)
    <2>1. o \in Seq(Labels) /\ ToSet(o) = S \cap Labels
      BY OrderIs
    <2>2. Begin("operator", o)
      BY <1>4
    <2> HIDE DEF o
    <2>3. \A l \in Labels \ ToSet(o) : recorded(l, artFile[l])
      BY <2>1
    <2> QED  BY <1>1, <1>2, <2>1, <2>2, <2>3, BeginKeeps
  <1> QED  BY <1>3, <1>4 DEF RecommitStarts

\* The transaction's event is the newest of its label; a reverted one has none.
LEMMA PostKeeps ==
    ASSUME ArtifactInv, NEW a \in Who, Post(a)
    PROVE  ArtifactInv'
  <1> USE DEF ArtifactInv
  <1>0. DOMAIN artRun = Who /\ artRun = [b \in Who |-> artRun[b]]
    BY DEF TableTypes
  <1>1. RunInv(a, artRun[a]) /\ Behind(a, artRun[a]) /\ Alone(a)
    BY DEF RunsHold
  <1>2. PICK t, h, e0, c0 : artRun[a] = RunOf("send", t, h, e0, c0)
    BY <1>1 DEF RunInv, Post
  <1>3. /\ artRun[a].at = "send" /\ artRun[a].todo = t /\ artRun[a].hash = h
        /\ artRun[a].clean = c0
    BY <1>2, RunFields
  <1> DEFINE l == Head(t)
             n == Len(artEvents)
             x == [label |-> l, hash |-> h[l]]
  <1>4. /\ t \in Seq(Labels) /\ t # <<>> /\ h \in [Labels -> FileHashes]
        /\ c0 \in BOOLEAN /\ l \in Labels /\ x \in Event /\ n \in Nat
    <2>1. t \in Seq(Labels) /\ t # <<>> /\ h \in [Labels -> FileHashes] /\ c0 \in BOOLEAN
      BY <1>1, <1>3 DEF RunInv, Post
    <2>2. l \in Labels
      BY <2>1
    <2>3. x \in Event
      BY <2>1, <2>2 DEF Event
    <2> QED  BY <2>1, <2>2, <2>3 DEF TableTypes
  <1>5. /\ UNCHANGED <<artFile, artRows, artInserts>> /\ artSent' = artSent + 1
        /\ \/ /\ artEvents' = Append(artEvents, x)
              /\ artRun' = [artRun EXCEPT ![a].at = "wait", ![a].event = n + 1]
           \/ /\ artEvents' = artEvents
              /\ artRun' = [artRun EXCEPT ![a].at = "wait", ![a].event = 0,
                                          ![a].clean = FALSE]
    BY <1>3 DEF Post
  <1> HIDE DEF l, x, n
  <1>6. EventsGrow
    <2>1. artEvents \in Seq(Event)
      BY DEF TableTypes
    <2>2. CASE artEvents' = Append(artEvents, x)
      <3>1. artEvents' \in Seq(Event) /\ Len(artEvents') = n + 1 /\ n <= n + 1
        BY <2>1, <2>2, <1>4 DEF n
      <3>2. \A i \in 1..Len(artEvents) : artEvents'[i] = artEvents[i]
        BY <2>1, <2>2, <1>4
      <3> QED  BY <3>1, <3>2 DEF EventsGrow, n
    <2>3. CASE artEvents' = artEvents
      BY <2>3, EventsRest
    <2> QED  BY <2>2, <2>3, <1>5
  <1>7. PICK e, c :
            /\ artRun' = [artRun EXCEPT ![a] = RunOf("wait", t, h, e, c)]
            /\ c \in {c0, FALSE}
            /\ e \in 0..Len(artEvents')
            /\ e # 0 => e \in 1..Len(artEvents') /\ artEvents'[e] = x
            /\ Len(artEvents') <= n + 1
    <2> DEFINE r == RunOf("send", t, h, e0, c0)
    <2>1. CASE /\ artEvents' = Append(artEvents, x)
               /\ artRun' = [artRun EXCEPT ![a].at = "wait", ![a].event = n + 1]
      <3>1. artRun' = [artRun EXCEPT ![a] = [[artRun[a] EXCEPT !.at = "wait"]
                                                EXCEPT !.event = n + 1]]
        BY <2>1, <1>0
      <3>2. [[r EXCEPT !.at = "wait"] EXCEPT !.event = n + 1]
                = RunOf("wait", t, h, n + 1, c0)
        <4>1. [r EXCEPT !.at = "wait"] = RunOf("wait", t, h, e0, c0)
          BY DEF RunOf
        <4> DEFINE k == n + 1
        <4> HIDE DEF k
        <4>2. [RunOf("wait", t, h, e0, c0) EXCEPT !.event = k] = RunOf("wait", t, h, k, c0)
          BY DEF RunOf
        <4> QED  BY <4>1, <4>2 DEF k
      <3>3. artRun' = [artRun EXCEPT ![a] = RunOf("wait", t, h, n + 1, c0)]
        BY <3>1, <3>2, <1>2
      <3>4. artEvents \in Seq(Event) /\ n = Len(artEvents)
        BY DEF TableTypes, n
      <3>5. Len(artEvents') = n + 1 /\ artEvents'[n + 1] = x
        BY <3>4, <2>1, <1>4
      <3>6. n + 1 \in 1..Len(artEvents') /\ n + 1 \in 0..Len(artEvents')
        BY <3>5, <1>4
      <3>7. Len(artEvents') <= n + 1
        BY <3>5, <1>4
      <3> WITNESS n + 1, c0
      <3> QED  BY <3>3, <3>5, <3>6, <3>7
    <2>2. CASE /\ artEvents' = artEvents
               /\ artRun' = [artRun EXCEPT ![a].at = "wait", ![a].event = 0,
                                           ![a].clean = FALSE]
      <3>1. artRun' = [artRun EXCEPT ![a] = [[[artRun[a] EXCEPT !.at = "wait"]
                                      EXCEPT !.event = 0] EXCEPT !.clean = FALSE]]
        BY <2>2, <1>0
      <3>2. [[r EXCEPT !.at = "wait"] EXCEPT !.event = 0] = RunOf("wait", t, h, 0, c0)
        <4>1. [r EXCEPT !.at = "wait"] = RunOf("wait", t, h, e0, c0)
          BY DEF RunOf
        <4>2. [RunOf("wait", t, h, e0, c0) EXCEPT !.event = 0] = RunOf("wait", t, h, 0, c0)
          BY DEF RunOf
        <4> QED  BY <4>1, <4>2
      <3>3. \A f : [RunOf("wait", t, h, 0, c0) EXCEPT !.clean = f]
                       = RunOf("wait", t, h, 0, f)
        BY DEF RunOf
      <3>4. [RunOf("wait", t, h, 0, c0) EXCEPT !.clean = FALSE]
                = RunOf("wait", t, h, 0, FALSE)
        BY <3>3, Zenon
      <3>5. artRun' = [artRun EXCEPT ![a] = RunOf("wait", t, h, 0, FALSE)]
        BY <3>1, <3>2, <3>4, <1>2
      <3>6. Len(artEvents') = n /\ 0 \in 0..Len(artEvents') /\ n <= n + 1
        BY <2>2, <1>4 DEF n
      <3> QED  BY <3>5, <3>6
    <2> QED  BY <2>1, <2>2, <1>5
  <1>8. LET r == artRun'[a]
        IN  /\ r = RunOf(r.at, r.todo, r.hash, r.event, r.clean)
            /\ r.at = "wait" /\ r.todo = t /\ r.hash = h /\ r.event = e /\ r.clean = c
    <2>1. artRun'[a] = RunOf("wait", t, h, e, c)
      BY <1>0, <1>7
    <2> QED  BY <2>1, RunFields
  <1>9. \A b \in Who \ {a} : artRun'[b] = artRun[b]
    BY <1>0, <1>7
  <1>10. TableTypes'
    <2>1. artRun' = [b \in Who |-> artRun'[b]]
      BY <1>0, <1>7
    <2>2. Len(artEvents') <= artSent'
      BY <1>4, <1>5, <1>6, <1>7 DEF TableTypes, EventsGrow, n
    <2> QED  BY <2>1, <2>2, <1>5, <1>6 DEF TableTypes, EventsGrow
  <1>11. RowsName'
    BY <1>5, <1>6, RowsStay
  <1>12. RunInv(a, artRun[a])'
    <2>1. Names(e, l, h[l])'
      BY <1>7 DEF Names, x
    <2>2. Names(e, Head(t), h[Head(t)])'
      BY <2>1 DEF l
    <2> QED  BY <1>4, <1>7, <1>8, <2>2 DEF RunInv
  <1>13. Behind(a, artRun[a])'
    <2>1. \A k, v : recorded(k, v)' = recorded(k, v)
      BY <1>5 DEF recorded
    <2>2. a = "operator" /\ c0 => \A k \in Labels \ ToSet(t) : recorded(k, h[k])
      BY <1>1, <1>3 DEF Behind
    <2>3. c => c0
      BY <1>7
    <2> QED  BY <1>8, <2>1, <2>2, <2>3 DEF Behind
  <1>14. Alone(a)'
    <2>1. c => c0
      BY <1>7
    <2> QED  BY <1>1, <1>3, <1>5, <1>8, <1>9, <2>1 DEF Alone
  <1>15. ASSUME NEW b \in Who, b # a
         PROVE  RunInv(b, artRun[b])' /\ Behind(b, artRun[b])' /\ Alone(b)'
    <2>1. RunInv(b, artRun[b])'
      BY <1>6, <1>9, <1>15, OtherRests
    <2>2. artRun[b].at # "idle" => artRun[b].clean = FALSE
      BY <1>3, <1>15, NotClean
    <2> QED  BY <1>9, <1>15, <2>1, <2>2 DEF Behind, Alone
  <1> QED  BY <1>10, <1>11, <1>12, <1>13, <1>14, <1>15 DEF RunsHold

\* The row is its label's newest, with the hash of the run.
LEMMA RecordArtifactKeeps ==
    ASSUME ArtifactInv, NEW a \in Who, RecordArtifact(a)
    PROVE  ArtifactInv'
  <1> USE DEF ArtifactInv
  <1>0. DOMAIN artRun = Who /\ artRun = [b \in Who |-> artRun[b]]
    BY DEF TableTypes
  <1>1. RunInv(a, artRun[a]) /\ Behind(a, artRun[a]) /\ Alone(a)
    BY DEF RunsHold
  <1>2. PICK t, h, e, c : artRun[a] = RunOf("wait", t, h, e, c)
    BY <1>1 DEF RunInv, RecordArtifact
  <1>3. /\ artRun[a].at = "wait" /\ artRun[a].todo = t /\ artRun[a].hash = h
        /\ artRun[a].event = e /\ artRun[a].clean = c
    BY <1>2, RunFields
  <1> DEFINE l == Head(t)
             row == [label |-> l, hash |-> h[l], event |-> e]
  <1>4. /\ t \in Seq(Labels) /\ t # <<>> /\ h \in [Labels -> FileHashes]
        /\ c \in BOOLEAN /\ l \in Labels /\ row \in ArtifactRow
        /\ Names(e, l, h[l])
        /\ Tail(t) \in Seq(Labels) /\ ToSet(t) \subseteq ToSet(Tail(t)) \cup {l}
    <2>1. t \in Seq(Labels) /\ t # <<>> /\ h \in [Labels -> FileHashes] /\ c \in BOOLEAN
      BY <1>1, <1>3 DEF RunInv
    <2>2. l \in Labels
      BY <2>1
    <2>3. e \in Nat
      BY <1>1, <1>3 DEF RunInv, TableTypes
    <2>4. row \in ArtifactRow
      BY <2>1, <2>2, <2>3 DEF ArtifactRow
    <2>5. Names(e, l, h[l])
      BY <1>1, <1>3 DEF RunInv
    <2>6. Tail(t) \in Seq(Labels)
      BY <2>1
    <2>7. ToSet(t) \subseteq ToSet(Tail(t)) \cup {l}
      <3>1. ASSUME NEW i \in DOMAIN t, i # 1 PROVE t[i] \in ToSet(Tail(t))
        <4>1. i - 1 \in DOMAIN Tail(t) /\ Tail(t)[i - 1] = t[i]
          BY <2>1, <3>1
        <4> QED  BY <4>1 DEF ToSet
      <3>2. t[1] = l
        BY <2>1
      <3> QED  BY <3>1, <3>2 DEF ToSet
    <2> QED  BY <2>1, <2>2, <2>4, <2>5, <2>6, <2>7
  <1>5. /\ UNCHANGED <<artFile, artEvents, artSent, artInserts>>
        /\ artRows' = Append(artRows, row)
        /\ artRun' = [artRun EXCEPT ![a].todo = Tail(@), ![a].at = "send",
                                    ![a].event = 0]
    BY <1>3 DEF RecordArtifact
  <1> HIDE DEF l, row
  <1>6. artRun' = [artRun EXCEPT ![a] = RunOf("send", Tail(t), h, 0, c)]
    <2> DEFINE r == RunOf("wait", t, h, e, c)
               u == Tail(t)
    <2>1. artRun' = [artRun EXCEPT ![a] = [[[artRun[a] EXCEPT !.todo = Tail(artRun[a].todo)]
                                        EXCEPT !.at = "send"] EXCEPT !.event = 0]]
      BY <1>5, <1>0
    <2> HIDE DEF u
    <2>2. [[[r EXCEPT !.todo = u] EXCEPT !.at = "send"] EXCEPT !.event = 0]
              = RunOf("send", u, h, 0, c)
      <3>1. [r EXCEPT !.todo = u] = RunOf("wait", u, h, e, c)
        BY DEF RunOf
      <3>2. [RunOf("wait", u, h, e, c) EXCEPT !.at = "send"] = RunOf("send", u, h, e, c)
        BY DEF RunOf
      <3>3. [RunOf("send", u, h, e, c) EXCEPT !.event = 0] = RunOf("send", u, h, 0, c)
        BY DEF RunOf
      <3> QED  BY <3>1, <3>2, <3>3
    <2>3. Tail(artRun[a].todo) = u
      BY <1>3 DEF u
    <2> QED  BY <2>1, <2>2, <2>3, <1>2 DEF u
  <1>7. LET r == artRun'[a]
        IN  /\ r = RunOf(r.at, r.todo, r.hash, r.event, r.clean)
            /\ r.at = "send" /\ r.todo = Tail(t) /\ r.hash = h /\ r.event = 0
            /\ r.clean = c
    <2> DEFINE u == Tail(t)
    <2>1. artRun'[a] = RunOf("send", u, h, 0, c)
      BY <1>0, <1>6
    <2> HIDE DEF u
    <2>2. LET r == RunOf("send", u, h, 0, c)
          IN  /\ r = RunOf(r.at, r.todo, r.hash, r.event, r.clean)
              /\ r.at = "send" /\ r.todo = u /\ r.hash = h /\ r.event = 0 /\ r.clean = c
      BY DEF RunOf
    <2> QED  BY <2>1, <2>2 DEF u
  <1>8. \A b \in Who \ {a} : artRun'[b] = artRun[b]
    BY <1>0, <1>6
  <1>9. artRows \in Seq(ArtifactRow) /\ EventsGrow
    BY <1>5, EventsRest DEF TableTypes
  <1>10. TableTypes'
    <2>1. artRun' = [b \in Who |-> artRun'[b]]
      BY <1>0, <1>6
    <2>2. artRows' \in Seq(ArtifactRow)
      BY <1>4, <1>5, <1>9
    <2> QED  BY <2>1, <2>2, <1>5 DEF TableTypes
  <1>11. RowsName'
    <2> DEFINE n == Len(artRows)
    <2>1. /\ Len(artRows') = n + 1 /\ n \in Nat /\ artRows'[n + 1] = row
          /\ \A i \in 1..n : artRows'[i] = artRows[i]
      BY <1>4, <1>5, <1>9
    <2> HIDE DEF n
    <2>2. \A k, v, w : Names(k, v, w)' = Names(k, v, w)
      BY <1>5 DEF Names
    <2>3. row.label = l /\ row.hash = h[l] /\ row.event = e
      BY DEF row
    <2>4. ASSUME NEW i \in 1..(n + 1)
          PROVE  Names(artRows'[i].event, artRows'[i].label, artRows'[i].hash)
      <3>1. CASE i = n + 1
        BY <3>1, <2>1, <2>3, <1>4
      <3>2. CASE i # n + 1
        <4>1. i \in 1..n
          BY <3>2, <2>1
        <4> QED  BY <4>1, <2>1 DEF RowsName, n
      <3> QED  BY <3>1, <3>2
    <2>5. \A i \in 1..Len(artInserts) :
              Names(artInserts[i].event, artInserts[i].label, artInserts[i].hash)
      BY DEF RowsName
    <2> QED  BY <1>5, <2>1, <2>2, <2>4, <2>5 DEF RowsName
  <1>12. RunInv(a, artRun[a])'
    <2>1. 0 \in 0..Len(artEvents')
      BY <1>5 DEF TableTypes
    <2> QED  BY <1>4, <1>7, <2>1 DEF RunInv
  <1>13. Behind(a, artRun[a])'
    <2> SUFFICES ASSUME a = "operator", c PROVE Behind(a, artRun[a])'
      BY <1>7 DEF Behind
    <2>1. ASSUME NEW k \in Labels \ ToSet(Tail(t)) PROVE recorded(k, h[k])'
      <3> DEFINE n == Len(artRows)
                 i == newest(artRows, k)
                 j == newest(artRows', k)
      <3>1. /\ n \in Nat /\ artRows'[n + 1] = row
            /\ \A m \in 1..n : artRows'[m] = artRows[m]
        BY <1>4, <1>5, <1>9
      <3>2. j = IF row.label = k THEN n + 1 ELSE i
        BY <1>4, <1>5, <1>9, NewestAppend
      <3>3. i \in 0..n
        BY <1>9, NewestIs
      <3> HIDE DEF i, j, n
      <3>4. row.label = l /\ row.hash = h[l]
        BY DEF row
      <3>5. CASE k = l
        <4>1. j = n + 1 /\ artRows'[j].hash = h[k] /\ j # 0
          BY <3>1, <3>2, <3>4, <3>5
        <4> QED  BY <4>1 DEF recorded, j
      <3>6. CASE k # l
        <4>1. k \in Labels \ ToSet(t)
          BY <3>6, <1>4
        <4>2. recorded(k, h[k])
          BY <4>1, <1>1, <1>3 DEF Behind
        <4>3. i # 0 /\ artRows[i].hash = h[k]
          BY <4>2 DEF recorded, i
        <4>4. j = i /\ artRows'[j].hash = h[k]
          BY <3>1, <3>2, <3>3, <3>4, <3>6, <4>3
        <4> QED  BY <4>3, <4>4 DEF recorded, j
      <3> QED  BY <3>5, <3>6
    <2> QED  BY <1>7, <2>1 DEF Behind
  <1>14. Alone(a)'
    BY <1>1, <1>3, <1>5, <1>7, <1>8 DEF Alone
  <1>15. ASSUME NEW b \in Who, b # a
         PROVE  RunInv(b, artRun[b])' /\ Behind(b, artRun[b])' /\ Alone(b)'
    <2>1. RunInv(b, artRun[b])'
      BY <1>8, <1>9, <1>15, OtherRests
    <2>2. artRun[b].at # "idle" => artRun[b].clean = FALSE
      BY <1>3, <1>15, NotClean
    <2> QED  BY <1>8, <1>15, <2>1, <2>2 DEF Behind, Alone
  <1> QED  BY <1>10, <1>11, <1>12, <1>13, <1>14, <1>15 DEF RunsHold

\* A run ends, or dies: what it sent is forgotten.
LEMMA ArtifactRunStopsKeeps ==
    ASSUME ArtifactInv, NEW a \in Who, ArtifactRunStops(a)
    PROVE  ArtifactInv'
  <1> USE DEF ArtifactInv
  <1>0. DOMAIN artRun = Who /\ artRun = [b \in Who |-> artRun[b]]
    BY DEF TableTypes
  <1>1. /\ UNCHANGED <<artFile, artEvents, artSent, artRows, artInserts>>
        /\ artRun' = [artRun EXCEPT ![a] = NoRun]
    BY DEF ArtifactRunStops
  <1>2. /\ artRun'[a] = NoRun /\ artRun' = [b \in Who |-> artRun'[b]]
        /\ \A b \in Who \ {a} : artRun'[b] = artRun[b]
    BY <1>0, <1>1
  <1>3. TableTypes' /\ RowsName'
    <2>1. TableTypes'
      BY <1>1, <1>2 DEF TableTypes
    <2> QED  BY <2>1, <1>1, EventsRest, RowsStay
  <1>4. /\ NoRun.at = "idle" /\ NoRun.todo = <<>> /\ NoRun.event = 0
        /\ NoRun.clean = TRUE
        /\ NoRun = RunOf(NoRun.at, NoRun.todo, NoRun.hash, NoRun.event, NoRun.clean)
    BY DEF NoRun, RunOf
  <1>5. RunInv(a, artRun[a])' /\ Behind(a, artRun[a])' /\ Alone(a)'
    <2>1. 0 \in 0..Len(artEvents') /\ <<>> \in Seq(Labels)
      BY <1>3 DEF TableTypes
    <2>2. RunInv(a, artRun[a])'
      BY <1>2, <1>4, <2>1 DEF RunInv
    <2> QED  BY <1>2, <1>4, <2>2 DEF Behind, Alone
  <1>6. ASSUME NEW b \in Who, b # a
        PROVE  RunInv(b, artRun[b])' /\ Behind(b, artRun[b])' /\ Alone(b)'
    <2>1. artRun'[b] = artRun[b]
      BY <1>2, <1>6
    <2>2. RunInv(b, artRun[b])'
      BY <2>1, <1>1, EventsRest, OtherRests
    <2>3. Behind(b, artRun[b])'
      <3>1. ASSUME NEW r, Behind(b, r) PROVE Behind(b, r)'
        BY <1>1, <3>1, BehindStays
      <3>2. Behind(b, artRun[b])
        BY DEF RunsHold
      <3> QED  BY <2>1, <3>1, <3>2
    <2>4. Alone(b)'
      BY <1>1, <1>2, <1>4, <2>1 DEF RunsHold, Alone
    <2> QED  BY <2>2, <2>3, <2>4
  <1> QED  BY <1>3, <1>5, <1>6 DEF RunsHold

\* What the script inserts are the events it has read.
LEMMA ReconcileReadsKeeps == ASSUME ArtifactInv, ReconcileReads PROVE ArtifactInv'
  <1> USE DEF ArtifactInv
  <1>0. DOMAIN artRun = Who
    BY DEF TableTypes
  <1> DEFINE ev(l) == newest(artEvents, l)
             M == {l \in Labels : /\ ev(l) # 0
                                  /\ artEvents[ev(l)].hash = artFile[l]
                                  /\ ~recorded(l, artFile[l])}
             o == inOrder(M)
             n == Len(o)
             made(i) == [label |-> o[i], hash |-> artFile[o[i]], event |-> ev(o[i])]
  <1>1. /\ artInserts' = [i \in DOMAIN o |-> made(i)]
        /\ artRun' = [a \in Who |-> Disturbed(artRun[a])]
        /\ UNCHANGED <<artFile, artEvents, artSent, artRows>>
    BY <1>0 DEF ReconcileReads
  <1>2. o \in Seq(Labels) /\ ToSet(o) = M
    <2>1. o \in Seq(Labels) /\ ToSet(o) = M \cap Labels
      BY OrderIs
    <2> QED  BY <2>1
  <1>3. ASSUME NEW l \in M
        PROVE  /\ ev(l) \in 1..Len(artEvents)
               /\ artEvents[ev(l)] = [label |-> l, hash |-> artFile[l]]
    <2>1. artEvents \in Seq(Event)
      BY DEF TableTypes
    <2>2. ev(l) \in 0..Len(artEvents) /\ ev(l) # 0 /\ artEvents[ev(l)].label = l
      BY <2>1, <1>3, NewestIs
    <2>3. ev(l) \in 1..Len(artEvents) /\ artEvents[ev(l)].hash = artFile[l]
      BY <2>1, <2>2, <1>3
    <2>4. artEvents[ev(l)] \in Event
      BY <2>1, <2>3
    <2> QED  BY <2>2, <2>3, <2>4 DEF Event
  <1> HIDE DEF o, M, ev, n
  <1>4. n \in Nat /\ DOMAIN o = 1..n /\ \A i \in 1..n : o[i] \in M /\ o[i] \in Labels
    <2>1. n \in Nat /\ DOMAIN o = 1..n /\ \A i \in 1..n : o[i] \in Labels
      BY <1>2 DEF n
    <2>2. \A i \in 1..n : o[i] \in ToSet(o)
      BY <2>1 DEF ToSet
    <2> QED  BY <2>1, <2>2, <1>2
  <1>5. ASSUME NEW i \in 1..n
        PROVE  /\ made(i) \in ArtifactRow
               /\ Names(made(i).event, made(i).label, made(i).hash)
    <2>1. artFile[o[i]] \in FileHashes
      BY <1>4 DEF TableTypes
    <2>2. /\ ev(o[i]) \in 1..Len(artEvents)
          /\ artEvents[ev(o[i])] = [label |-> o[i], hash |-> artFile[o[i]]]
      BY <1>3, <1>4
    <2>3. ev(o[i]) \in Nat
      BY <2>2 DEF TableTypes
    <2>4. made(i) \in ArtifactRow
      BY <1>4, <2>1, <2>3 DEF ArtifactRow
    <2> QED  BY <2>2, <2>4 DEF Names
  <1>6. artInserts' = [i \in 1..n |-> made(i)]
    BY <1>1, <1>4
  <1>7. artInserts' \in Seq(ArtifactRow) /\ Len(artInserts') = n
    <2>1. artInserts' \in [1..n -> ArtifactRow]
      <3> HIDE DEF made
      <3> QED  BY <1>5, <1>6
    <2> QED  BY <2>1, <1>4
  <1>8. TableTypes'
    <2>1. artRun' = [a \in Who |-> artRun'[a]]
      BY <1>1
    <2> QED  BY <2>1, <1>1, <1>7 DEF TableTypes
  <1>9. RowsName'
    <2>1. \A k, v, w : Names(k, v, w)' = Names(k, v, w)
      BY <1>1 DEF Names
    <2>2. \A i \in 1..n : artInserts'[i] = made(i)
      BY <1>6
    <2> HIDE DEF made
    <2>3. \A i \in 1..Len(artInserts') :
              Names(artInserts'[i].event, artInserts'[i].label, artInserts'[i].hash)
      BY <2>2, <1>5, <1>7
    <2>4. \A i \in 1..Len(artRows') :
              Names(artRows'[i].event, artRows'[i].label, artRows'[i].hash)
      BY <1>1 DEF RowsName
    <2> QED  BY <2>1, <2>3, <2>4 DEF RowsName
  <1>10. ASSUME NEW b \in Who
         PROVE  RunInv(b, artRun[b])' /\ Behind(b, artRun[b])' /\ Alone(b)'
    <2>1. /\ RunInv(b, Disturbed(artRun[b])) /\ Disturbed(artRun[b]).at = artRun[b].at
          /\ artRun[b].at # "idle" => ~Disturbed(artRun[b]).clean
      <3>1. RunInv(b, artRun[b])
        BY DEF RunsHold
      <3> QED  BY <3>1, DisturbedIs
    <2>2. ASSUME NEW r, RunInv(b, r) PROVE RunInv(b, r)'
      BY <2>2, <1>1, RunStays, EventsRest
    <2> DEFINE d == Disturbed(artRun[b])
    <2>3. RunInv(b, d) /\ artRun'[b] = d /\ (d.at # "idle" => ~d.clean)
      BY <1>1, <2>1
    <2> HIDE DEF d
    <2> QED  BY <2>2, <2>3 DEF Behind, Alone
  <1> QED  BY <1>8, <1>9, <1>10 DEF RunsHold

\* The rows are inserted: nobody's run is clean any more.
LEMMA ReconcileEndsKeeps == ASSUME ArtifactInv, ReconcileEnds PROVE ArtifactInv'
  <1> USE DEF ArtifactInv
  <1>1. /\ UNCHANGED <<artFile, artEvents, artSent, artRun>> /\ artInserts' = <<>>
        /\ artRows' = artRows \/ artRows' = artRows \o artInserts
        /\ artInserts # <<>>
    BY DEF ReconcileEnds
  <1>2. artRows \in Seq(ArtifactRow) /\ artInserts \in Seq(ArtifactRow)
    BY DEF TableTypes
  <1>3. artRows' \in Seq(ArtifactRow)
    <2>1. artRows \o artInserts \in Seq(ArtifactRow)
      BY <1>2
    <2> QED  BY <1>1, <1>2, <2>1
  <1>4. TableTypes'
    <2>1. <<>> \in Seq(ArtifactRow)
      OBVIOUS
    <2> QED  BY <2>1, <1>1, <1>3 DEF TableTypes
  <1>5. RowsName'
    <2>1. \A k, v, w : Names(k, v, w)' = Names(k, v, w)
      BY <1>1 DEF Names
    <2> DEFINE n == Len(artRows)
               m == Len(artInserts)
    <2>2. n \in Nat /\ m \in Nat
      BY <1>2
    <2>3. /\ \A i \in 1..n :
                 Names(artRows[i].event, artRows[i].label, artRows[i].hash)
          /\ \A i \in 1..m :
                 Names(artInserts[i].event, artInserts[i].label, artInserts[i].hash)
      BY DEF RowsName
    <2>4. ASSUME NEW i \in 1..Len(artRows')
          PROVE  Names(artRows'[i].event, artRows'[i].label, artRows'[i].hash)
      <3>1. CASE artRows' = artRows
        BY <3>1, <2>3
      <3>2. CASE artRows' = artRows \o artInserts
        <4>1. /\ Len(artRows') = n + m
              /\ \A k \in 1..(n + m) :
                     artRows'[k] = IF k <= n THEN artRows[k] ELSE artInserts[k - n]
          BY <3>2, <1>2
        <4> HIDE DEF n, m
        <4>2. CASE i <= n
          <5>1. i \in 1..n /\ artRows'[i] = artRows[i]
            BY <4>1, <4>2, <2>2
          <5> QED  BY <5>1, <2>3
        <4>3. CASE ~(i <= n)
          <5>1. i - n \in 1..m /\ artRows'[i] = artInserts[i - n]
            BY <4>1, <4>3, <2>2
          <5> QED  BY <5>1, <2>3
        <4> QED  BY <4>2, <4>3
      <3> QED  BY <3>1, <3>2, <1>1
    <2>5. \A i \in 1..Len(artInserts') : FALSE
      <3>1. Len(<<>>) = 0
        OBVIOUS
      <3> QED  BY <1>1, <3>1
    <2> HIDE DEF n, m
    <2> QED  BY <2>1, <2>4, <2>5 DEF RowsName
  <1>6. ASSUME NEW b \in Who
        PROVE  RunInv(b, artRun[b])' /\ Behind(b, artRun[b])' /\ Alone(b)'
    <2>1. RunInv(b, artRun[b])'
      BY <1>1, EventsRest, OtherRests
    <2>2. artRun[b].at # "idle" => ~artRun[b].clean
      BY <1>1 DEF RunsHold, Alone
    <2> QED  BY <1>1, <2>1, <2>2 DEF Behind, Alone
  <1> QED  BY <1>4, <1>5, <1>6 DEF RunsHold

\* Every step of the three scripts.
LEMMA ArtifactStep == ArtifactInv /\ [ArtNext]_artVars => ArtifactInv'
  <1>1. ASSUME ArtifactInv, UNCHANGED artVars PROVE ArtifactInv'
    <2>1. \A l, h : recorded(l, h)' = recorded(l, h)
      BY <1>1 DEF recorded, artVars
    <2>2. ASSUME NEW b \in Who
          PROVE  RunInv(b, artRun[b])' /\ Behind(b, artRun[b])' /\ Alone(b)'
      <3>1. RunInv(b, artRun[b])'
        BY <1>1, EventsRest, OtherRests DEF ArtifactInv, artVars
      <3>2. Behind(b, artRun[b])' /\ Alone(b)'
        BY <1>1, <2>1 DEF ArtifactInv, RunsHold, Behind, Alone, artVars
      <3> QED  BY <3>1, <3>2
    <2>3. TableTypes' /\ RowsName'
      <3>1. TableTypes'
        BY <1>1 DEF ArtifactInv, TableTypes, artVars
      <3>2. RowsName'
        BY <1>1, EventsRest, RowsStay DEF ArtifactInv, artVars
      <3> QED  BY <3>1, <3>2
    <2> QED  BY <2>2, <2>3 DEF ArtifactInv, RunsHold
  <1>2. ASSUME ArtifactInv PROVE DOMAIN artRun = Who
    BY <1>2 DEF ArtifactInv, TableTypes
  <1> QED  BY <1>1, <1>2, DeployKeeps, EnsureStartsKeeps, RecommitStartsKeeps, PostKeeps,
              RecordArtifactKeeps, ArtifactRunStopsKeeps, ReconcileReadsKeeps,
              ReconcileEndsKeeps DEF ArtNext

\* When the operator's run is through, every label's newest row has the file's hash.
LEMMA ArtifactImplies == ArtifactInv => ArtTypeOK /\ ArtifactsSettle
  <1> SUFFICES ASSUME ArtifactInv PROVE ArtTypeOK /\ ArtifactsSettle
    OBVIOUS
  <1> USE DEF ArtifactInv
  <1>1. artEvents \in Seq(Event) /\ artRows \in Seq(ArtifactRow) /\ DOMAIN artRun = Who
    BY DEF TableTypes
  <1>2. ArtTypeOK
    <2>1. ASSUME NEW i \in DOMAIN artRows PROVE artRows[i].event \in 0..Len(artEvents)
      <3>1. i \in 1..Len(artRows) /\ Len(artEvents) \in Nat
        BY <1>1
      <3>2. Names(artRows[i].event, artRows[i].label, artRows[i].hash)
        BY <3>1 DEF RowsName
      <3> QED  BY <3>1, <3>2 DEF Names
    <2>2. \A a \in DOMAIN artRun : artRun[a].event \in 0..Len(artEvents)
      BY <1>1 DEF RunsHold, RunInv
    <2> QED  BY <2>1, <2>2 DEF ArtTypeOK, TableTypes, Event
  <1>3. ArtifactsSettle
    <2> DEFINE run == artRun["operator"]
    <2> SUFFICES ASSUME run.at = "send", run.todo = <<>>, run.clean,
                        NEW l \in Labels, UpToDate(l)
                 PROVE  artEvents[newest(artEvents, l)].hash = run.hash[l]
      BY DEF ArtifactsSettle
    <2>1. recorded(l, run.hash[l])
      <3>1. Behind("operator", run)
        BY DEF RunsHold, Who
      <3>2. ToSet(<<>>) = {}
        BY DEF ToSet
      <3> QED  BY <3>1, <3>2 DEF Behind
    <2> DEFINE i == newest(artRows, l)
               e == newest(artEvents, l)
    <2>2. i # 0 /\ artRows[i].hash = run.hash[l] /\ artRows[i].event = e /\ e # 0
      BY <2>1 DEF recorded, UpToDate
    <2>3. i \in 0..Len(artRows)
      BY <1>1, NewestIs
    <2>4. i \in 1..Len(artRows)
      <3>1. Len(artRows) \in Nat
        BY <1>1
      <3> HIDE DEF i
      <3> QED  BY <2>2, <2>3, <3>1
    <2>5. Names(artRows[i].event, artRows[i].label, artRows[i].hash)
      BY <2>4 DEF RowsName
    <2> HIDE DEF i, e
    <2>6. artEvents[e] = [label |-> artRows[i].label, hash |-> artRows[i].hash]
      BY <2>2, <2>5 DEF Names
    <2>7. artEvents[e].hash = run.hash[l]
      BY <2>2, <2>6
    <2> QED  BY <2>7 DEF e
  <1> QED  BY <1>2, <1>3

\* recommitArtifacts: for all labels and hashes and any number of posts and deployments, when
\* the operator's run ends clean, a label whose newest event the table knows has the file's
\* hash on chain.
THEOREM ArtifactsAgree == ArtSpec => [](ArtTypeOK /\ ArtifactsSettle)
  <1>1. ArtInit => ArtifactInv
    BY ArtifactInitially
  <1>2. ArtifactInv /\ [ArtNext]_artVars => ArtifactInv'
    BY ArtifactStep
  <1>3. ArtifactInv => ArtTypeOK /\ ArtifactsSettle
    BY ArtifactImplies
  <1> QED  BY <1>1, <1>2, <1>3, PTL DEF ArtSpec

-----------------------------------------------------------------------------
(***************************************************************************)
(* Resolvers: any chain, rows, histories and quotes.                       *)
(***************************************************************************)

RvSpec == RvInit /\ [][RvNext]_rvVars

Ranges == [lo : Int, hi : Int, answer : Int]
Middle(r) == r.lo + (r.hi - r.lo) \div 2

\* A round of the loop moves one bound to the middle.
LEMMA NarrowedIs ==
    ASSUME NEW r \in Ranges, NEW t
    PROVE  /\ r.lo \in Int /\ r.hi \in Int /\ r.answer \in Int /\ Middle(r) \in Int
           /\ Narrowed(r, t) \in Ranges
           /\ r.lo > r.hi => Narrowed(r, t) = r
           /\ r.lo <= r.hi => LET n == Narrowed(r, t) IN
                  \/ /\ RvTimes[Middle(r)] <= t
                     /\ n.lo = Middle(r) + 1 /\ n.hi = r.hi /\ n.answer = Middle(r)
                  \/ /\ ~(RvTimes[Middle(r)] <= t)
                     /\ n.lo = r.lo /\ n.hi = Middle(r) - 1 /\ n.answer = r.answer
  <1> DEFINE m == Middle(r)
  <1>1. r.lo \in Int /\ r.hi \in Int /\ r.answer \in Int
    BY DEF Ranges
  <1>2. m \in Int
    BY <1>1 DEF Middle
  <1>3. m + 1 \in Int /\ m - 1 \in Int
    BY <1>2
  <1>4. CASE r.lo > r.hi
    <2>1. Narrowed(r, t) = r
      BY <1>1, <1>4 DEF Narrowed
    <2>2. ~(r.lo <= r.hi)
      BY <1>1, <1>4
    <2> QED  BY <1>1, <1>2, <2>1, <2>2
  <1>5. CASE r.lo <= r.hi /\ RvTimes[m] <= t
    <2>1. Narrowed(r, t) = [lo |-> m + 1, hi |-> r.hi, answer |-> m]
      BY <1>1, <1>5 DEF Narrowed, Middle
    <2>2. ~(r.lo > r.hi)
      BY <1>1, <1>5
    <2>3. [lo |-> m + 1, hi |-> r.hi, answer |-> m] \in Ranges
      <3> HIDE DEF m
      <3> QED  BY <1>1, <1>2, <1>3 DEF Ranges
    <2> DEFINE n == Narrowed(r, t)
    <2>4. n.lo = m + 1 /\ n.hi = r.hi /\ n.answer = m
      <3> HIDE DEF m
      <3> QED  BY <2>1
    <2>5. n \in Ranges
      BY <2>1, <2>3
    <2> HIDE DEF n
    <2> QED  BY <1>1, <1>2, <1>5, <2>2, <2>4, <2>5 DEF n
  <1>6. CASE r.lo <= r.hi /\ ~(RvTimes[m] <= t)
    <2>1. Narrowed(r, t) = [lo |-> r.lo, hi |-> m - 1, answer |-> r.answer]
      BY <1>1, <1>6 DEF Narrowed, Middle
    <2>2. ~(r.lo > r.hi)
      BY <1>1, <1>6
    <2>3. [lo |-> r.lo, hi |-> m - 1, answer |-> r.answer] \in Ranges
      <3> HIDE DEF m
      <3> QED  BY <1>1, <1>2, <1>3 DEF Ranges
    <2> DEFINE n == Narrowed(r, t)
    <2>4. n.lo = r.lo /\ n.hi = m - 1 /\ n.answer = r.answer
      <3> HIDE DEF m
      <3> QED  BY <2>1
    <2>5. n \in Ranges
      BY <2>1, <2>3
    <2> HIDE DEF n
    <2> QED  BY <1>1, <1>2, <1>6, <2>2, <2>4, <2>5 DEF n
  <1> QED  BY <1>1, <1>4, <1>5, <1>6

-----------------------------------------------------------------------------
(***************************************************************************)
(* The search of blockAtTime.                                              *)
(***************************************************************************)

Searches(h, t) ==
    h = [i \in Nat |-> IF i = 0 THEN [lo |-> 1, hi |-> rvHead, answer |-> 1]
                       ELSE Narrowed(h[i - 1], t)]

LEMMA SearchUnfold ==
    ASSUME NEW t
    PROVE  search(t) = (CHOOSE h : Searches(h, t))[MaxIters].answer
  BY DEF search, Searches

LEMMA SearchSolution ==
    ASSUME NEW t, rvHead \in Int
    PROVE  \E h : Searches(h, t)
  <1> DEFINE d == [lo |-> 1, hi |-> rvHead, answer |-> 1]
             G == [r \in Ranges |-> Narrowed(r, t)]
  <1>1. d \in Ranges
    BY DEF Ranges
  <1>2. G \in [Ranges -> Ranges]
    BY NarrowedIs
  <1>3. PICK g \in [Nat -> Ranges] : Iterates(g, d, G)
    <2> HIDE DEF G, d
    <2> QED  BY <1>1, <1>2, Iterated
  <1>4. \A i \in Nat : i # 0 => G[g[i - 1]] = Narrowed(g[i - 1], t)
    <2>1. ASSUME NEW i \in Nat, i # 0 PROVE g[i - 1] \in Ranges
      <3>1. i - 1 \in Nat
        BY <2>1
      <3> QED  BY <3>1
    <2> QED  BY <2>1
  <1>5. [i \in Nat |-> IF i = 0 THEN d ELSE G[g[i - 1]]]
        = [i \in Nat |-> IF i = 0 THEN d ELSE Narrowed(g[i - 1], t)]
    <2> HIDE DEF G, d
    <2> QED  BY <1>4
  <1>6. Searches(g, t)
    <2> HIDE DEF G
    <2> QED  BY <1>3, <1>5 DEF Searches, Iterates
  <1> QED  BY <1>6

\* What the loop keeps: an answer in time, nothing in time beyond hi, and a range
\* that is halved.
SearchBounds(lo, hi, answer, t, head, left) ==
    /\ lo \in Int /\ hi \in Int /\ answer \in Int
    /\ lo >= 1 /\ hi <= head /\ hi >= 0
    /\ answer \in 1..head /\ RvTimes[answer] <= t /\ answer >= lo - 1
    /\ \A b \in 1..head : b > hi => ~(RvTimes[b] <= t)
    /\ hi - lo + 1 <= left
Bracket(r, t, head, left) == r \in Ranges /\ SearchBounds(r.lo, r.hi, r.answer, t, head, left)

LEMMA HalvedRange ==
    ASSUME NEW lo \in Int, NEW hi \in Int, NEW left \in Nat
    PROVE  /\ left \div 2 \in Nat
           /\ lo > hi => hi - lo + 1 <= left \div 2
           /\ lo <= hi /\ hi - lo + 1 <= left =>
                  LET m == lo + (hi - lo) \div 2 IN
                  /\ lo <= m /\ m <= hi
                  /\ hi - (m + 1) + 1 <= left \div 2 /\ (m - 1) - lo + 1 <= left \div 2
  OBVIOUS

\* Blocks are mined one after another.
LEMMA Monotone ==
    ASSUME NEW head \in RvBlocks
    PROVE  /\ head \in Nat /\ head >= 1 /\ 1 \in 1..head /\ head \in 1..head
           /\ 1..head \subseteq RvBlocks
           /\ \A b \in RvBlocks : b \in Nat /\ b >= 1 /\ RvTimes[b] \in Nat
           /\ \A b, c \in RvBlocks : b <= c => RvTimes[b] <= RvTimes[c]
  <1>1. RvTimes \in Seq(Nat) /\ RvBlocks = 1..Len(RvTimes) /\ Len(RvTimes) \in Nat
    BY ResolversAssumption DEF RvBlocks
  <1>2. \A b \in RvBlocks : b \in Nat /\ b >= 1 /\ RvTimes[b] \in Nat
    BY <1>1
  <1>3. \A b, c \in RvBlocks : b < c => RvTimes[b] <= RvTimes[c]
    BY ResolversAssumption
  <1>4. \A b, c \in RvBlocks : b <= c => RvTimes[b] <= RvTimes[c]
    BY <1>2, <1>3
  <1>5. /\ head \in Nat /\ head >= 1 /\ 1 \in 1..head /\ head \in 1..head
        /\ 1..head \subseteq RvBlocks
    BY <1>1
  <1> QED  BY <1>2, <1>4, <1>5

LEMMA NarrowedBracket ==
    ASSUME NEW r, NEW t \in Nat, NEW head \in RvBlocks, NEW left \in Nat,
           Bracket(r, t, head, left)
    PROVE  Bracket(Narrowed(r, t), t, head, left \div 2)
  <1> DEFINE m == Middle(r)
             n == Narrowed(r, t)
  <1>1. /\ r \in Ranges /\ r.lo \in Int /\ r.hi \in Int /\ r.answer \in Int /\ m \in Int
        /\ n \in Ranges
    BY NarrowedIs DEF Bracket
  <1>2. SearchBounds(r.lo, r.hi, r.answer, t, head, left)
    BY DEF Bracket
  <1>3. left \div 2 \in Nat
    BY <1>1, HalvedRange
  <1>4. CASE r.lo > r.hi
    <2>1. n = r
      BY <1>1, <1>4, NarrowedIs
    <2>2. r.hi - r.lo + 1 <= left \div 2
      BY <1>1, <1>4, HalvedRange
    <2>3. SearchBounds(r.lo, r.hi, r.answer, t, head, left \div 2)
      BY <1>2, <2>2 DEF SearchBounds
    <2> QED  BY <1>1, <2>1, <2>3 DEF Bracket
  <1>5. CASE r.lo <= r.hi
    <2>1. /\ r.lo <= m /\ m <= r.hi
          /\ r.hi - (m + 1) + 1 <= left \div 2 /\ (m - 1) - r.lo + 1 <= left \div 2
      <3>1. r.hi - r.lo + 1 <= left
        BY <1>2 DEF SearchBounds
      <3> QED  BY <1>1, <1>5, <3>1, HalvedRange DEF Middle
    <2> HIDE DEF m
    <2>2. m \in 1..head
      BY <1>1, <1>2, <2>1, Monotone DEF SearchBounds
    <2>3. CASE RvTimes[m] <= t
      <3>1. n.lo = m + 1 /\ n.hi = r.hi /\ n.answer = m
        BY <1>1, <1>5, <2>3, NarrowedIs DEF m
      <3>2. SearchBounds(m + 1, r.hi, m, t, head, left \div 2)
        BY <1>1, <1>2, <2>1, <2>2, <2>3 DEF SearchBounds
      <3> QED  BY <1>1, <3>1, <3>2 DEF Bracket
    <2>4. CASE ~(RvTimes[m] <= t)
      <3>1. n.lo = r.lo /\ n.hi = m - 1 /\ n.answer = r.answer
        BY <1>1, <1>5, <2>4, NarrowedIs DEF m
      <3>2. ASSUME NEW b \in 1..head, b > m - 1 PROVE ~(RvTimes[b] <= t)
        <4>1. b \in RvBlocks /\ m \in RvBlocks /\ RvTimes[b] \in Nat /\ RvTimes[m] \in Nat
          BY <2>2, Monotone
        <4>2. m <= b
          BY <3>2, <1>1
        <4>3. RvTimes[m] <= RvTimes[b]
          BY <4>1, <4>2, Monotone
        <4> QED  BY <2>4, <4>1, <4>3
      <3>3. SearchBounds(r.lo, m - 1, r.answer, t, head, left \div 2)
        <4>1. /\ m - 1 \in Int /\ m - 1 <= head /\ m - 1 >= 0
              /\ (m - 1) - r.lo + 1 <= left \div 2
          BY <1>1, <2>1, <2>2, Monotone
        <4> QED  BY <1>1, <1>2, <3>2, <4>1 DEF SearchBounds
      <3> QED  BY <1>1, <3>1, <3>3 DEF Bracket
    <2> QED  BY <2>3, <2>4
  <1> QED  BY <1>1, <1>4, <1>5

\* After MaxIters rounds.
LEMMA SearchBracket ==
    ASSUME NEW t \in Nat, rvHead \in RvBlocks, RvTimes[1] <= t, ~(t >= RvTimes[rvHead])
    PROVE  \E r : /\ Bracket(r, t, rvHead, LeftOf(rvHead, MaxIters))
                  /\ search(t) = r.answer
  <1> DEFINE h == CHOOSE h : Searches(h, t)
  <1>1. rvHead \in Nat /\ rvHead >= 1 /\ MaxIters \in Nat
    BY ResolversAssumption DEF RvBlocks
  <1>2. Searches(h, t)
    BY <1>1, SearchSolution
  <1>3. search(t) = h[MaxIters].answer
    BY SearchUnfold
  <1> HIDE DEF h
  <1>4. h[0] = [lo |-> 1, hi |-> rvHead, answer |-> 1]
    BY <1>2 DEF Searches
  <1>5. \A n \in Nat : h[n + 1] = Narrowed(h[n], t)
    <2>1. ASSUME NEW n \in Nat PROVE h[n + 1] = Narrowed(h[n], t)
      <3>1. n + 1 \in Nat /\ n + 1 # 0 /\ (n + 1) - 1 = n
        OBVIOUS
      <3>2. h[n + 1] = Narrowed(h[(n + 1) - 1], t)
        BY <3>1, <1>2 DEF Searches
      <3> QED  BY <3>1, <3>2
    <2> QED  BY <2>1
  <1> DEFINE N == {n \in Nat : Bracket(h[n], t, rvHead, LeftOf(rvHead, n))}
  <1>6. 0 \in N
    <2>1. LeftOf(rvHead, 0) = rvHead
      BY <1>1, LeftOfIs
    <2>2. SearchBounds(1, rvHead, 1, t, rvHead, rvHead)
      <3>1. \A b \in 1..rvHead : ~(b > rvHead)
        BY <1>1
      <3> QED  BY <1>1, <3>1 DEF SearchBounds
    <2>3. h[0] \in Ranges /\ h[0].lo = 1 /\ h[0].hi = rvHead /\ h[0].answer = 1
      BY <1>1, <1>4 DEF Ranges
    <2>4. Bracket(h[0], t, rvHead, rvHead)
      BY <2>2, <2>3 DEF Bracket
    <2> QED  BY <2>1, <2>4
  <1>7. ASSUME NEW n \in Nat, n \in N PROVE n + 1 \in N
    <2>1. LeftOf(rvHead, n) \in Nat /\ LeftOf(rvHead, n + 1) = LeftOf(rvHead, n) \div 2
      BY <1>1, LeftOfIs
    <2>2. Bracket(Narrowed(h[n], t), t, rvHead, LeftOf(rvHead, n) \div 2)
      BY <1>7, <2>1, NarrowedBracket
    <2> QED  BY <2>1, <2>2, <1>5
  <1>8. MaxIters \in N
    <2> HIDE DEF N
    <2> QED  BY <1>1, <1>6, <1>7, NatSetInduction
  <1> QED  BY <1>3, <1>8

\* blockAtTime's answer is a block of the chain, and near the time.
LEMMA AnswerNear ==
    ASSUME NEW t \in Nat, rvHead \in RvBlocks
    PROVE  blockAtTime(t) \in 1..rvHead /\ Near(blockAtTime(t), t, rvHead)
  <1> DEFINE at == {b \in 1..rvHead : RvTimes[b] <= t}
             c == blockAtTime(t)
             left == LeftOf(rvHead, MaxIters)
  <1>1. /\ rvHead \in Nat /\ rvHead >= 1 /\ 1 \in 1..rvHead /\ rvHead \in 1..rvHead
        /\ 1 \in RvBlocks /\ RvTimes[1] \in Nat /\ RvTimes[rvHead] \in Nat
    BY Monotone
  <1>2. left \in Nat
    BY <1>1, ResolversAssumption, LeftOfIs
  <1>3. at # {} => Max(at) \in at /\ \A b \in at : b <= Max(at)
    <2>1. at \in SUBSET Int /\ IsFiniteSet(at)
      <3>1. IsFiniteSet(1..rvHead) /\ at \in SUBSET (1..rvHead)
        BY <1>1, FS_Interval
      <3>2. IsFiniteSet(at)
        <4> HIDE DEF at
        <4> QED  BY <3>1, FS_Subset
      <3> QED  BY <3>2
    <2> HIDE DEF at
    <2> QED  BY <2>1, GreatestIs
  <1>5. ASSUME c \in 1..rvHead,
               IF at = {} THEN c = 1 ELSE c \in at,
               t > RvTimes[1] => Max(at) - c <= left
        PROVE  c \in 1..rvHead /\ Near(c, t, rvHead)
    <2> HIDE DEF c
    <2> QED  BY <1>5 DEF Near
  <1>6. CASE t >= RvTimes[rvHead]
    <2>1. c = rvHead
      BY <1>1, <1>6 DEF blockAtTime
    <2>2. rvHead \in at
      BY <1>1, <1>6
    <2>3. Max(at) \in 1..rvHead
      BY <1>3, <2>2
    <2> DEFINE m == Max(at)
    <2>4. m - rvHead <= left
      <3>1. m \in 1..rvHead
        BY <2>3
      <3> HIDE DEF m, left
      <3> QED  BY <1>1, <1>2, <3>1
    <2>5. /\ c \in 1..rvHead /\ (IF at = {} THEN c = 1 ELSE c \in at)
          /\ (t > RvTimes[1] => Max(at) - c <= left)
      <3>1. Max(at) - c <= left
        BY <2>1, <2>4
      <3> HIDE DEF at, left, c
      <3> QED  BY <1>1, <2>1, <2>2, <3>1
    <2> QED  BY <1>5, <2>5
  <1>7. CASE ~(t >= RvTimes[rvHead]) /\ t <= RvTimes[1]
    <2>1. c = 1
      BY <1>1, <1>7 DEF blockAtTime
    <2>2. at # {} => 1 \in at
      <3>1. ASSUME NEW b \in at PROVE 1 \in at
        <4>1. b \in RvBlocks /\ RvTimes[b] \in Nat /\ 1 <= b /\ RvTimes[b] <= t
          BY Monotone
        <4>2. RvTimes[1] <= RvTimes[b]
          BY <1>1, <4>1, Monotone
        <4> QED  BY <1>1, <4>1, <4>2
      <3> QED  BY <3>1
    <2>3. ~(t > RvTimes[1])
      BY <1>1, <1>7
    <2>4. /\ c \in 1..rvHead /\ (IF at = {} THEN c = 1 ELSE c \in at)
          /\ (t > RvTimes[1] => Max(at) - c <= left)
      <3> HIDE DEF at, left, c
      <3> QED  BY <1>1, <2>1, <2>2, <2>3
    <2> QED  BY <1>5, <2>4
  <1>8. CASE ~(t >= RvTimes[rvHead]) /\ ~(t <= RvTimes[1])
    <2>1. RvTimes[1] <= t
      BY <1>1, <1>8
    <2>2. c = search(t)
      BY <1>1, <1>8 DEF blockAtTime
    <2>3. PICK r : Bracket(r, t, rvHead, left) /\ search(t) = r.answer
      BY <1>8, <2>1, SearchBracket
    <2>4. SearchBounds(r.lo, r.hi, c, t, rvHead, left)
      BY <2>2, <2>3 DEF Bracket
    <2> HIDE DEF left, c
    <2>5. c \in at /\ c \in 1..rvHead
      BY <2>4 DEF SearchBounds
    <2>6. Max(at) \in at
      BY <1>3, <2>5
    <2> DEFINE m == Max(at)
    <2>7. m - c <= left
      <3>1. m \in 1..rvHead /\ RvTimes[m] <= t
        BY <2>6
      <3> HIDE DEF m
      <3>2. m <= r.hi
        BY <1>1, <2>4, <3>1 DEF SearchBounds
      <3> QED  BY <1>1, <1>2, <2>4, <3>1, <3>2 DEF SearchBounds
    <2>8. Max(at) - c <= left
      BY <2>7
    <2>9. /\ c \in 1..rvHead /\ (IF at = {} THEN c = 1 ELSE c \in at)
          /\ (t > RvTimes[1] => Max(at) - c <= left)
      <3> HIDE DEF at, m
      <3> QED  BY <2>5, <2>8
    <2> QED  BY <1>5, <2>9 DEF c, left
  <1> QED  BY <1>6, <1>7, <1>8

\* The verdicts, of a result and its quotes.
DrawdownIs(res, quotes) ==
    LET traded == {b \in 1..horizonBlock \cup 1..refEnd : Price(b) > 0}
        price  == IF quotes # <<>> THEN quotes[1].out ELSE Price(Max(traded))
    IN  res = "true" <=>
            \E b \in refStart..refEnd : Price(b) > 0 /\ Dropped(price, Price(b))
SellIs(res, quotes) ==
    IF res = "true" THEN 10 * quotes[2].out <= 7 * QuoteUnit ELSE quotes[2].out > 0
LiqIs(res) ==
    LET depth(b) == SumFunctionOnSet(rvData.deltas, rvRow.launchBlock..b)
    IN  res = "true" <=>
            \E p \in rvRow.launchBlock..horizonBlock :
                depth(p) > 0 /\ 5 * depth(horizonBlock) <= depth(p)
InsiderIs(res) ==
    res = "true" =>
        \E i \in Replayed :
            rvData.moves[i].from \in RvCluster /\ rvData.moves[i].to = "pool"
AliveIs(res) ==
    res = "true" <=>
        \E b \in RvBlocks : horizonBlock - b \in 0..AliveBlocks /\ Price(b) > 0

\* A row that was linked, what the chain holds of it, and the blocks of its times.
Linked ==
    [label : RvLabels, trigger : STRING, anchorTime : Nat, horizonAt : Nat,
     kind : {"v2", "v3", "v4"}, pool : BOOLEAN, quotable : BOOLEAN,
     locked : BOOLEAN, launchBlock : RvBlocks]
Moving == [block : Nat, from : STRING, to : STRING, value : Nat]
Histories ==
    [trades : [RvBlocks -> Nat], deltas : [RvBlocks -> Int], moves : Seq(Moving)]
Dated ==
    /\ rvRow \in Linked /\ rvData \in Histories
    /\ horizonBlock \in RvBlocks
    /\ rvRow.label = "DRAWDOWN_80" => refStart \in RvBlocks /\ refEnd \in RvBlocks

LEMMA RowIs ==
    ASSUME Dated
    PROVE  /\ rvRow.label \in RvLabels /\ rvRow.pool \in BOOLEAN /\ rvRow.launchBlock \in RvBlocks
           /\ rvRow.kind \in {"v2", "v3", "v4"}
           /\ rvData.trades \in [RvBlocks -> Nat] /\ rvData.deltas \in [RvBlocks -> Int]
           /\ rvData.moves \in Seq(Moving)
           /\ horizonBlock \in RvBlocks
           /\ rvRow.label = "DRAWDOWN_80" => refStart \in RvBlocks /\ refEnd \in RvBlocks
  <1>1. rvRow \in Linked /\ rvData \in Histories
    BY DEF Dated
  <1>2. /\ rvRow.label \in RvLabels /\ rvRow.pool \in BOOLEAN /\ rvRow.launchBlock \in RvBlocks
        /\ rvRow.kind \in {"v2", "v3", "v4"}
    BY <1>1 DEF Linked
  <1>3. /\ rvData.trades \in [RvBlocks -> Nat] /\ rvData.deltas \in [RvBlocks -> Int]
        /\ rvData.moves \in Seq(Moving)
    BY <1>1 DEF Histories
  <1> QED  BY <1>2, <1>3 DEF Dated

\* The window before the horizon.
LEMMA AliveVerdict ==
    ASSUME Dated, rvRow.pool, NEW from,
           from = (IF horizonBlock > AliveBlocks THEN horizonBlock - AliveBlocks ELSE 0)
    PROVE  AliveIs(IF Series(from, horizonBlock) # {} THEN "true" ELSE "false")
  <1>1. AliveBlocks \in Nat
    BY ResolversAssumption
  <1>2. horizonBlock \in Nat /\ \A b \in RvBlocks : b \in Nat /\ b >= 1
    BY RowIs, Monotone
  <1> DEFINE h == horizonBlock
  <1> HIDE DEF h
  <1>3. from \in Nat
    BY <1>1, <1>2 DEF h
  <1>4. \A b \in RvBlocks : h - b \in 0..AliveBlocks <=> b \in from..h
    BY <1>1, <1>2, <1>3 DEF h
  <1>5. Series(from, h) = {b \in (from..h) \cap RvBlocks : Price(b) > 0}
    BY DEF Series, Price
  <1>6. Series(from, h) # {} <=> \E b \in RvBlocks : h - b \in 0..AliveBlocks /\ Price(b) > 0
    BY <1>4, <1>5
  <1> QED  BY <1>6 DEF AliveIs, h

LEMMA MovesAre ==
    ASSUME Dated
    PROVE  LET f == [i \in DOMAIN rvData.moves |-> rvData.moves[i].value] IN
           IsFiniteSet(DOMAIN rvData.moves) /\ \A i \in DOMAIN rvData.moves : f[i] \in Nat
  <1>1. rvData.moves \in Seq(Moving)
    BY RowIs
  <1>2. DOMAIN rvData.moves = 1..Len(rvData.moves) /\ Len(rvData.moves) \in Nat
    BY <1>1
  <1>3. IsFiniteSet(1..Len(rvData.moves))
    <2>1. 1 \in Int /\ Len(rvData.moves) \in Int
      BY <1>2
    <2> QED  BY <2>1, FS_Interval, Zenon
  <1>4. \A i \in DOMAIN rvData.moves : rvData.moves[i] \in Moving
    BY <1>1
  <1>5. \A i \in DOMAIN rvData.moves : rvData.moves[i].value \in Nat
    BY <1>4 DEF Moving
  <1> QED  BY <1>2, <1>3, <1>5

\* Something was moved to the pool if more was than came from it.
LEMMA InsiderVerdict ==
    ASSUME Dated,
           NEW peak, peak \in Int, NEW sold,
           sold = Moved({i \in From(Replayed) : rvData.moves[i].to = "pool"})
                  - Moved({i \in To(Replayed) : rvData.moves[i].from = "pool"})
    PROVE  InsiderIs(IF peak > 0 /\ sold * 2 >= peak THEN "true" ELSE "false")
  <1> DEFINE A == {i \in From(Replayed) : rvData.moves[i].to = "pool"}
             B == {i \in To(Replayed) : rvData.moves[i].from = "pool"}
             f == [i \in DOMAIN rvData.moves |-> rvData.moves[i].value]
  <1>2. /\ IsFiniteSet(DOMAIN rvData.moves) /\ \A i \in DOMAIN rvData.moves : f[i] \in Nat
        /\ B \in SUBSET DOMAIN rvData.moves
    BY MovesAre DEF To, Replayed
  <1>3. Moved(A) = SumFunctionOnSet(f, A) /\ Moved(B) = SumFunctionOnSet(f, B)
    BY DEF Moved
  <1>4. SumFunctionOnSet(f, B) \in Nat
    <2>1. IsFiniteSet(B) /\ \A i \in B : f[i] \in Nat
      <3> HIDE DEF B, f
      <3> QED  BY <1>2, FS_Subset
    <2> HIDE DEF B, f
    <2> QED  BY <2>1, SumType
  <1>5. CASE A = {}
    <2>1. Moved(A) = 0
      <3> HIDE DEF A, f
      <3> QED  BY <1>3, <1>5, SumEmpty
    <2>2. sold = 0 - Moved(B)
      BY <2>1
    <2>3. ~(peak > 0 /\ sold * 2 >= peak)
      <3> DEFINE s == Moved(B)
      <3>1. s \in Nat /\ sold = 0 - s
        BY <1>3, <1>4, <2>2
      <3> HIDE DEF s
      <3> QED  BY <3>1
    <2> QED  BY <2>3 DEF InsiderIs
  <1>6. CASE A # {}
    BY <1>6 DEF InsiderIs, From
  <1> QED  BY <1>5, <1>6

\* A factor both sides have.
LEMMA Cancelled ==
    ASSUME NEW a \in Nat, NEW b \in Nat, NEW s \in Nat, s # 0, a * s <= b * s
    PROVE  a <= b
  <1>1. SUFFICES ASSUME a > b PROVE FALSE
    OBVIOUS
  <1> DEFINE d == a - b
  <1>2. d \in Nat /\ d >= 1 /\ a = b + d
    BY <1>1
  <1> HIDE DEF d
  <1>3. (b + d) * s = b * s + d * s
    BY <1>2
  <1>4. d * s >= s
    <2> DEFINE e == d - 1
    <2>1. e \in Nat /\ d = e + 1
      BY <1>2
    <2> HIDE DEF e
    <2>2. (e + 1) * s = e * s + s /\ e * s >= 0
      BY <2>1
    <2> QED  BY <2>1, <2>2
  <1>5. b * s \in Nat /\ d * s \in Nat
    BY <1>2
  <1> QED  BY <1>2, <1>3, <1>4, <1>5

LEMMA SellVerdict ==
    ASSUME NEW spot \in Nat, spot # 0, NEW out \in Nat, NEW size,
           size = (QuoteUnit * SpotIn) \div spot, size # 0, NEW quotes, quotes[2].out = out
    PROVE  SellIs(IF out = 0 \/ 10 * out * SpotIn <= 7 * spot * size
                  THEN "true" ELSE "false", quotes)
  <1>1. QuoteUnit \in Nat /\ SpotIn \in Nat
    BY ResolversAssumption
  <1> DEFINE all == QuoteUnit * SpotIn
  <1>2. all \in Nat
    BY <1>1
  <1>3. size \in Nat /\ spot * size <= all
    <2> HIDE DEF all
    <2>1. size = all \div spot
      BY DEF all
    <2> QED  BY <1>2, <2>1
  <1>4. SpotIn # 0
    <2>1. SUFFICES ASSUME SpotIn = 0 PROVE FALSE
      OBVIOUS
    <2>2. all = 0
      BY <1>1, <2>1
    <2>3. 0 \div spot = 0
      OBVIOUS
    <2> QED  BY <2>2, <2>3
  <1>5. CASE out = 0
    BY <1>1, <1>5 DEF SellIs
  <1>6. CASE out # 0 /\ 10 * out * SpotIn <= 7 * spot * size
    <2>1. 10 * out \in Nat /\ 7 * QuoteUnit \in Nat
      BY <1>1
    <2>2. (10 * out) * SpotIn <= (7 * QuoteUnit) * SpotIn
      <3> DEFINE have == spot * size
      <3>1. 7 * spot * size = 7 * have /\ have \in Nat
        BY <1>3
      <3>2. (7 * QuoteUnit) * SpotIn = 7 * all
        BY <1>1
      <3>3. (10 * out) * SpotIn <= 7 * have
        BY <1>6, <3>1
      <3>4. have <= all
        BY <1>3
      <3> DEFINE x == (10 * out) * SpotIn
                 y == (7 * QuoteUnit) * SpotIn
      <3>5. x \in Nat /\ y \in Nat /\ x <= 7 * have /\ y = 7 * all
        BY <1>1, <3>2, <3>3
      <3>6. x <= y
        <4> HIDE DEF have, all, x, y
        <4> QED  BY <1>2, <3>1, <3>4, <3>5
      <3> QED  BY <3>6
    <2>3. 10 * out <= 7 * QuoteUnit
      <3> DEFINE a == 10 * out
                 b == 7 * QuoteUnit
      <3>1. a \in Nat /\ b \in Nat /\ a * SpotIn <= b * SpotIn
        BY <2>1, <2>2
      <3> HIDE DEF a, b
      <3>2. a <= b
        BY <1>1, <1>4, <3>1, Cancelled
      <3> QED  BY <3>2 DEF a, b
    <2> QED  BY <2>3 DEF SellIs
  <1>7. CASE out # 0 /\ ~(10 * out * SpotIn <= 7 * spot * size)
    BY <1>7 DEF SellIs
  <1> QED  BY <1>5, <1>6, <1>7

\* Prices of a window.
LEMMA SeriesIs ==
    ASSUME Dated, rvRow.pool, NEW from \in Nat, NEW to \in RvBlocks
    PROVE  /\ Series(from, to) = {b \in from..to \cap RvBlocks : Price(b) > 0}
           /\ Series(from, to) \in SUBSET Int /\ IsFiniteSet(Series(from, to))
           /\ \A b \in from..to : b >= 1 => b \in RvBlocks
           /\ \A b \in RvBlocks : Price(b) \in Nat
  <1>1. \A b \in RvBlocks : b \in Nat /\ b >= 1
    BY Monotone
  <1>2. Series(from, to) = {b \in from..to \cap RvBlocks : Price(b) > 0}
    BY DEF Series, Price
  <1>3. IsFiniteSet(from..to) /\ Series(from, to) \in SUBSET (from..to)
    BY <1>1, <1>2, FS_Interval
  <1>4. IsFiniteSet(Series(from, to))
    BY <1>3, FS_Subset
  <1>5. Series(from, to) \in SUBSET Int
    BY <1>1, <1>3
  <1>6. 1..to \subseteq RvBlocks
    BY Monotone
  <1>7. \A b \in from..to : b >= 1 => b \in RvBlocks
    BY <1>1, <1>6
  <1>8. \A b \in RvBlocks : Price(b) \in Nat
    BY RowIs DEF Price
  <1> QED  BY <1>2, <1>4, <1>5, <1>7, <1>8

\* A price is a fifth of the highest of a window if it is of some price there.
LEMMA Highest ==
    ASSUME Dated, rvRow.label = "DRAWDOWN_80", rvRow.pool, NEW ref, ref = Series(refStart, refEnd), ref # {},
           NEW price \in Nat
    PROVE  Dropped(price, Max({Price(b) : b \in ref})) <=>
               \E b \in refStart..refEnd : Price(b) > 0 /\ Dropped(price, Price(b))
  <1>1. refStart \in RvBlocks /\ refEnd \in RvBlocks /\ refStart \in Nat /\ refStart >= 1
    BY RowIs, Monotone
  <1>2. /\ ref = {b \in refStart..refEnd : Price(b) > 0}
        /\ IsFiniteSet(ref) /\ \A b \in ref : Price(b) \in Nat
    <2>1. \A b \in refStart..refEnd : b \in RvBlocks
      BY <1>1, SeriesIs, Monotone
    <2> QED  BY <1>1, <2>1, SeriesIs
  <1> DEFINE P == {Price(b) : b \in ref}
             m == Max(P)
  <1>3. IsFiniteSet(P)
    <2> DEFINE f == rvData.trades
    <2>1. P = {f[b] : b \in ref}
      BY DEF Price
    <2> HIDE DEF f, P
    <2> QED  BY <1>2, <2>1, FiniteImage
  <1>4. m \in P /\ \A x \in P : x <= m
    <2>1. P \in SUBSET Int /\ P # {}
      BY <1>2
    <2> HIDE DEF P
    <2> QED  BY <1>3, <2>1, GreatestIs
  <1> HIDE DEF m
  <1>5. \A b \in ref : Price(b) <= m
    BY <1>4
  <1>6. PICK b \in ref : m = Price(b)
    BY <1>4
  <1>7. m \in Nat
    BY <1>2, <1>6
  <1>8. Dropped(price, m) => \E c \in refStart..refEnd : Price(c) > 0 /\ Dropped(price, Price(c))
    BY <1>2, <1>6
  <1>9. ASSUME NEW c \in refStart..refEnd, Price(c) > 0, Dropped(price, Price(c))
        PROVE  Dropped(price, m)
    <2>1. c \in ref
      BY <1>2, <1>9
    <2> DEFINE q == Price(c)
    <2>2. q \in Nat /\ q <= m
      BY <1>2, <1>5, <2>1
    <2>3. 5 * price <= q
      BY <1>9 DEF Dropped
    <2> HIDE DEF q
    <2> QED  BY <1>7, <2>2, <2>3 DEF Dropped
  <1> QED  BY <1>8, <1>9 DEF m

\* The last price of the tail is the last price.
LEMMA LastPrice ==
    ASSUME Dated, rvRow.label = "DRAWDOWN_80", rvRow.pool, NEW from, NEW tail,
           tail = (IF horizonBlock > TailBlocks THEN horizonBlock - TailBlocks ELSE 0),
           from = (IF refEnd + 1 > tail THEN refEnd + 1 ELSE tail),
           NEW last,
           last = (IF from <= horizonBlock THEN Series(from, horizonBlock)
                   ELSE Series(refStart, refEnd)),
           last # {}
    PROVE  /\ Max({b \in 1..horizonBlock \cup 1..refEnd : Price(b) > 0}) = Max(last)
           /\ Price(Max(last)) \in Nat
  <1> DEFINE h == horizonBlock
             e == refEnd
             s == refStart
             traded == {b \in 1..h \cup 1..e : Price(b) > 0}
  <1>1. h \in RvBlocks /\ e \in RvBlocks /\ s \in RvBlocks
    BY RowIs
  <1>2. /\ h \in Nat /\ e \in Nat /\ s \in Nat /\ h >= 1 /\ e >= 1 /\ s >= 1
        /\ 1..h \subseteq RvBlocks /\ 1..e \subseteq RvBlocks
        /\ TailBlocks \in Nat
    BY <1>1, Monotone, ResolversAssumption
  <1>3. tail = (IF h > TailBlocks THEN h - TailBlocks ELSE 0) /\ from = (IF e + 1 > tail THEN e + 1 ELSE tail)
    OBVIOUS
  <1> HIDE DEF h, e, s
  <1>4. tail \in Nat /\ tail <= h /\ from \in Nat /\ from >= 1 /\ from >= e + 1
        /\ (from > h => e >= h)
    BY <1>2, <1>3
  <1>5. ASSUME from <= h
        PROVE  last \in SUBSET traded /\ \A x \in traded \ last : \A y \in last : x <= y
    <2>1. last = Series(from, h)
      BY <1>5 DEF h
    <2>2. /\ last = {b \in from..h \cap RvBlocks : Price(b) > 0}
          /\ IsFiniteSet(last)
      BY <1>1, <1>4, <2>1, SeriesIs
    <2>3. last \in SUBSET traded
      BY <1>2, <1>4, <2>2
    <2>4. ASSUME NEW x \in traded \ last, NEW y \in last PROVE x <= y
      <3>1. y \in Nat /\ y >= from
        BY <1>2, <1>4, <2>2
      <3>2. x \in Nat /\ (x \in 1..h \/ x \in 1..e) /\ x \in RvBlocks /\ Price(x) > 0
        BY <1>2
      <3>3. x \notin from..h
        BY <2>2, <3>2
      <3> QED  BY <1>2, <1>4, <3>1, <3>2, <3>3
    <2> QED  BY <2>3, <2>4
  <1>6. ASSUME ~(from <= h)
        PROVE  last \in SUBSET traded /\ \A x \in traded \ last : \A y \in last : x <= y
    <2>1. last = Series(s, e)
      BY <1>6 DEF h, s, e
    <2>2. /\ last = {b \in s..e \cap RvBlocks : Price(b) > 0}
          /\ IsFiniteSet(last)
      BY <1>1, <1>2, <2>1, SeriesIs
    <2>3. last \in SUBSET traded
      BY <1>2, <2>2
    <2>4. ASSUME NEW x \in traded \ last, NEW y \in last PROVE x <= y
      <3>1. y \in Nat /\ y >= s
        BY <1>2, <2>2
      <3>2. x \in Nat /\ x <= e /\ x >= 1 /\ x \in RvBlocks /\ Price(x) > 0
        BY <1>2, <1>4, <1>6
      <3>3. x \notin s..e
        BY <2>2, <3>2
      <3> QED  BY <1>2, <3>1, <3>2, <3>3
    <2> QED  BY <2>3, <2>4
  <1>7. last \in SUBSET traded /\ \A x \in traded \ last : \A y \in last : x <= y
    BY <1>5, <1>6
  <1>8. traded \in SUBSET Int /\ IsFiniteSet(traded)
    <2>1. IsFiniteSet((1..h) \cup (1..e))
      <3>1. 1 \in Int /\ h \in Int /\ e \in Int
        BY <1>2
      <3>2. IsFiniteSet(1..h)
        BY <3>1, FS_Interval
      <3>3. IsFiniteSet(1..e)
        BY <3>1, FS_Interval
      <3> QED  BY <3>2, <3>3, FS_Union
    <2>2. traded \in SUBSET ((1..h) \cup (1..e))
      OBVIOUS
    <2> HIDE DEF traded
    <2>3. IsFiniteSet(traded)
      BY <2>1, <2>2, FS_Subset
    <2> QED  BY <1>2, <2>2, <2>3
  <1>9. Max(traded) = Max(last)
    <2> HIDE DEF traded
    <2> QED  BY <1>7, <1>8, GreatestOfPart
  <1>10. Max(last) \in last
    <2>1. last \in SUBSET Int /\ IsFiniteSet(last)
      BY <1>7, <1>8, FS_Subset
    <2> QED  BY <2>1, GreatestIs
  <1>11. Price(Max(last)) \in Nat
    <2>1. Max(last) \in RvBlocks
      BY <1>2, <1>7, <1>10
    <2> QED  BY <1>1, <1>2, <2>1, SeriesIs
  <1> QED  BY <1>9, <1>11 DEF h, e

LEMMA DrawdownVerdict ==
    ASSUME Dated, rvRow.label = "DRAWDOWN_80", NEW ref, ref = Series(refStart, refEnd), ref # {},
           NEW price \in Nat, NEW quotes,
           \/ quotes # <<>> /\ price = quotes[1].out
           \/ quotes = <<>> /\ price = Price(Max({b \in 1..horizonBlock \cup 1..refEnd : Price(b) > 0}))
    PROVE  DrawdownIs(IF Dropped(price, Max({Price(b) : b \in ref})) THEN "true" ELSE "false",
                      quotes)
  <1>1. rvRow.pool
    BY DEF Series
  <1>2. Dropped(price, Max({Price(b) : b \in ref})) <=>
            \E b \in refStart..refEnd : Price(b) > 0 /\ Dropped(price, Price(b))
    BY <1>1, Highest
  <1> DEFINE D == Dropped(price, Max({Price(b) : b \in ref}))
             res == IF D THEN "true" ELSE "false"
  <1>3. res = "true" <=> \E b \in refStart..refEnd : Price(b) > 0 /\ Dropped(price, Price(b))
    BY <1>2
  <1>4. price = IF quotes # <<>> THEN quotes[1].out
                ELSE Price(Max({b \in 1..horizonBlock \cup 1..refEnd : Price(b) > 0}))
    OBVIOUS
  <1> HIDE DEF res, D
  <1>5. DrawdownIs(res, quotes)
    BY <1>3, <1>4 DEF DrawdownIs
  <1> QED  BY <1>5 DEF res, D

\* The depth at a block is what the events up to it add up to.
LEMMA DepthIs ==
    ASSUME Dated, rvRow.pool, rvRow.kind # "v3",
           NEW p \in rvRow.launchBlock..horizonBlock
    PROVE  LET d == SumFunctionOnSet(rvData.deltas, rvRow.launchBlock..p) IN
           /\ d = liquidity(p) /\ d \in Int
           /\ {c \in liquidityEvents : c <= p} = {} => d = 0
           /\ \A q \in rvRow.launchBlock..p :
                  (\A c \in liquidityEvents : rvData.deltas[c] >= 0) =>
                      SumFunctionOnSet(rvData.deltas, rvRow.launchBlock..q) <= d
  <1> DEFINE l == rvRow.launchBlock
             h == horizonBlock
             f == rvData.deltas
             E == {c \in liquidityEvents : c <= p}
  <1>1. l \in RvBlocks /\ h \in RvBlocks /\ f \in [RvBlocks -> Int]
    BY RowIs
  <1>2. l \in Nat /\ h \in Nat /\ l >= 1 /\ 1..h \subseteq RvBlocks
    BY <1>1, Monotone
  <1>3. liquidityEvents = {b \in l..h : f[b] # 0}
    BY RowIs DEF liquidityEvents
  <1>4. p \in l..h
    OBVIOUS
  <1>5. liquidity(p) = SumFunctionOnSet(f, E)
    BY DEF liquidity
  <1> HIDE DEF l, h, f
  <1>6. /\ IsFiniteSet(l..p) /\ E \in SUBSET (l..p)
        /\ \A x \in l..p : x \in l..h /\ f[x] \in Int
        /\ \A x \in (l..p) \ E : f[x] = 0
    <2>1. p \in Int /\ \A x \in l..p : x \in l..h
      BY <1>2, <1>4
    <2>2. \A x \in l..p : f[x] \in Int
      BY <1>1, <1>2, <2>1
    <2>3. E \in SUBSET (l..p) /\ \A x \in (l..p) \ E : f[x] = 0
      BY <1>2, <1>3, <1>4, <2>1
    <2>4. IsFiniteSet(l..p)
      BY <1>2, <2>1, FS_Interval
    <2> QED  BY <2>1, <2>2, <2>3, <2>4
  <1> DEFINE d == SumFunctionOnSet(f, l..p)
  <1>7. d = SumFunctionOnSet(f, E) /\ d \in Int
    <2> HIDE DEF E
    <2>1. {d, SumFunctionOnSet(f, E)} \subseteq Int /\ d = SumFunctionOnSet(f, E)
      BY <1>6, SumBeyond
    <2> QED  BY <2>1
  <1>8. E = {} => d = 0
    <2> HIDE DEF E, d
    <2> QED  BY <1>7, SumEmpty
  <1>9. ASSUME NEW q \in l..p, \A c \in liquidityEvents : f[c] >= 0
        PROVE  SumFunctionOnSet(f, l..q) <= d
    <2>1. (l..q) \in SUBSET (l..p)
      BY <1>2, <1>4
    <2>2. \A x \in l..p : f[x] >= 0
      <3>1. ASSUME NEW x \in l..p PROVE f[x] >= 0
        <4>1. x \in l..h /\ f[x] \in Int
          BY <1>6
        <4>2. CASE f[x] = 0
          BY <4>2
        <4>3. CASE f[x] # 0
          BY <4>1, <4>3, <1>3, <1>9
        <4> QED  BY <4>2, <4>3
      <3> QED  BY <3>1
    <2> DEFINE e == SumFunctionOnSet(f, l..q)
    <2>3. {d, e} \subseteq Int /\ d >= e
      BY <1>6, <2>1, <2>2, SumBeyond
    <2> HIDE DEF d, e
    <2>4. e <= d
      BY <2>3
    <2> QED  BY <2>4 DEF e
  <1> QED  BY <1>5, <1>7, <1>8, <1>9 DEF l, f

\* Four fifths of the peak are gone, if anything was withdrawn at all.
LEMMA LiqVerdict ==
    ASSUME Dated, NEW events, events = liquidityEvents, events # {},
           NEW peak, peak = Max({0} \cup {liquidity(b) : b \in events}), peak # 0
    PROVE  LiqIs(IF /\ 5 * liquidity(Max(events)) <= peak
                    /\ (rvRow.kind = "v2" \/ \E b \in events : rvData.deltas[b] < 0)
                 THEN "true" ELSE "false")
  <1> DEFINE l == rvRow.launchBlock
             h == horizonBlock
             f == rvData.deltas
             depth(b) == SumFunctionOnSet(f, l..b)
  <1>1. rvRow.pool /\ rvRow.kind # "v3"
    BY DEF liquidityEvents
  <1>2. l \in RvBlocks /\ h \in RvBlocks /\ f \in [RvBlocks -> Int]
    BY RowIs
  <1>3. l \in Nat /\ h \in Nat /\ l >= 1 /\ 1..h \subseteq RvBlocks
    BY <1>2, Monotone
  <1>4. events = {b \in l..h : f[b] # 0}
    BY RowIs, <1>1 DEF liquidityEvents
  <1>5. \A p \in l..h : /\ depth(p) = liquidity(p) /\ depth(p) \in Int
                         /\ ({c \in events : c <= p} = {} => depth(p) = 0)
                         /\ \A q \in l..p : (\A c \in events : f[c] >= 0) => depth(q) <= depth(p)
    BY <1>1, DepthIs
  <1>6. \A b \in events : f[b] \in Int
    BY <1>2, <1>3, <1>4
  <1> HIDE DEF l, h, f, depth
  <1>7. IsFiniteSet(events) /\ events \in SUBSET (l..h) /\ events \in SUBSET Int
    <2>1. l \in Int /\ h \in Int
      BY <1>3
    <2>2. IsFiniteSet(l..h)
      BY <2>1, FS_Interval
    <2>3. events \in SUBSET (l..h)
      BY <1>4
    <2>4. IsFiniteSet(events)
      BY <2>2, <2>3, FS_Subset
    <2> QED  BY <2>3, <2>4, <1>3
  <1> DEFINE last == Max(events)
  <1>8. last \in events /\ \A b \in events : b <= last
    BY <1>7, GreatestIs
  <1> HIDE DEF last
  <1>9. l <= h /\ h \in l..h /\ last \in l..h
    BY <1>3, <1>7, <1>8
  <1>10. liquidity(last) = depth(h)
    <2>1. {c \in liquidityEvents : c <= last} = {c \in liquidityEvents : c <= h}
      <3>1. \A c \in events : c <= last /\ c <= h
        BY <1>3, <1>7, <1>8
      <3> QED  BY <3>1
    <2>2. liquidity(last) = liquidity(h)
      BY <2>1 DEF liquidity
    <2> QED  BY <2>2, <1>5, <1>9
  <1> DEFINE P == {0} \cup {liquidity(b) : b \in events}
  <1>11. P \in SUBSET Int /\ IsFiniteSet(P)
    <2> DEFINE g == [b \in events |-> liquidity(b)]
               Q == {g[b] : b \in events}
    <2>1. IsFiniteSet(Q)
      <3> HIDE DEF g
      <3> QED  BY <1>7, FiniteImage
    <2>2. P = Q \cup {0}
      OBVIOUS
    <2>3. IsFiniteSet(P)
      <3> HIDE DEF P, Q
      <3> QED  BY <2>1, <2>2, FS_AddElement
    <2>4. \A b \in events : liquidity(b) \in Int
      BY <1>5, <1>7
    <2> QED  BY <2>3, <2>4
  <1>12. peak \in P /\ \A x \in P : x <= peak
    <2>1. P # {}
      OBVIOUS
    <2> HIDE DEF P
    <2>2. Max(P) \in P /\ \A x \in P : x <= Max(P)
      BY <1>11, <2>1, GreatestIs
    <2>3. peak = Max(P)
      BY DEF P
    <2> QED  BY <2>2, <2>3
  <1>13. peak \in Int /\ peak > 0
    BY <1>11, <1>12
  <1>14. \E p \in events : depth(p) = peak
    BY <1>5, <1>7, <1>12
  <1>15. \A p \in events : depth(p) <= peak
    BY <1>5, <1>7, <1>12
  <1>16. \A p \in l..h : depth(p) > 0 => depth(p) <= peak
    <2>1. SUFFICES ASSUME NEW p \in l..h, depth(p) > 0 PROVE depth(p) <= peak
      OBVIOUS
    <2> DEFINE U == {c \in events : c <= p}
    <2>2. U # {} /\ U \in SUBSET Int /\ U \in SUBSET events
      <3>1. depth(p) # 0
        BY <1>5, <2>1
      <3>2. U = {} => depth(p) = 0
        BY <1>5
      <3>3. U \in SUBSET events
        OBVIOUS
      <3> HIDE DEF U
      <3> QED  BY <1>7, <3>1, <3>2, <3>3
    <2> HIDE DEF U
    <2>3. IsFiniteSet(U)
      BY <1>7, <2>2, FS_Subset
    <2> DEFINE e == Max(U)
    <2>4. e \in U /\ \A x \in U : x <= e
      BY <2>2, <2>3, GreatestIs
    <2> HIDE DEF e
    <2>5. {c \in liquidityEvents : c <= e} = {c \in liquidityEvents : c <= p}
      <3>1. e \in Int /\ p \in Int /\ e <= p /\ \A c \in events : c \in Int /\ (c <= p => c <= e)
        BY <1>3, <1>7, <2>2, <2>4 DEF U
      <3> QED  BY <3>1
    <2>6. liquidity(e) = liquidity(p)
      BY <2>5 DEF liquidity
    <2>7. e \in events /\ e \in l..h
      BY <1>7, <2>2, <2>4
    <2> QED  BY <1>5, <1>15, <2>6, <2>7
  <1> DEFINE gone == \E b \in events : f[b] < 0
             dry == 5 * depth(h) <= peak
             found == \E p \in l..h : depth(p) > 0 /\ 5 * depth(h) <= depth(p)
  <1>17. dry => found
    <2>1. ASSUME dry PROVE found
      <3>1. PICK p \in events : depth(p) = peak
        BY <1>14
      <3> QED  BY <1>7, <1>13, <2>1, <3>1
    <2> QED  BY <2>1
  <1>18. found => dry /\ gone
    <2>1. ASSUME NEW p \in l..h, depth(p) > 0, 5 * depth(h) <= depth(p)
          PROVE  dry /\ gone
      <3>1. depth(p) <= peak /\ depth(p) \in Int /\ depth(h) \in Int
        BY <1>5, <1>9, <1>16, <2>1
      <3> DEFINE dp == depth(p)
                 dh == depth(h)
      <3>2. dp \in Int /\ dh \in Int /\ dp > 0 /\ 5 * dh <= dp /\ dp <= peak
        BY <2>1, <3>1
      <3>3. 5 * dh <= peak
        <4> HIDE DEF dp, dh
        <4> QED  BY <1>13, <3>2
      <3>4. ASSUME ~gone PROVE FALSE
        <4>1. \A c \in events : f[c] >= 0
          BY <1>6, <3>4
        <4>2. p \in l..h /\ h \in l..h
          BY <1>9
        <4>3. dp <= dh
          BY <1>5, <4>1, <4>2
        <4> HIDE DEF dp, dh
        <4> QED  BY <3>2, <4>3
      <3> QED  BY <3>3, <3>4
    <2> QED  BY <2>1
  <1> DEFINE res == IF dry /\ (rvRow.kind = "v2" \/ gone) THEN "true" ELSE "false"
  <1>19. res = "true" <=> found
    <2> HIDE DEF gone, dry, found
    <2> QED  BY <1>17, <1>18
  <1>20. (res = "true") <=> (dry /\ (rvRow.kind = "v2" \/ gone))
    BY DEF res
  <1>21. LiqIs(res)
    <2> HIDE DEF res
    <2> QED  BY <1>19 DEF LiqIs, depth, l, h, f
  <1>22. res = IF /\ 5 * liquidity(Max(events)) <= peak
                 /\ (rvRow.kind = "v2" \/ \E b \in events : rvData.deltas[b] < 0)
              THEN "true" ELSE "false"
    BY <1>10 DEF last, f
  <1> QED  BY <1>21, <1>22

Results == {"none", "true", "false", "unresolvable", "na", "thrown"}
Quotation == [error : Errors \cup {"none"}, out : Nat]

WorldInv ==
    /\ rvHead \in RvBlocks
    /\ DOMAIN rvCache = DOMAIN rvAsked /\ DOMAIN rvCache \subseteq Nat
    /\ \A t \in DOMAIN rvCache :
           /\ rvAsked[t] \in RvBlocks /\ rvCache[t] \in 1..rvAsked[t]
           /\ Near(rvCache[t], t, rvAsked[t])
    /\ rvDecimals \in {{}, {QuoteUnit}, {DefaultUnit}}

\* A spot quote that gives a sell its size.
HalfSold ==
    /\ rvRow.label = "SELL_IMPAIRED" /\ Len(rvQuotes) = 1
    /\ rvQuotes[1].out # 0 /\ (notional * SpotIn) \div rvQuotes[1].out # 0

TaskInv ==
    /\ rvRow \in RvRows /\ rvData \in Histories
    /\ rvQuotes \in Seq(Quotation) /\ Len(rvQuotes) <= 2
    /\ rvAt \in {"start", "blocks", "read", "done"} /\ rvResult \in Results
    /\ rvAt \in {"start", "blocks"} => rvQuotes = <<>>
    /\ rvAt \in {"blocks", "read"} => rvRow # Unlinked
    /\ rvAt = "read" => Missing = {} /\ rvDecimals # {} /\ (rvQuotes = <<>> \/ HalfSold)

VerdictOK ==
    rvAt = "done" /\ rvResult \in {"true", "false"} =>
        /\ ~rvBroken
        /\ rvRow.label = "DRAWDOWN_80" => DrawdownFounded
        /\ rvRow.label = "SELL_IMPAIRED" /\ rvDecimals = {QuoteUnit} => SellFounded
        /\ rvRow.label = "LIQ_IMPAIRED" => LiqFounded
        /\ rvRow.label = "INSIDER_EXIT" => InsiderFounded
        /\ rvRow.label = "TRADING_ALIVE" /\ rvRow.pool => AliveFounded

RvInv == WorldInv /\ TaskInv /\ VerdictOK

-----------------------------------------------------------------------------
LEMMA LinkedIs ==
    ASSUME NEW row \in RvRows, row # Unlinked
    PROVE  row \in Linked
  BY ResolversAssumption DEF Linked

LEMMA HistoriesAre ==
    ASSUME NEW verdict
    PROVE  DataOf(verdict) \subseteq Histories
  <1>1. Untraded \in [RvBlocks -> Nat] /\ Untraded \in [RvBlocks -> Int]
    BY DEF Untraded
  <1>2. <<>> \in Seq(Moving)
    OBVIOUS
  <1>3. Quiet \in Histories
    BY <1>1, <1>2 DEF Quiet, Histories
  <1>4. /\ RvTrades \subseteq [RvBlocks -> Nat] /\ RvDeltas \subseteq [RvBlocks -> Int]
        /\ RvMoves \subseteq Seq(Moving)
    BY ResolversAssumption DEF Moving
  <1>5. \A x \in [RvBlocks -> Nat] : [Quiet EXCEPT !.trades = x] \in Histories
    <2>1. ASSUME NEW x \in [RvBlocks -> Nat]
          PROVE  [Quiet EXCEPT !.trades = x] \in Histories
      <3>1. [Quiet EXCEPT !.trades = x] = [trades |-> x, deltas |-> Untraded, moves |-> <<>>]
        BY DEF Quiet
      <3> QED  BY <1>1, <1>2, <3>1 DEF Histories
    <2> QED  BY <2>1
  <1>6. \A x \in [RvBlocks -> Int] : [Quiet EXCEPT !.deltas = x] \in Histories
    <2>1. ASSUME NEW x \in [RvBlocks -> Int]
          PROVE  [Quiet EXCEPT !.deltas = x] \in Histories
      <3>1. [Quiet EXCEPT !.deltas = x] = [trades |-> Untraded, deltas |-> x, moves |-> <<>>]
        BY DEF Quiet
      <3> QED  BY <1>1, <1>2, <3>1 DEF Histories
    <2> QED  BY <2>1
  <1>7. \A x \in Seq(Moving) : [Quiet EXCEPT !.moves = x] \in Histories
    <2>1. ASSUME NEW x \in Seq(Moving)
          PROVE  [Quiet EXCEPT !.moves = x] \in Histories
      <3>1. [Quiet EXCEPT !.moves = x] = [trades |-> Untraded, deltas |-> Untraded, moves |-> x]
        BY DEF Quiet
      <3> QED  BY <1>1, <3>1 DEF Histories
    <2> QED  BY <2>1
  <1>8. CASE verdict \in {"DRAWDOWN_80", "TRADING_ALIVE"}
    BY <1>4, <1>5, <1>8 DEF DataOf
  <1>9. CASE verdict = "LIQ_IMPAIRED"
    BY <1>4, <1>6, <1>9 DEF DataOf
  <1>10. CASE verdict = "INSIDER_EXIT"
    BY <1>4, <1>7, <1>10 DEF DataOf
  <1>11. CASE verdict \notin {"DRAWDOWN_80", "TRADING_ALIVE", "LIQ_IMPAIRED", "INSIDER_EXIT"}
    BY <1>3, <1>11 DEF DataOf
  <1> QED  BY <1>8, <1>9, <1>10, <1>11

\* The times of a linked row.
LEMMA TimesAre ==
    ASSUME rvRow \in Linked
    PROVE  /\ 1 \in DOMAIN RowTimes /\ 2 \in DOMAIN RowTimes
           /\ rvRow.label = "DRAWDOWN_80" => 3 \in DOMAIN RowTimes
           /\ DOMAIN RowTimes \subseteq Nat /\ \A i \in DOMAIN RowTimes : RowTimes[i] \in Nat
  <1> DEFINE a == rvRow.anchorTime
             z == rvRow.horizonAt
             two == <<a, z>>
             three == IF rvRow.label # "DRAWDOWN_80" THEN <<>>
                      ELSE IF rvRow.trigger \in {"launch", "qualified"} THEN <<a + H24>>
                      ELSE <<IF a < H24 THEN 0 ELSE a - H24>>
  <1>1. a \in Nat /\ z \in Nat /\ H24 \in Nat
    BY ResolversAssumption DEF Linked
  <1>2. RowTimes = two \o three
    BY DEF RowTimes
  <1> HIDE DEF a, z
  <1>3. two \in Seq(Nat) /\ Len(two) = 2
    BY <1>1
  <1>4. /\ three \in Seq(Nat)
        /\ rvRow.label = "DRAWDOWN_80" => Len(three) = 1
    BY <1>1
  <1> HIDE DEF two, three
  <1>5. RowTimes \in Seq(Nat) /\ Len(RowTimes) = Len(two) + Len(three)
    <2>1. three \in Seq(Nat) /\ two \in Seq(Nat)
      BY <1>3, <1>4
    <2> QED  BY <1>2, <2>1, ConcatProperties
  <1>6. DOMAIN RowTimes = 1..Len(RowTimes) /\ \A i \in DOMAIN RowTimes : RowTimes[i] \in Nat
    BY <1>5
  <1>7. Len(RowTimes) \in Nat /\ Len(RowTimes) >= 2
        /\ (rvRow.label = "DRAWDOWN_80" => Len(RowTimes) >= 3)
    <2>1. Len(three) \in Nat
      BY <1>4
    <2> DEFINE n == Len(three)
               m == Len(two)
               k == Len(RowTimes)
    <2>2. n \in Nat /\ m = 2 /\ k = m + n /\ (rvRow.label = "DRAWDOWN_80" => n = 1)
      BY <1>3, <1>4, <1>5, <2>1
    <2> HIDE DEF n, m, k
    <2>3. k \in Nat /\ k >= 2 /\ (rvRow.label = "DRAWDOWN_80" => k >= 3)
      BY <2>2
    <2> QED  BY <2>3 DEF k
  <1> QED  BY <1>6, <1>7

\* Once every time of the row has its block.
LEMMA DatesAre ==
    ASSUME WorldInv, TaskInv, rvRow # Unlinked, Missing = {}
    PROVE  Dated
  <1>1. rvRow \in Linked /\ rvData \in Histories
    BY LinkedIs DEF TaskInv
  <1>2. \A t \in DOMAIN rvCache : rvCache[t] \in RvBlocks
    <2>1. ASSUME NEW t \in DOMAIN rvCache PROVE rvCache[t] \in RvBlocks
      <3>1. rvAsked[t] \in RvBlocks /\ rvCache[t] \in 1..rvAsked[t]
        BY <2>1 DEF WorldInv
      <3> QED  BY <3>1, Monotone
    <2> QED  BY <2>1
  <1>3. \A i \in DOMAIN RowTimes : rvCache[RowTimes[i]] \in RvBlocks
    BY <1>2 DEF Missing
  <1>4. horizonBlock \in RvBlocks /\ anchorBlock \in RvBlocks
    BY <1>1, <1>3, TimesAre DEF horizonBlock, anchorBlock
  <1>5. rvRow.label = "DRAWDOWN_80" => refStart \in RvBlocks /\ refEnd \in RvBlocks
    BY <1>1, <1>3, <1>4, TimesAre DEF refStart, refEnd
  <1> QED  BY <1>1, <1>4, <1>5 DEF Dated

\* The resolvers' operators when row, history and cache stay.
LEMMA VerdictSame ==
    ASSUME rvRow' = rvRow, rvData' = rvData, rvCache' = rvCache
    PROVE  /\ DrawdownFounded' <=> DrawdownIs(rvResult', rvQuotes')
           /\ SellFounded' <=> SellIs(rvResult', rvQuotes')
           /\ LiqFounded' <=> LiqIs(rvResult')
           /\ InsiderFounded' <=> InsiderIs(rvResult')
           /\ AliveFounded' <=> AliveIs(rvResult')
           /\ Missing' = Missing
  <1>1. RowTimes' = RowTimes
    BY DEF RowTimes
  <1>2. Missing' = Missing
    BY <1>1 DEF Missing
  <1>3. horizonBlock' = horizonBlock /\ refStart' = refStart /\ refEnd' = refEnd
    BY <1>1 DEF horizonBlock, anchorBlock, refStart, refEnd
  <1>4. AliveFounded' <=> AliveIs(rvResult')
    BY <1>3 DEF AliveFounded, AliveIs, Price
  <1>5. Replayed' = Replayed
    BY <1>3 DEF Replayed
  <1>6. InsiderFounded' <=> InsiderIs(rvResult')
    BY <1>5 DEF InsiderFounded, InsiderIs
  <1>7. LiqFounded' <=> LiqIs(rvResult')
    BY <1>3 DEF LiqFounded, LiqIs
  <1>8. SellFounded' <=> SellIs(rvResult', rvQuotes')
    BY DEF SellFounded, SellIs
  <1>9. DrawdownFounded' <=> DrawdownIs(rvResult', rvQuotes')
    <2>1. {b \in 1..horizonBlock \cup 1..refEnd : Price(b) > 0}'
          = {b \in 1..horizonBlock \cup 1..refEnd : Price(b) > 0}
      BY <1>3 DEF Price
    <2> QED  BY <1>3, <2>1 DEF DrawdownFounded, DrawdownIs, Price
  <1> QED  BY <1>2, <1>4, <1>6, <1>7, <1>8, <1>9

-----------------------------------------------------------------------------
(***************************************************************************)
(* The resolvers.                                                          *)
(***************************************************************************)

\* What a resolver's step leaves.
Resolved ==
    /\ rvQuotes' \in Seq(Quotation) /\ Len(rvQuotes') <= 2
    /\ rvAt' \in {"read", "done"} /\ rvResult' \in Results
    /\ UNCHANGED <<rvRow, rvData>>
    /\ rvAt' = "read" => HalfSold'
    /\ rvAt' = "done" /\ rvResult' \in {"true", "false"} =>
           /\ ~rvBroken'
           /\ rvRow.label = "DRAWDOWN_80" => DrawdownIs(rvResult', rvQuotes')
           /\ rvRow.label = "SELL_IMPAIRED" /\ rvDecimals = {QuoteUnit} =>
                  SellIs(rvResult', rvQuotes')
           /\ rvRow.label = "LIQ_IMPAIRED" => LiqIs(rvResult')
           /\ rvRow.label = "INSIDER_EXIT" => InsiderIs(rvResult')
           /\ rvRow.label = "TRADING_ALIVE" /\ rvRow.pool => AliveIs(rvResult')

LEMMA DoneIs ==
    ASSUME NEW result, NEW failed, Done(result, failed)
    PROVE  /\ rvResult' = result /\ rvAt' = "done" /\ (rvBroken' <=> failed)
           /\ rvRow' = rvRow /\ rvData' = rvData
  BY DEF Done

LEMMA DoneResolves ==
    ASSUME NEW result \in Results, NEW failed, Done(result, failed),
           rvQuotes' \in Seq(Quotation), Len(rvQuotes') <= 2,
           result \in {"true", "false"} =>
               /\ ~failed
               /\ rvRow.label = "DRAWDOWN_80" => DrawdownIs(result, rvQuotes')
               /\ rvRow.label = "SELL_IMPAIRED" /\ rvDecimals = {QuoteUnit} =>
                      SellIs(result, rvQuotes')
               /\ rvRow.label = "LIQ_IMPAIRED" => LiqIs(result)
               /\ rvRow.label = "INSIDER_EXIT" => InsiderIs(result)
               /\ rvRow.label = "TRADING_ALIVE" /\ rvRow.pool => AliveIs(result)
    PROVE  Resolved
  <1>1. /\ rvResult' = result /\ rvAt' = "done" /\ (rvBroken' <=> failed)
        /\ rvRow' = rvRow /\ rvData' = rvData
    BY DoneIs, Zenon
  <1>2. rvAt' # "read" /\ rvAt' \in {"read", "done"}
    BY <1>1
  <1> QED  BY <1>1, <1>2, Zenon DEF Resolved

LEMMA NoQuotes ==
    <<>> \in Seq(Quotation) /\ Len(<<>>) <= 2
  OBVIOUS

LEMMA QuotesAre ==
    ASSUME NEW q \in Answers
    PROVE  q \in Quotation /\ q.out \in Nat /\ (q.error = "revert" => q.out = 0)
           /\ (q.error \in Errors \/ q.error = "none")
  <1>1. RvOuts \subseteq Nat
    BY ResolversAssumption
  <1>2. CASE q \in {[error |-> "none", out |-> n] : n \in RvOuts}
    <2>1. PICK n \in RvOuts : q = [error |-> "none", out |-> n]
      BY <1>2
    <2> QED  BY <1>1, <2>1 DEF Quotation
  <1>3. CASE q \in {[error |-> e, out |-> 0] : e \in Errors}
    <2>1. PICK e \in Errors : q = [error |-> e, out |-> 0]
      BY <1>3
    <2> QED  BY <2>1 DEF Quotation
  <1> QED  BY <1>2, <1>3 DEF Answers

LEMMA LiqResolved ==
    ASSUME Dated, rvRow.label = "LIQ_IMPAIRED", rvQuotes = <<>>, resolveLiqImpaired
    PROVE  Resolved
  <1> DEFINE events == liquidityEvents
             peak == Max({0} \cup {liquidity(b) : b \in events})
             gone == \E b \in events : rvData.deltas[b] < 0
             res == IF /\ 5 * liquidity(Max(events)) <= peak
                       /\ (rvRow.kind = "v2" \/ gone) THEN "true" ELSE "false"
  <1>1. rvQuotes' = <<>>
    BY DEF resolveLiqImpaired
  <1>2. CASE events = {} \/ peak = 0
    <2>1. Done("unresolvable", FALSE)
      BY <1>2 DEF resolveLiqImpaired
    <2> QED  BY <1>1, <2>1, NoQuotes, DoneResolves DEF Results
  <1>3. CASE ~(events = {} \/ peak = 0)
    <2>1. Done(res, FALSE)
      BY <1>3 DEF resolveLiqImpaired
    <2>2. LiqIs(res)
      BY <1>3, LiqVerdict
    <2>3. res \in {"true", "false"}
      OBVIOUS
    <2> HIDE DEF res
    <2> QED  BY <1>1, <2>1, <2>2, <2>3, NoQuotes, DoneResolves DEF Results
  <1> QED  BY <1>2, <1>3

LEMMA AliveResolved ==
    ASSUME Dated, rvRow.label = "TRADING_ALIVE", rvQuotes = <<>>, resolveSurvival
    PROVE  Resolved
  <1> DEFINE from == IF horizonBlock > AliveBlocks THEN horizonBlock - AliveBlocks ELSE 0
             res == IF Series(from, horizonBlock) # {} THEN "true" ELSE "false"
  <1>1. rvQuotes' = <<>> /\ Done(res, FALSE)
    BY DEF resolveSurvival
  <1>2. rvRow.pool => AliveIs(res)
    BY AliveVerdict
  <1>3. res \in {"true", "false"}
    OBVIOUS
  <1> HIDE DEF res
  <1> QED  BY <1>1, <1>2, <1>3, NoQuotes, DoneResolves DEF Results

LEMMA InsiderResolved ==
    ASSUME Dated, rvRow.label = "INSIDER_EXIT", rvQuotes = <<>>, resolveInsiderExit
    PROVE  Resolved
  <1> DEFINE outs == From(Replayed)
             ins == To(Replayed)
             held(n) == Moved({i \in ins : i <= n}) - Moved({i \in outs : i <= n})
             peak == Max({0} \cup {held(i) : i \in Replayed})
             sold == Moved({i \in outs : rvData.moves[i].to = "pool"})
                     - Moved({i \in ins : rvData.moves[i].from = "pool"})
             res == IF peak > 0 /\ sold * 2 >= peak THEN "true" ELSE "false"
             capped == RvCluster = {} \/ Cardinality(outs) >= LogCap \/ Cardinality(ins) >= LogCap
  <1>1. /\ rvQuotes' = <<>>
        /\ IF capped THEN Done("unresolvable", FALSE) ELSE Done(res, FALSE)
    BY DEF resolveInsiderExit
  <1>2. CASE capped
    <2>1. Done("unresolvable", FALSE)
      BY <1>1, <1>2
    <2> QED  BY <1>1, <2>1, NoQuotes, DoneResolves DEF Results
  <1>3. CASE ~capped
    <2>1. Done(res, FALSE)
      BY <1>1, <1>3
    <2>2. peak \in Int
      <3> DEFINE f == [i \in DOMAIN rvData.moves |-> rvData.moves[i].value]
                 I == DOMAIN rvData.moves
      <3>1. IsFiniteSet(I) /\ \A i \in I : f[i] \in Int
        <4>1. IsFiniteSet(I) /\ \A i \in I : f[i] \in Nat
          BY MovesAre
        <4> HIDE DEF f, I
        <4> QED  BY <4>1
      <3>2. \A S \in SUBSET I : Moved(S) \in Int
        <4>1. ASSUME NEW S \in SUBSET I PROVE SumFunctionOnSet(f, S) \in Int
          <5>1. IsFiniteSet(S) /\ \A i \in S : f[i] \in Int
            <6> HIDE DEF I, f
            <6> QED  BY <3>1, FS_Subset
          <5> HIDE DEF f
          <5> QED  BY <5>1, SumType
        <4> QED  BY <4>1 DEF Moved
      <3>3. \A n : held(n) \in Int
        <4>1. ASSUME NEW n PROVE held(n) \in Int
          <5>1. {i \in ins : i <= n} \in SUBSET I /\ {i \in outs : i <= n} \in SUBSET I
            BY DEF To, From, Replayed
          <5> HIDE DEF I
          <5>2. Moved({i \in ins : i <= n}) \in Int /\ Moved({i \in outs : i <= n}) \in Int
            BY <3>2, <5>1
          <5> HIDE DEF ins, outs
          <5> QED  BY <5>2
        <4> QED  BY <4>1
      <3> DEFINE g == [i \in Replayed |-> held(i)]
                 Q == {g[i] : i \in Replayed}
                 P == {0} \cup {held(i) : i \in Replayed}
      <3>4. IsFiniteSet(Q)
        <4>1. IsFiniteSet(Replayed)
          <5>1. Replayed \in SUBSET I
            BY DEF Replayed
          <5> HIDE DEF I
          <5> QED  BY <3>1, <5>1, FS_Subset
        <4> HIDE DEF g
        <4> QED  BY <4>1, FiniteImage
      <3> HIDE DEF held, I
      <3>5. P = Q \cup {0} /\ P # {} /\ P \in SUBSET Int
        BY <3>3
      <3>6. IsFiniteSet(P)
        <4> HIDE DEF P, Q
        <4> QED  BY <3>4, <3>5, FS_AddElement
      <3>7. Max(P) \in P
        <4> HIDE DEF P
        <4> QED  BY <3>5, <3>6, GreatestIs
      <3>8. Max(P) \in Int
        BY <3>5, <3>7
      <3> QED  BY <3>8
    <2>3. InsiderIs(res)
      <3> HIDE DEF peak
      <3> QED  BY <2>2, InsiderVerdict
    <2>4. res \in {"true", "false"}
      OBVIOUS
    <2> HIDE DEF res
    <2> QED  BY <1>1, <2>1, <2>3, <2>4, NoQuotes, DoneResolves DEF Results
  <1> QED  BY <1>2, <1>3

LEMMA DrawdownResolved ==
    ASSUME Dated, rvRow.label = "DRAWDOWN_80", rvQuotes = <<>>, resolveDrawdown
    PROVE  Resolved
  <1> DEFINE ref == Series(refStart, refEnd)
             refMax == IF ref = {} THEN 0 ELSE Max({Price(b) : b \in ref})
             tail == IF horizonBlock > TailBlocks THEN horizonBlock - TailBlocks ELSE 0
             from == IF refEnd + 1 > tail THEN refEnd + 1 ELSE tail
             last == IF from <= horizonBlock THEN Series(from, horizonBlock) ELSE ref
             verdict(price) == IF Dropped(price, refMax) THEN "true" ELSE "false"
  <1>1. \/ refMax = 0 /\ Done("unresolvable", FALSE) /\ rvQuotes' = rvQuotes
        \/ refMax > 0 /\ last # {} /\ Done(verdict(Price(Max(last))), FALSE) /\ rvQuotes' = rvQuotes
        \/ refMax > 0 /\ last = {} /\ ~rvRow.quotable
           /\ Done("unresolvable", FALSE) /\ rvQuotes' = rvQuotes
        \/ /\ ~(refMax = 0) /\ ~(refMax > 0 /\ last # {})
           /\ \E q \in Answers :
                  /\ Quote(q)
                  /\ IF q.error \in {"archive", "network"} THEN Done("unresolvable", TRUE)
                     ELSE Done(verdict(q.out), FALSE)
    BY DEF resolveDrawdown
  <1>2. CASE Done("unresolvable", FALSE) /\ rvQuotes' = rvQuotes
    BY <1>2, NoQuotes, DoneResolves DEF Results
  <1>3. CASE refMax > 0 /\ last # {} /\ Done(verdict(Price(Max(last))), FALSE) /\ rvQuotes' = rvQuotes
    <2>1. ref # {}
      BY <1>3
    <2>2. rvRow.pool
      BY <2>1 DEF Series
    <2>3. /\ Max({b \in 1..horizonBlock \cup 1..refEnd : Price(b) > 0}) = Max(last)
          /\ Price(Max(last)) \in Nat
      <3>1. /\ tail = (IF horizonBlock > TailBlocks THEN horizonBlock - TailBlocks ELSE 0)
            /\ from = (IF refEnd + 1 > tail THEN refEnd + 1 ELSE tail)
            /\ last = (IF from <= horizonBlock THEN Series(from, horizonBlock)
                       ELSE Series(refStart, refEnd))
        OBVIOUS
      <3>2. last # {}
        BY <1>3
      <3> HIDE DEF tail, from, last
      <3> QED  BY <2>2, <3>1, <3>2, LastPrice
    <2> DEFINE p == Price(Max(last))
    <2>4. p \in Nat /\ p = Price(Max({b \in 1..horizonBlock \cup 1..refEnd : Price(b) > 0}))
      BY <2>3
    <2>5. verdict(p) = IF Dropped(p, Max({Price(b) : b \in ref})) THEN "true" ELSE "false"
      BY <2>1
    <2>6. Done(verdict(p), FALSE) /\ rvQuotes' = <<>>
      BY <1>3
    <2> HIDE DEF p, verdict
    <2>7. DrawdownIs(verdict(p), <<>>)
      BY <2>1, <2>4, <2>5, DrawdownVerdict
    <2>8. verdict(p) \in {"true", "false"}
      BY <2>5
    <2> QED  BY <2>6, <2>7, <2>8, NoQuotes, DoneResolves DEF Results
  <1>4. CASE /\ ~(refMax = 0)
             /\ \E q \in Answers :
                    /\ Quote(q)
                    /\ IF q.error \in {"archive", "network"} THEN Done("unresolvable", TRUE)
                       ELSE Done(verdict(q.out), FALSE)
    <2>1. PICK q \in Answers :
              /\ Quote(q)
              /\ IF q.error \in {"archive", "network"} THEN Done("unresolvable", TRUE)
                 ELSE Done(verdict(q.out), FALSE)
      BY <1>4
    <2>2. q \in Quotation /\ q.out \in Nat
      BY QuotesAre
    <2>3. rvQuotes' = <<q>>
      BY <2>1 DEF Quote
    <2>4. rvQuotes' \in Seq(Quotation) /\ Len(rvQuotes') <= 2 /\ rvQuotes' # <<>> /\ rvQuotes'[1] = q
      BY <2>2, <2>3
    <2>5. CASE q.error \in {"archive", "network"}
      BY <2>1, <2>4, <2>5, DoneResolves DEF Results
    <2>6. CASE ~(q.error \in {"archive", "network"})
      <3> DEFINE p == q.out
      <3>1. ref # {}
        BY <1>4
      <3>2. verdict(p) = IF Dropped(p, Max({Price(b) : b \in ref})) THEN "true" ELSE "false"
        BY <3>1
      <3>3. Done(verdict(p), FALSE)
        BY <2>1, <2>6
      <3>4. p \in Nat /\ p = rvQuotes'[1].out
        BY <2>2, <2>4
      <3> HIDE DEF p, verdict
      <3>5. DrawdownIs(verdict(p), rvQuotes')
        BY <2>4, <3>1, <3>2, <3>4, DrawdownVerdict
      <3>6. verdict(p) \in {"true", "false"}
        BY <3>2
      <3> QED  BY <2>4, <3>3, <3>5, <3>6, DoneResolves DEF Results
    <2> QED  BY <2>5, <2>6
  <1> HIDE DEF refMax, last, verdict
  <1> QED  BY <1>1, <1>2, <1>3, <1>4

\* The notional is of the decimals that were read.
LEMMA NotionalIs ==
    ASSUME rvDecimals \in {{}, {QuoteUnit}, {DefaultUnit}}, rvDecimals # {}
    PROVE  notional \in Nat /\ (rvDecimals = {QuoteUnit} => notional = QuoteUnit)
  <1>1. notional \in rvDecimals
    BY DEF notional
  <1>2. QuoteUnit \in Nat /\ DefaultUnit \in Nat
    BY ResolversAssumption
  <1> QED  BY <1>1, <1>2

LEMMA SellResolved ==
    ASSUME Dated, WorldInv, TaskInv, rvAt = "read", rvRow.label = "SELL_IMPAIRED",
           resolveSellImpaired, UNCHANGED rvWorld
    PROVE  Resolved
  <1>1. rvQuotes \in Seq(Quotation) /\ (rvQuotes = <<>> \/ HalfSold)
        /\ rvDecimals \in {{}, {QuoteUnit}, {DefaultUnit}} /\ rvDecimals # {}
    BY DEF TaskInv, WorldInv
  <1>2. CASE ~rvRow.quotable
    <2>1. Done("unresolvable", FALSE) /\ rvQuotes' = rvQuotes
      BY <1>2 DEF resolveSellImpaired
    <2>2. Len(rvQuotes') <= 2 /\ rvQuotes' \in Seq(Quotation)
      BY <2>1 DEF TaskInv
    <2> QED  BY <2>1, <2>2, DoneResolves DEF Results
  <1>3. CASE rvRow.quotable /\ rvQuotes = <<>>
    <2>1. PICK spot \in Answers :
              /\ Quote(spot)
              /\ IF Failed(spot) \/ spot.out = 0 \/ (notional * SpotIn) \div spot.out = 0
                 THEN Done("unresolvable", Failed(spot))
                 ELSE UNCHANGED <<rvRow, rvData, rvAt, rvBroken, rvResult, rvDone>>
      BY <1>3 DEF resolveSellImpaired
    <2>2. spot \in Quotation /\ spot.out \in Nat
      BY QuotesAre
    <2>3. rvQuotes' = <<spot>>
      BY <1>3, <2>1 DEF Quote
    <2>4. rvQuotes' \in Seq(Quotation) /\ Len(rvQuotes') = 1 /\ rvQuotes'[1] = spot
      BY <2>2, <2>3
    <2>5. CASE Failed(spot) \/ spot.out = 0 \/ (notional * SpotIn) \div spot.out = 0
      <3>1. Done("unresolvable", Failed(spot))
        BY <2>1, <2>5
      <3> QED  BY <2>4, <3>1, DoneResolves DEF Results
    <2>6. CASE ~(Failed(spot) \/ spot.out = 0 \/ (notional * SpotIn) \div spot.out = 0)
      <3>1. UNCHANGED <<rvRow, rvData, rvAt, rvBroken, rvResult, rvDone>>
        BY <2>1, <2>6
      <3>2. rvDecimals' = rvDecimals
        BY DEF rvWorld
      <3>3. notional' = notional
        BY <3>2 DEF notional
      <3>4. HalfSold'
        BY <2>4, <2>6, <3>1, <3>3 DEF HalfSold
      <3>5. rvAt' = "read" /\ rvResult' \in Results
        BY <3>1 DEF TaskInv
      <3> QED  BY <2>4, <3>1, <3>4, <3>5 DEF Resolved
    <2> QED  BY <2>5, <2>6
  <1>4. CASE rvRow.quotable /\ rvQuotes # <<>>
    <2> DEFINE spot == rvQuotes[1].out
               size == (notional * SpotIn) \div spot
    <2>1. PICK bulk \in Answers :
              /\ Quote(bulk)
              /\ IF Failed(bulk) THEN Done("unresolvable", TRUE)
                 ELSE Done(IF bulk.out = 0 \/ 10 * bulk.out * SpotIn <= 7 * spot * size
                           THEN "true" ELSE "false", FALSE)
      BY <1>4 DEF resolveSellImpaired
    <2>2. Len(rvQuotes) = 1 /\ spot \in Nat /\ spot # 0 /\ size # 0
      <3>1. HalfSold /\ Len(rvQuotes) = 1
        BY <1>1, <1>4 DEF HalfSold
      <3>2. rvQuotes[1] \in Quotation
        <4>1. 1 \in 1..Len(rvQuotes)
          BY <3>1
        <4> QED  BY <1>1, <4>1, ElementOfSeq
      <3>3. rvQuotes[1].out \in Nat
        BY <3>2 DEF Quotation
      <3> QED  BY <3>1, <3>3 DEF HalfSold
    <2>3. bulk \in Quotation /\ bulk.out \in Nat
      BY QuotesAre
    <2>4. /\ rvQuotes' = Append(rvQuotes, bulk) /\ rvQuotes' \in Seq(Quotation)
          /\ Len(rvQuotes') <= 2 /\ rvQuotes'[2] = bulk
      <3>1. rvQuotes' = Append(rvQuotes, bulk)
        BY <2>1 DEF Quote
      <3>2. /\ rvQuotes' \in Seq(Quotation) /\ Len(rvQuotes') = Len(rvQuotes) + 1
            /\ rvQuotes'[Len(rvQuotes) + 1] = bulk
        BY <1>1, <2>3, <3>1, AppendProperties
      <3>3. Len(rvQuotes) + 1 = 2
        BY <2>2
      <3> QED  BY <3>1, <3>2, <3>3
    <2>5. CASE Failed(bulk)
      BY <2>1, <2>4, <2>5, DoneResolves DEF Results
    <2>6. CASE ~Failed(bulk)
      <3> DEFINE out == bulk.out
                 res == IF out = 0 \/ 10 * out * SpotIn <= 7 * spot * size
                        THEN "true" ELSE "false"
      <3>1. Done(res, FALSE)
        BY <2>1, <2>6
      <3>2. ASSUME rvDecimals = {QuoteUnit} PROVE SellIs(res, rvQuotes')
        <4>1. notional = QuoteUnit
          BY <1>1, <3>2, NotionalIs
        <4>2. size = (QuoteUnit * SpotIn) \div spot
          BY <4>1
        <4>3. rvQuotes'[2].out = out
          BY <2>4
        <4> HIDE DEF size, spot, out
        <4> QED  BY <2>2, <2>3, <4>2, <4>3, SellVerdict DEF out
      <3>3. res \in {"true", "false"}
        OBVIOUS
      <3> HIDE DEF res
      <3> QED  BY <2>4, <3>1, <3>2, <3>3, DoneResolves DEF Results
    <2> QED  BY <2>5, <2>6
  <1> QED  BY <1>2, <1>3, <1>4

-----------------------------------------------------------------------------
(***************************************************************************)
(* The steps.                                                              *)
(***************************************************************************)

LEMMA RvInitially ==
    ASSUME RvInit
    PROVE  RvInv
  <1>1. WorldInv
    <2>1. DOMAIN rvCache = {} /\ DOMAIN rvAsked = {}
      BY DEF RvInit
    <2>2. rvHead \in RvBlocks /\ rvDecimals = {}
      BY ResolversAssumption DEF RvInit
    <2> QED  BY <2>1, <2>2 DEF WorldInv
  <1>2. TaskInv
    <2>1. rvAt = "start" /\ rvQuotes = <<>> /\ rvResult = "none" /\ rvRow \in RvRows
          /\ rvData \in DataOf(rvRow.label)
      BY DEF RvInit
    <2>2. rvData \in Histories
      BY <2>1, HistoriesAre
    <2> QED  BY <2>1, <2>2, NoQuotes DEF TaskInv, Results
  <1>3. VerdictOK
    BY DEF RvInit, VerdictOK
  <1> QED  BY <1>1, <1>2, <1>3 DEF RvInv

\* A verdict stands as long as its row does.
LEMMA VerdictRests ==
    ASSUME VerdictOK, UNCHANGED rvTask, rvCache' = rvCache, rvDecimals' = rvDecimals
    PROVE  VerdictOK'
  <1>1. /\ rvRow' = rvRow /\ rvData' = rvData /\ rvAt' = rvAt /\ rvBroken' = rvBroken
        /\ rvQuotes' = rvQuotes /\ rvResult' = rvResult
    BY DEF rvTask
  <1>2. /\ DrawdownFounded' <=> DrawdownIs(rvResult, rvQuotes)
        /\ SellFounded' <=> SellIs(rvResult, rvQuotes)
        /\ LiqFounded' <=> LiqIs(rvResult)
        /\ InsiderFounded' <=> InsiderIs(rvResult)
        /\ AliveFounded' <=> AliveIs(rvResult)
    BY <1>1, VerdictSame
  <1>3. /\ DrawdownFounded <=> DrawdownIs(rvResult, rvQuotes)
        /\ SellFounded <=> SellIs(rvResult, rvQuotes)
        /\ LiqFounded <=> LiqIs(rvResult)
        /\ InsiderFounded <=> InsiderIs(rvResult)
        /\ AliveFounded <=> AliveIs(rvResult)
    <2>1. DrawdownFounded <=> DrawdownIs(rvResult, rvQuotes)
      BY DEF DrawdownFounded, DrawdownIs
    <2>2. SellFounded <=> SellIs(rvResult, rvQuotes)
      BY DEF SellFounded, SellIs
    <2>3. LiqFounded <=> LiqIs(rvResult)
      BY DEF LiqFounded, LiqIs
    <2>4. InsiderFounded <=> InsiderIs(rvResult)
      BY DEF InsiderFounded, InsiderIs
    <2>5. AliveFounded <=> AliveIs(rvResult)
      BY DEF AliveFounded, AliveIs
    <2> QED  BY <2>1, <2>2, <2>3, <2>4, <2>5
  <1>4. ASSUME rvAt' = "done", rvResult' \in {"true", "false"}
        PROVE  /\ ~rvBroken'
               /\ rvRow'.label = "DRAWDOWN_80" => DrawdownFounded'
               /\ rvRow'.label = "SELL_IMPAIRED" /\ rvDecimals' = {QuoteUnit} => SellFounded'
               /\ rvRow'.label = "LIQ_IMPAIRED" => LiqFounded'
               /\ rvRow'.label = "INSIDER_EXIT" => InsiderFounded'
               /\ rvRow'.label = "TRADING_ALIVE" /\ rvRow'.pool => AliveFounded'
    <2>1. rvAt = "done" /\ rvResult \in {"true", "false"}
      BY <1>1, <1>4
    <2>2. /\ ~rvBroken
          /\ rvRow.label = "DRAWDOWN_80" => DrawdownFounded
          /\ rvRow.label = "SELL_IMPAIRED" /\ rvDecimals = {QuoteUnit} => SellFounded
          /\ rvRow.label = "LIQ_IMPAIRED" => LiqFounded
          /\ rvRow.label = "INSIDER_EXIT" => InsiderFounded
          /\ rvRow.label = "TRADING_ALIVE" /\ rvRow.pool => AliveFounded
      BY <2>1 DEF VerdictOK
    <2>3. ~rvBroken'
      BY <1>1, <2>2, Zenon
    <2> QED  BY <1>1, <1>2, <1>3, <2>2, <2>3
  <1> QED  BY <1>4, Zenon DEF VerdictOK

LEMMA NoVerdict ==
    ASSUME \/ rvAt' # "done"
           \/ rvResult' \notin {"true", "false"}
    PROVE  VerdictOK'
  BY DEF VerdictOK

LEMMA WorldRests ==
    ASSUME WorldInv, UNCHANGED rvWorld
    PROVE  WorldInv'
  <1>1. rvHead' = rvHead /\ rvCache' = rvCache /\ rvAsked' = rvAsked /\ rvDecimals' = rvDecimals
    BY DEF rvWorld
  <1> QED  BY <1>1 DEF WorldInv, Near

\* What a row keeps that is done, or at work with nothing quoted yet.
LEMMA TaskMoves ==
    ASSUME TaskInv, rvRow' = rvRow, rvData' = rvData, rvQuotes' = rvQuotes,
           rvAt' \in {"start", "blocks", "done"},
           rvAt' \in {"start", "blocks"} => rvAt \in {"start", "blocks"},
           rvAt' = "blocks" => rvRow # Unlinked, rvResult' \in Results
    PROVE  TaskInv'
  <1>1. rvAt' # "read" /\ rvAt' \in {"start", "blocks", "read", "done"}
    OBVIOUS
  <1>2. rvAt' \in {"blocks", "read"} => rvRow # Unlinked
    OBVIOUS
  <1>3. /\ rvRow \in RvRows /\ rvData \in Histories
        /\ rvQuotes \in Seq(Quotation) /\ Len(rvQuotes) <= 2
        /\ rvAt \in {"start", "blocks"} => rvQuotes = <<>>
    BY DEF TaskInv
  <1> QED  BY <1>1, <1>2, <1>3 DEF TaskInv

LEMMA StartRowKeeps ==
    ASSUME RvInv, StartRow
    PROVE  RvInv'
  <1>1. WorldInv /\ TaskInv
    BY DEF RvInv
  <1>2. rvAt = "start" /\ UNCHANGED rvWorld /\ WorldInv'
    BY <1>1, WorldRests DEF StartRow
  <1>3. CASE \E result \in {"unresolvable", "na"} : Done(result, FALSE) /\ rvQuotes' = rvQuotes
    <2>1. PICK result \in {"unresolvable", "na"} : Done(result, FALSE) /\ rvQuotes' = rvQuotes
      BY <1>3
    <2>2. rvResult' = result /\ rvAt' = "done" /\ rvRow' = rvRow /\ rvData' = rvData
      BY <2>1, DoneIs
    <2>3. TaskInv'
      BY <1>1, <2>1, <2>2, TaskMoves DEF Results
    <2>4. VerdictOK'
      BY <2>2, NoVerdict
    <2> QED  BY <1>2, <2>3, <2>4 DEF RvInv
  <1>4. CASE /\ rvRow # Unlinked /\ rvAt' = "blocks"
             /\ UNCHANGED <<rvRow, rvData, rvBroken, rvQuotes, rvResult, rvDone>>
    <2>1. rvResult' \in Results
      BY <1>1, <1>4 DEF TaskInv
    <2>2. TaskInv'
      BY <1>1, <1>2, <1>4, <2>1, TaskMoves
    <2>3. VerdictOK'
      BY <1>4, NoVerdict
    <2> QED  BY <1>2, <2>2, <2>3 DEF RvInv
  <1> QED  BY <1>3, <1>4 DEF StartRow

LEMMA ReadThrowsKeeps ==
    ASSUME RvInv, ReadThrows
    PROVE  RvInv'
  <1> DEFINE result == IF rvAt = "read" /\ rvRow.label = "TRADING_ALIVE" THEN "unresolvable"
                       ELSE "thrown"
  <1>1. WorldInv /\ TaskInv
    BY DEF RvInv
  <1>2. WorldInv' /\ Done(result, TRUE) /\ rvQuotes' = rvQuotes
    BY <1>1, WorldRests DEF ReadThrows
  <1>3. rvResult' = result /\ rvAt' = "done" /\ rvRow' = rvRow /\ rvData' = rvData
    BY <1>2, Zenon DEF Done
  <1>4. result \in {"unresolvable", "thrown"}
    OBVIOUS
  <1> HIDE DEF result
  <1>5. TaskInv'
    BY <1>1, <1>2, <1>3, <1>4, TaskMoves DEF Results
  <1>6. VerdictOK'
    BY <1>3, <1>4, NoVerdict
  <1> QED  BY <1>2, <1>5, <1>6 DEF RvInv

LEMMA FindBlockKeeps ==
    ASSUME RvInv, FindBlock
    PROVE  RvInv'
  <1> DEFINE t == RowTimes[Min(Missing)]
             b == blockAtTime(t)
  <1>1. WorldInv /\ TaskInv /\ rvAt = "blocks" /\ Missing # {}
    BY DEF RvInv, FindBlock
  <1>2. /\ rvCache' = With(rvCache, t, b) /\ rvAsked' = With(rvAsked, t, rvHead)
        /\ rvHead' = rvHead /\ rvDecimals' = rvDecimals /\ UNCHANGED rvTask
    BY DEF FindBlock
  <1>3. t \in Nat
    <2>1. rvRow \in Linked
      BY <1>1, LinkedIs DEF TaskInv
    <2>2. Missing \in SUBSET Nat
      BY <2>1, TimesAre DEF Missing
    <2>3. Min(Missing) \in Missing
      BY <1>1, <2>2, LeastIs
    <2>4. Min(Missing) \in DOMAIN RowTimes
      BY <2>3 DEF Missing
    <2> QED  BY <2>1, <2>4, TimesAre
  <1>4. rvHead \in RvBlocks
    BY <1>1 DEF WorldInv
  <1> HIDE DEF t
  <1>5. b \in 1..rvHead /\ Near(b, t, rvHead)
    BY <1>3, <1>4, AnswerNear
  <1> HIDE DEF b
  <1>6. /\ DOMAIN rvCache = DOMAIN rvAsked
        /\ DOMAIN rvCache' = DOMAIN rvCache \cup {t} /\ DOMAIN rvAsked' = DOMAIN rvCache \cup {t}
        /\ \A z \in DOMAIN rvCache' :
               /\ rvCache'[z] = IF z = t THEN b ELSE rvCache[z]
               /\ rvAsked'[z] = IF z = t THEN rvHead ELSE rvAsked[z]
    BY <1>1, <1>2 DEF With, WorldInv
  <1>7. WorldInv'
    <2>1. ASSUME NEW z \in DOMAIN rvCache'
          PROVE  /\ rvAsked'[z] \in RvBlocks /\ rvCache'[z] \in 1..rvAsked'[z]
                 /\ Near(rvCache'[z], z, rvAsked'[z])
      <3>1. CASE z = t
        BY <1>4, <1>5, <1>6, <3>1
      <3>2. CASE z # t
        <4>1. z \in DOMAIN rvCache /\ rvCache'[z] = rvCache[z] /\ rvAsked'[z] = rvAsked[z]
          BY <1>6, <3>2
        <4> QED  BY <1>1, <4>1 DEF WorldInv
      <3> QED  BY <3>1, <3>2
    <2>2. DOMAIN rvCache' \subseteq Nat
      BY <1>1, <1>3, <1>6 DEF WorldInv
    <2> QED  BY <1>1, <1>2, <1>6, <2>1, <2>2 DEF WorldInv, Near
  <1>8. TaskInv' /\ rvAt' = "blocks"
    <2>1. /\ rvRow' = rvRow /\ rvData' = rvData /\ rvQuotes' = rvQuotes /\ rvAt' = rvAt
          /\ rvResult' = rvResult
      BY <1>2 DEF rvTask
    <2>2. rvResult' \in Results /\ rvRow # Unlinked
      BY <1>1, <2>1 DEF TaskInv
    <2>3. TaskInv'
      BY <1>1, <2>1, <2>2, TaskMoves
    <2> QED  BY <1>1, <2>1, <2>3
  <1>9. VerdictOK'
    BY <1>8, NoVerdict
  <1> QED  BY <1>7, <1>8, <1>9 DEF RvInv

LEMMA ReadDecimalsKeeps ==
    ASSUME RvInv, ReadDecimals
    PROVE  RvInv'
  <1>1. WorldInv /\ TaskInv /\ rvAt = "blocks" /\ Missing = {}
    BY DEF RvInv, ReadDecimals
  <1>2. /\ rvAt' = "read" /\ rvHead' = rvHead /\ rvCache' = rvCache /\ rvAsked' = rvAsked
        /\ rvRow' = rvRow /\ rvData' = rvData /\ rvQuotes' = rvQuotes /\ rvResult' = rvResult
    BY DEF ReadDecimals
  <1>3. rvDecimals' \in {{QuoteUnit}, {DefaultUnit}}
    <2>1. rvDecimals \in {{}, {QuoteUnit}, {DefaultUnit}}
      BY <1>1 DEF WorldInv
    <2>2. CASE rvDecimals # {}
      BY <2>1, <2>2 DEF ReadDecimals
    <2>3. CASE rvDecimals = {}
      BY <2>3 DEF ReadDecimals
    <2> QED  BY <2>2, <2>3
  <1>4. WorldInv'
    BY <1>1, <1>2, <1>3 DEF WorldInv, Near
  <1>5. TaskInv'
    <2>1. Missing' = {}
      BY <1>1, <1>2, VerdictSame
    <2>2. rvQuotes = <<>> /\ rvRow # Unlinked
      BY <1>1 DEF TaskInv
    <2> QED  BY <1>1, <1>2, <1>3, <2>1, <2>2 DEF TaskInv
  <1>6. VerdictOK'
    BY <1>2, NoVerdict
  <1> QED  BY <1>4, <1>5, <1>6 DEF RvInv

LEMMA ResolveKeeps ==
    ASSUME RvInv, Resolve
    PROVE  RvInv'
  <1>1. /\ WorldInv /\ TaskInv /\ rvAt = "read" /\ Missing = {} /\ rvRow # Unlinked
        /\ rvDecimals # {} /\ (rvQuotes = <<>> \/ HalfSold)
    BY DEF RvInv, TaskInv, Resolve
  <1>2. Dated
    BY <1>1, DatesAre
  <1>3. UNCHANGED rvWorld
    BY DEF Resolve
  <1>4. /\ rvCache' = rvCache /\ rvDecimals' = rvDecimals /\ WorldInv'
    BY <1>1, <1>3, WorldRests DEF rvWorld
  <1>5. rvRow.label \in RvLabels
    BY <1>2, RowIs
  <1>6. rvRow.label # "SELL_IMPAIRED" => rvQuotes = <<>>
    BY <1>1 DEF HalfSold
  <1>7. Resolved
    <2>1. CASE rvRow.label = "DRAWDOWN_80"
      BY <1>2, <1>6, <2>1, DrawdownResolved DEF Resolve
    <2>2. CASE rvRow.label = "SELL_IMPAIRED"
      BY <1>1, <1>2, <1>3, <2>2, SellResolved DEF Resolve
    <2>3. CASE rvRow.label = "LIQ_IMPAIRED"
      BY <1>2, <1>6, <2>3, LiqResolved DEF Resolve
    <2>4. CASE rvRow.label = "INSIDER_EXIT"
      BY <1>2, <1>6, <2>4, InsiderResolved DEF Resolve
    <2>5. CASE rvRow.label = "TRADING_ALIVE"
      BY <1>2, <1>6, <2>5, AliveResolved DEF Resolve
    <2> QED  BY <1>5, <2>1, <2>2, <2>3, <2>4, <2>5 DEF RvLabels
  <1>8. rvRow' = rvRow /\ rvData' = rvData
    BY <1>7 DEF Resolved
  <1>9. TaskInv'
    <2>1. /\ rvQuotes' \in Seq(Quotation) /\ Len(rvQuotes') <= 2
          /\ rvAt' \in {"read", "done"} /\ rvResult' \in Results
          /\ rvAt' = "read" => HalfSold'
      BY <1>7 DEF Resolved
    <2>2. Missing' = {} /\ rvDecimals' # {}
      BY <1>1, <1>4, <1>8, VerdictSame
    <2>3. rvRow' \in RvRows /\ rvData' \in Histories /\ rvRow' # Unlinked
      BY <1>1, <1>8 DEF TaskInv
    <2>4. rvAt' \notin {"start", "blocks"} /\ rvAt' \in {"start", "blocks", "read", "done"}
      BY <2>1
    <2> QED  BY <2>1, <2>2, <2>3, <2>4 DEF TaskInv
  <1>10. VerdictOK'
    <2>1. ASSUME rvAt' = "done", rvResult' \in {"true", "false"}
          PROVE  /\ ~rvBroken'
                 /\ rvRow'.label = "DRAWDOWN_80" => DrawdownFounded'
                 /\ rvRow'.label = "SELL_IMPAIRED" /\ rvDecimals' = {QuoteUnit} => SellFounded'
                 /\ rvRow'.label = "LIQ_IMPAIRED" => LiqFounded'
                 /\ rvRow'.label = "INSIDER_EXIT" => InsiderFounded'
                 /\ rvRow'.label = "TRADING_ALIVE" /\ rvRow'.pool => AliveFounded'
      <3>1. /\ ~rvBroken'
            /\ rvRow.label = "DRAWDOWN_80" => DrawdownIs(rvResult', rvQuotes')
            /\ rvRow.label = "SELL_IMPAIRED" /\ rvDecimals = {QuoteUnit} =>
                   SellIs(rvResult', rvQuotes')
            /\ rvRow.label = "LIQ_IMPAIRED" => LiqIs(rvResult')
            /\ rvRow.label = "INSIDER_EXIT" => InsiderIs(rvResult')
            /\ rvRow.label = "TRADING_ALIVE" /\ rvRow.pool => AliveIs(rvResult')
        BY <1>7, <2>1 DEF Resolved
      <3>2. /\ DrawdownFounded' <=> DrawdownIs(rvResult', rvQuotes')
            /\ SellFounded' <=> SellIs(rvResult', rvQuotes')
            /\ LiqFounded' <=> LiqIs(rvResult')
            /\ InsiderFounded' <=> InsiderIs(rvResult')
            /\ AliveFounded' <=> AliveIs(rvResult')
        BY <1>4, <1>8, VerdictSame
      <3> QED  BY <1>4, <1>8, <3>1, <3>2
    <2> QED  BY <2>1, Zenon DEF VerdictOK
  <1> QED  BY <1>4, <1>9, <1>10 DEF RvInv

LEMMA BlockMinedKeeps ==
    ASSUME RvInv, \/ BlockMined
                  \/ UNCHANGED rvVars
    PROVE  RvInv'
  <1>1. WorldInv /\ TaskInv /\ VerdictOK
    BY DEF RvInv
  <1>2. /\ rvCache' = rvCache /\ rvAsked' = rvAsked /\ rvDecimals' = rvDecimals
        /\ UNCHANGED rvTask
    BY DEF BlockMined, rvVars, rvWorld
  <1>3. rvHead' \in RvBlocks
    <2>1. CASE BlockMined
      <3>1. RvBlocks = 1..Len(RvTimes) /\ Len(RvTimes) \in Nat /\ rvHead \in RvBlocks
        BY <1>1, ResolversAssumption DEF RvBlocks, WorldInv
      <3>2. rvHead < Len(RvTimes) /\ rvHead' = rvHead + 1
        BY <2>1 DEF BlockMined
      <3> QED  BY <3>1, <3>2
    <2>2. CASE UNCHANGED rvVars
      BY <1>1, <2>2 DEF rvVars, rvWorld, WorldInv
    <2> QED  BY <2>1, <2>2
  <1>4. WorldInv'
    BY <1>1, <1>2, <1>3 DEF WorldInv, Near
  <1>5. TaskInv'
    <2>1. /\ rvRow' = rvRow /\ rvData' = rvData /\ rvAt' = rvAt
          /\ rvQuotes' = rvQuotes /\ rvResult' = rvResult
      BY <1>2 DEF rvTask
    <2>2. Missing' = Missing
      BY <1>2, <2>1, VerdictSame
    <2>3. HalfSold' <=> HalfSold
      BY <1>2, <2>1 DEF HalfSold, notional
    <2> QED  BY <1>1, <1>2, <2>1, <2>2, <2>3 DEF TaskInv
  <1>6. VerdictOK'
    BY <1>1, <1>2, VerdictRests
  <1> QED  BY <1>4, <1>5, <1>6 DEF RvInv

LEMMA NextRowKeeps ==
    ASSUME RvInv, NextRow
    PROVE  RvInv'
  <1>1. WorldInv'
    BY WorldRests DEF RvInv, NextRow
  <1>2. TaskInv'
    <2>1. rvAt' = "start" /\ rvQuotes' = <<>> /\ rvResult' = "none" /\ rvRow' \in RvRows
          /\ rvData' \in DataOf(rvRow'.label)
      BY DEF NextRow
    <2>2. rvData' \in Histories
      BY <2>1, HistoriesAre
    <2> QED  BY <2>1, <2>2, NoQuotes DEF TaskInv, Results
  <1>3. VerdictOK'
    BY NoVerdict DEF NextRow
  <1> QED  BY <1>1, <1>2, <1>3 DEF RvInv

LEMMA RvImplies ==
    ASSUME RvInv
    PROVE  RvTypeOK /\ VerdictsFounded
  <1>1. WorldInv /\ TaskInv /\ VerdictOK
    BY DEF RvInv
  <1>2. RvTypeOK
    BY <1>1 DEF WorldInv, TaskInv, RvTypeOK, Results
  <1>3. \A t \in DOMAIN rvCache : Near(rvCache[t], t, rvAsked[t])
    BY <1>1 DEF WorldInv
  <1>4. VerdictsFounded
    BY <1>1, <1>3, Zenon DEF VerdictsFounded, VerdictOK
  <1> QED  BY <1>2, <1>4

\* VerdictsFounded and the types, for any chain whose timestamps do not fall, any rows,
\* trades, withdrawals, transfers and quotes: what blockAtTime's cache answers is near
\* the time asked for, and resolveDrawdown, resolveSellImpaired, resolveLiqImpaired,
\* resolveInsiderExit and resolveSurvival return a verdict only where their label's
\* rule gives it and no read failed.
THEOREM VerdictsHold == RvSpec => [](RvTypeOK /\ VerdictsFounded)
  <1>1. RvInit => RvInv
    BY RvInitially
  <1>2. RvInv /\ [RvNext]_rvVars => RvInv'
    BY StartRowKeeps, FindBlockKeeps, ReadThrowsKeeps, ReadDecimalsKeeps, ResolveKeeps,
       BlockMinedKeeps, NextRowKeeps DEF RvNext
  <1>3. RvInv => RvTypeOK /\ VerdictsFounded
    BY RvImplies
  <1> QED  BY <1>1, <1>2, <1>3, PTL DEF RvSpec
=============================================================================
