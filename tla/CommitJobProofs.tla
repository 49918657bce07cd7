------------------------- MODULE CommitJobProofs -------------------------
(***************************************************************************)
(* Proofs about CommitJob, for every number of reports, every batch size   *)
(* and every bound on the faults: what a linked report's row proves, for   *)
(* any set of committing processes; and, for one process, that no link     *)
(* moves, no known report is sent again, and the abstract pipeline is      *)
(* implemented.                                                            *)
(***************************************************************************)
EXTENDS CommitJob, SequenceTheorems, TLAPS

TxRow == [leaves : SUBSET Reports, status : TxStatus]
CommitRow == [tx : Nat \ {0}, leaves : SUBSET Reports]
Slot == [tx : Nat, batch : SUBSET Reports, age : 0..ExpiryAge]

\* Ages never pass their cap.
LEMMA OlderType ==
  ASSUME NEW cap \in Nat, NEW a \in 0..cap
  PROVE  Older(a, cap) \in 0..cap
BY DEF Older

\* Replacing the status of one transaction keeps the chain a sequence of
\* transactions with the same leaves.
LEMMA SetStatus ==
  ASSUME NEW c \in Seq(TxRow), NEW t \in DOMAIN c, NEW s \in TxStatus
  PROVE  LET d == [c EXCEPT ![t].status = s]
         IN /\ d \in Seq(TxRow)
            /\ Len(d) = Len(c)
            /\ DOMAIN d = DOMAIN c
            /\ \A u \in DOMAIN c : d[u].leaves = c[u].leaves
            /\ \A u \in DOMAIN c : u # t => d[u] = c[u]
<1>1. t \in 1..Len(c)  /\ c[t] \in TxRow
  BY ElementOfSeq, LenProperties
<1>2. [c[t] EXCEPT !.status = s] \in TxRow
  BY <1>1 DEF TxRow
<1> DEFINE d == [c EXCEPT ![t] = [c[t] EXCEPT !.status = s]]
<1>3. /\ d \in Seq(TxRow)
      /\ Len(d) = Len(c)
      /\ \A j \in 1..Len(c) : d[j] = IF j = t THEN [c[t] EXCEPT !.status = s] ELSE c[j]
  BY <1>1, <1>2, ExceptSeq
<1>4. DOMAIN d = DOMAIN c
  OBVIOUS
<1>5. [c[t] EXCEPT !.status = s].leaves = c[t].leaves
  BY <1>1 DEF TxRow
<1> QED
  BY <1>1, <1>3, <1>4, <1>5, LenProperties

\* Rewriting fates keeps a sequence of fates of the same length.
LEMMA SetFate ==
  ASSUME NEW f \in Seq(TxFate), NEW t \in 1..Len(f), NEW v \in TxFate
  PROVE  /\ [f EXCEPT ![t] = v] \in Seq(TxFate)
         /\ Len([f EXCEPT ![t] = v]) = Len(f)
BY ExceptSeq

\* The initial state, with no rows and no transactions, satisfies AnchorInv.
LEMMA InitAnchor == Init => AnchorInv
BY CommitJobAssumption
   DEF Init, AnchorInv, TypeOK, DbType, ChainType, PassType, SlotType, RowsSound, LinksSound, SlotSound, PassSound,
       Reports, NoBatch, PassPoint, TxStatus, TxFate

\* Storing a draft, in a new row or over the old, touches no link, no slot and no batch.
LEMMA AnchorPersistReport ==
  ASSUME AnchorInv, NEW ok \in BOOLEAN, PersistReport(ok)
  PROVE  AnchorInv'
<1> USE CommitJobAssumption DEF AnchorInv, db, local
<1>1. TypeOK'
  <2> USE DEF TypeOK, PersistReport
  <2>1. DbType'
    <3>1. passed' \in [Reports -> BOOLEAN]
      BY DEF DbType, Reports
    <3>2. created' \in 0..MaxReports
      BY DEF DbType
    <3> QED
      BY <3>1, <3>2 DEF DbType
  <2>2. ChainType'
    BY DEF ChainType, PassType, TxStatus, TxFate, Fault
  <2>3. PassType'
    BY DEF DbType, ChainType, PassType, SlotType, PassPoint
  <2>4. SlotType'
    BY DEF PassType, SlotType, NoBatch
  <2> QED
    BY <2>1, <2>2, <2>3, <2>4
<1>2. Len(fate') = Len(chain')
  BY DEF TypeOK, ChainType, PersistReport
<1>3. RowsSound'
  BY DEF TypeOK, DbType, ChainType, PassType, RowsSound, PassSound, PersistReport
<1>4. LinksSound'
  BY DEF TypeOK, DbType, ChainType, PassType, LinksSound, PassSound, PersistReport
<1>5. SlotSound'
  BY DEF TypeOK, DbType, ChainType, PassType, SlotType, SlotSound, PassSound, PersistReport, NoBatch
<1>6. PassSound'
  BY DEF TypeOK, DbType, ChainType, PassType, SlotType, SlotSound, PassSound, PersistReport, NoBatch
<1> QED
  BY <1>1, <1>2, <1>3, <1>4, <1>5, <1>6

\* Time moves ages only, and the held batch keeps its transaction.
LEMMA AnchorTick ==
  ASSUME AnchorInv, Tick
  PROVE  AnchorInv'
<1> USE CommitJobAssumption DEF AnchorInv, db, local
<1>1. TypeOK'
  <2> USE DEF TypeOK, Tick, Older
  <2>1. DbType'
    <3>1. age' \in [Reports -> 0..IntervalAge]
      BY DEF DbType, Reports
    <3>2. UNCHANGED <<created, passed, commitId, commits>>
      OBVIOUS
    <3> HIDE DEF Tick, Older
    <3> QED
      BY <3>1, <3>2 DEF DbType
  <2>2. ChainType'
    BY DEF ChainType, PassType, TxStatus, TxFate
  <2>3. PassType'
    BY DEF DbType, ChainType, PassType, SlotType, PassPoint
  <2>4. SlotType'
    BY DEF PassType, SlotType, NoBatch
  <2> QED
    BY <2>1, <2>2, <2>3, <2>4
<1>2. Len(fate') = Len(chain')
  BY DEF TypeOK, ChainType, Tick, Older
<1>3. RowsSound'
  BY DEF TypeOK, DbType, ChainType, PassType, RowsSound, PassSound, Tick, Older
<1>4. LinksSound'
  BY DEF TypeOK, DbType, ChainType, PassType, LinksSound, PassSound, Tick, Older
<1>5. SlotSound'
  BY DEF TypeOK, DbType, ChainType, PassType, SlotType, SlotSound, PassSound, Tick, Older, NoBatch
<1>6. PassSound'
  BY DEF TypeOK, DbType, ChainType, PassType, SlotType, SlotSound, PassSound, Tick, Older, NoBatch
<1> QED
  BY <1>1, <1>2, <1>3, <1>4, <1>5, <1>6

\* A transaction leaves the mempool: no row and no pass had counted on it, and
\* the leaves of every transaction are as before.
LEMMA StatusStep ==
  ASSUME AnchorInv, NEW t \in DOMAIN chain, NEW st \in TxStatus,
         chain[t].status = "mempool",
         chain' = [chain EXCEPT ![t].status = st],
         UNCHANGED <<commits, commitId, pc, tx, batch, row, unconfirmed>>
  PROVE  /\ chain' \in Seq(TxRow)
         /\ Len(chain') = Len(chain)
         /\ RowsSound' /\ LinksSound' /\ SlotSound' /\ PassSound'
<1>1. chain \in Seq(TxRow)
  BY DEF AnchorInv, TypeOK, ChainType, TxRow
<1>2. /\ chain' \in Seq(TxRow)
      /\ Len(chain') = Len(chain)
      /\ DOMAIN chain' = DOMAIN chain
      /\ \A u \in DOMAIN chain : chain'[u].leaves = chain[u].leaves
      /\ \A u \in DOMAIN chain : u # t => chain'[u] = chain[u]
  BY <1>1, SetStatus
<1>3. RowsSound'
  <2> SUFFICES ASSUME NEW c \in DOMAIN commits
               PROVE  /\ commits[c].tx \in DOMAIN chain'
                      /\ chain'[commits[c].tx] = [leaves |-> commits[c].leaves, status |-> "success"]
    BY DEF RowsSound
  <2>1. /\ commits[c].tx \in DOMAIN chain
        /\ chain[commits[c].tx] = [leaves |-> commits[c].leaves, status |-> "success"]
    BY DEF AnchorInv, RowsSound
  <2>2. commits[c].tx # t
    BY <2>1
  <2> QED
    BY <1>2, <2>1, <2>2
<1>4. LinksSound'
  BY DEF AnchorInv, LinksSound
<1>5. SlotSound'
  BY <1>2 DEF AnchorInv, SlotSound
<1>6. PassSound'
  BY <1>2 DEF AnchorInv, PassSound
<1> QED
  BY <1>2, <1>3, <1>4, <1>5, <1>6

\* A transaction of the mempool succeeds: the rows, which record successful
\* transactions, and the leaves are as before.
LEMMA AnchorMine ==
  ASSUME AnchorInv, NEW t \in DOMAIN chain, Mine(t)
  PROVE  AnchorInv'
<1> USE CommitJobAssumption DEF AnchorInv
<1>1. PICK st \in TxStatus : chain' = [chain EXCEPT ![t].status = st]
  BY DEF Mine, TxStatus
<1>2. /\ chain[t].status = "mempool"
      /\ UNCHANGED <<db, pc, local, unconfirmed, fate>>
  BY DEF Mine
<1>3. /\ chain' \in Seq(TxRow)
      /\ Len(chain') = Len(chain)
      /\ RowsSound' /\ LinksSound' /\ SlotSound' /\ PassSound'
  BY <1>1, <1>2, StatusStep DEF db, local
<1>4. faults' \in 0..MaxFaults
  BY DEF Mine, TypeOK, ChainType
<1>5. ChainType'
  BY <1>2, <1>3, <1>4 DEF TypeOK, ChainType, TxRow
<1>6. DbType'
  BY <1>2 DEF TypeOK, DbType, db
<1>7. PassType' /\ SlotType'
  BY <1>2 DEF TypeOK, PassType, SlotType, local
<1> QED
  BY <1>2, <1>3, <1>5, <1>6, <1>7 DEF TypeOK

\* A transaction that reverts or is dropped was in the mempool, so no row and
\* no pass counts on its success.
LEMMA AnchorMineFails ==
  ASSUME AnchorInv, NEW t \in DOMAIN chain, MineFails(t)
  PROVE  AnchorInv'
<1> USE CommitJobAssumption DEF AnchorInv
<1>1. PICK st \in TxStatus : chain' = [chain EXCEPT ![t].status = st]
  BY DEF MineFails, TxStatus
<1>2. /\ chain[t].status = "mempool"
      /\ UNCHANGED <<db, pc, local, unconfirmed, fate>>
  BY DEF MineFails
<1>3. /\ chain' \in Seq(TxRow)
      /\ Len(chain') = Len(chain)
      /\ RowsSound' /\ LinksSound' /\ SlotSound' /\ PassSound'
  BY <1>1, <1>2, StatusStep DEF db, local
<1>4. faults' \in 0..MaxFaults
  BY DEF MineFails, Fault, TypeOK, ChainType
<1>5. ChainType'
  BY <1>2, <1>3, <1>4 DEF TypeOK, ChainType, TxRow
<1>6. DbType'
  BY <1>2 DEF TypeOK, DbType, db
<1>7. PassType' /\ SlotType'
  BY <1>2 DEF TypeOK, PassType, SlotType, local
<1> QED
  BY <1>2, <1>3, <1>5, <1>6, <1>7 DEF TypeOK

\* A pass that starts resolves a slot only when the slot is full.
LEMMA AnchorStartPass ==
  ASSUME AnchorInv, NEW p \in Procs, StartPass(p)
  PROVE  AnchorInv'
<1> USE CommitJobAssumption DEF AnchorInv, db, local
<1>1. TypeOK'
  <2> USE DEF TypeOK, StartPass
  <2>1. DbType'
    BY DEF DbType, ChainType, PassType, Reports
  <2>2. ChainType'
    BY DEF ChainType, PassType, TxStatus, TxFate
  <2>3. PassType'
    BY DEF DbType, ChainType, PassType, SlotType, PassPoint
  <2>4. SlotType'
    BY DEF PassType, SlotType, NoBatch
  <2> QED
    BY <2>1, <2>2, <2>3, <2>4
<1>2. Len(fate') = Len(chain')
  BY DEF TypeOK, ChainType, StartPass
<1>3. RowsSound'
  BY DEF TypeOK, DbType, ChainType, PassType, RowsSound, PassSound, StartPass
<1>4. LinksSound'
  BY DEF TypeOK, DbType, ChainType, PassType, LinksSound, PassSound, StartPass
<1>5. SlotSound'
  BY DEF TypeOK, DbType, ChainType, PassType, SlotType, SlotSound, PassSound, StartPass, NoBatch
<1>6. PassSound'
  BY DEF TypeOK, DbType, ChainType, PassType, SlotType, SlotSound, PassSound, StartPass, NoBatch
<1> QED
  BY <1>1, <1>2, <1>3, <1>4, <1>5, <1>6

\* A held batch is finalized only with a successful receipt of its own
\* transaction (unconfirmedAction).
LEMMA AnchorResolve ==
  ASSUME AnchorInv, NEW p \in Procs, Resolve(p)
  PROVE  AnchorInv'
<1> USE CommitJobAssumption DEF AnchorInv, db
<1> DEFINE u == unconfirmed[p]
<1>1. PICK receipt \in Lookups(u.tx) :
        LET action == unconfirmedAction(u, receipt)
        IN \/ /\ action = "wait"
              /\ pc' = [pc EXCEPT ![p] = "select"]
              /\ UNCHANGED <<unconfirmed, batch, tx, fate>>
           \/ /\ action = "finalize"
              /\ unconfirmed' = [unconfirmed EXCEPT ![p] = NoBatch]
              /\ batch' = [batch EXCEPT ![p] = u.batch]
              /\ tx' = [tx EXCEPT ![p] = u.tx]
              /\ pc' = [pc EXCEPT ![p] = "create"]
              /\ fate' = [fate EXCEPT ![u.tx] = "inflight"]
           \/ /\ action \in {"drop_reverted", "drop_expired"}
              /\ unconfirmed' = [unconfirmed EXCEPT ![p] = NoBatch]
              /\ fate' = [fate EXCEPT ![u.tx] =
                            IF action = "drop_reverted" THEN "reverted" ELSE "expired"]
              /\ pc' = [pc EXCEPT ![p] = "select"]
              /\ UNCHANGED <<batch, tx>>
  BY DEF Resolve
<1> DEFINE action == unconfirmedAction(u, receipt)
<1>2. UNCHANGED <<created, passed, commitId, age, commits, chain, force, row, faults>>
  BY DEF Resolve
<1>3. DbType' /\ RowsSound' /\ LinksSound'
  BY <1>2 DEF TypeOK, DbType, RowsSound, LinksSound
<1>4. u.tx \in 1..Len(fate) /\ chain[u.tx].leaves = u.batch
  BY LenProperties DEF Resolve, TypeOK, ChainType, SlotSound
<1>5. CASE action = "wait"
  <2>1. pc' = [pc EXCEPT ![p] = "select"] /\ UNCHANGED <<unconfirmed, batch, tx, fate>>
    BY <1>1, <1>5
  <2>2. TypeOK'
    BY <1>2, <1>3, <2>1 DEF TypeOK, ChainType, PassType, SlotType, PassPoint
  <2>3. SlotSound' /\ PassSound'
    BY <1>2, <2>1 DEF TypeOK, PassType, SlotSound, PassSound
  <2> QED
    BY <1>2, <1>3, <2>1, <2>2, <2>3
<1>6. CASE action = "finalize"
  <2>1. /\ unconfirmed' = [unconfirmed EXCEPT ![p] = NoBatch]
        /\ batch' = [batch EXCEPT ![p] = u.batch]
        /\ tx' = [tx EXCEPT ![p] = u.tx]
        /\ pc' = [pc EXCEPT ![p] = "create"]
        /\ fate' = [fate EXCEPT ![u.tx] = "inflight"]
    BY <1>1, <1>6
  <2>2. chain[u.tx].status = "success"
    BY <1>6 DEF unconfirmedAction, Lookups
  <2>3. fate' \in Seq(TxFate) /\ Len(fate') = Len(fate)
    BY <1>4, <2>1, SetFate DEF TypeOK, ChainType, TxFate
  <2>4. PassType' /\ SlotType'
    BY <1>2, <2>1 DEF TypeOK, PassType, SlotType, PassPoint, NoBatch
  <2>5. TypeOK'
    BY <1>2, <1>3, <2>3, <2>4 DEF TypeOK, ChainType
  <2>6. SlotSound'
    BY <1>2, <2>1 DEF TypeOK, PassType, SlotType, SlotSound, NoBatch
  <2>7. u.tx \in DOMAIN chain
    BY DEF Resolve, SlotSound
  <2>8. PassSound'
    BY <1>2, <1>4, <2>1, <2>2, <2>7 DEF TypeOK, PassType, PassSound
  <2> QED
    BY <1>2, <1>3, <2>3, <2>5, <2>6, <2>8
<1>7. CASE action \in {"drop_reverted", "drop_expired"}
  <2>1. /\ unconfirmed' = [unconfirmed EXCEPT ![p] = NoBatch]
        /\ \E f \in {"reverted", "expired"} : fate' = [fate EXCEPT ![u.tx] = f]
        /\ pc' = [pc EXCEPT ![p] = "select"]
        /\ UNCHANGED <<batch, tx>>
    BY <1>1, <1>7
  <2>2. fate' \in Seq(TxFate) /\ Len(fate') = Len(fate)
    BY <1>4, <2>1, SetFate DEF TypeOK, ChainType, TxFate
  <2>3. PassType' /\ SlotType'
    BY <1>2, <2>1 DEF TypeOK, PassType, SlotType, PassPoint, NoBatch
  <2>4. TypeOK'
    BY <1>2, <1>3, <2>2, <2>3 DEF TypeOK, ChainType
  <2>5. SlotSound' /\ PassSound'
    BY <1>2, <2>1 DEF TypeOK, PassType, SlotType, SlotSound, PassSound, NoBatch
  <2> QED
    BY <1>2, <1>3, <2>2, <2>4, <2>5
<1> QED
  BY <1>1, <1>5, <1>6, <1>7

\* A pass that finds nothing ready changes no row and no slot.
LEMMA AnchorSelectNothing ==
  ASSUME AnchorInv, NEW p \in Procs, SelectNothing(p)
  PROVE  AnchorInv'
<1> USE CommitJobAssumption DEF AnchorInv, db, local
<1>1. TypeOK'
  <2> USE DEF TypeOK, SelectNothing, EndPass
  <2>1. DbType'
    BY DEF DbType, ChainType, PassType, Reports
  <2>2. ChainType'
    BY DEF ChainType, PassType, TxStatus, TxFate
  <2>3. PassType'
    BY DEF DbType, ChainType, PassType, SlotType, PassPoint
  <2>4. SlotType'
    BY DEF PassType, SlotType, NoBatch
  <2> QED
    BY <2>1, <2>2, <2>3, <2>4
<1>2. Len(fate') = Len(chain')
  BY DEF TypeOK, ChainType, SelectNothing, EndPass
<1>3. RowsSound'
  BY DEF TypeOK, DbType, ChainType, PassType, RowsSound, PassSound, SelectNothing, EndPass
<1>4. LinksSound'
  BY DEF TypeOK, DbType, ChainType, PassType, LinksSound, PassSound, SelectNothing, EndPass
<1>5. SlotSound'
  BY DEF TypeOK, DbType, ChainType, PassType, SlotType, SlotSound, PassSound, SelectNothing, EndPass, NoBatch
<1>6. PassSound'
  BY DEF TypeOK, DbType, ChainType, PassType, SlotType, SlotSound, PassSound, SelectNothing, EndPass, NoBatch
<1> QED
  BY <1>1, <1>2, <1>3, <1>4, <1>5, <1>6

\* Choosing a batch commits to nothing yet.
LEMMA AnchorSelectBatch ==
  ASSUME AnchorInv, NEW p \in Procs, SelectBatch(p)
  PROVE  AnchorInv'
<1> USE CommitJobAssumption DEF AnchorInv, db, local
<1>1. TypeOK'
  <2> USE DEF TypeOK, SelectBatch, Pending, Oldest
  <2>1. DbType'
    BY DEF DbType, ChainType, PassType, Reports
  <2>2. ChainType'
    BY DEF ChainType, PassType, TxStatus, TxFate
  <2>3. PassType'
    BY DEF DbType, ChainType, PassType, SlotType, PassPoint
  <2>4. SlotType'
    BY DEF PassType, SlotType, NoBatch
  <2> QED
    BY <2>1, <2>2, <2>3, <2>4
<1>2. Len(fate') = Len(chain')
  BY DEF TypeOK, ChainType, SelectBatch, Pending, Oldest
<1>3. RowsSound'
  BY DEF TypeOK, DbType, ChainType, PassType, RowsSound, PassSound, SelectBatch, Pending, Oldest
<1>4. LinksSound'
  BY DEF TypeOK, DbType, ChainType, PassType, LinksSound, PassSound, SelectBatch, Pending, Oldest
<1>5. SlotSound'
  BY DEF TypeOK, DbType, ChainType, PassType, SlotType, SlotSound, PassSound, SelectBatch, Pending, Oldest, NoBatch
<1>6. PassSound'
  BY DEF TypeOK, DbType, ChainType, PassType, SlotType, SlotSound, PassSound, SelectBatch, Pending, Oldest, NoBatch
<1> QED
  BY <1>1, <1>2, <1>3, <1>4, <1>5, <1>6

\* The broadcast transaction carries the leaves of the batch being sent.
LEMMA AnchorSend ==
  ASSUME AnchorInv, NEW p \in Procs, Send(p)
  PROVE  AnchorInv'
<1> USE CommitJobAssumption DEF AnchorInv, db, local
<1>1. TypeOK'
  <2> USE DEF TypeOK, Send, Broadcast
  <2>1. DbType'
    BY DEF DbType, ChainType, PassType, Reports
  <2>2. ChainType'
    BY DEF ChainType, PassType, TxStatus, TxFate
  <2>3. PassType'
    BY DEF DbType, ChainType, PassType, SlotType, PassPoint
  <2>4. SlotType'
    BY DEF PassType, SlotType, NoBatch
  <2> QED
    BY <2>1, <2>2, <2>3, <2>4
<1>2. Len(fate') = Len(chain')
  BY DEF TypeOK, ChainType, Send, Broadcast
<1>3. RowsSound'
  BY DEF TypeOK, DbType, ChainType, PassType, RowsSound, PassSound, Send, Broadcast
<1>4. LinksSound'
  BY DEF TypeOK, DbType, ChainType, PassType, LinksSound, PassSound, Send, Broadcast
<1>5. /\ DOMAIN chain \subseteq DOMAIN chain'
      /\ \A u \in DOMAIN chain : chain'[u] = chain[u]
      /\ Len(chain) + 1 \in DOMAIN chain'
      /\ chain'[Len(chain) + 1].leaves = batch[p]
  BY DEF TypeOK, ChainType, PassType, Send, Broadcast
<1>6. SlotSound'
  BY <1>5 DEF TypeOK, PassType, SlotSound, Send
<1>7. PassSound'
  <2> SUFFICES ASSUME NEW q \in Procs
               PROVE  /\ pc'[q] \in {"wait", "create", "link"} =>
                            tx'[q] \in DOMAIN chain' /\ chain'[tx'[q]].leaves = batch'[q]
                      /\ pc'[q] \in {"create", "link"} => chain'[tx'[q]].status = "success"
                      /\ pc'[q] = "link" =>
                            row'[q] \in DOMAIN commits' /\ commits'[row'[q]].leaves = batch'[q]
    BY DEF PassSound
  <2>1. CASE q = p
    BY <1>5, <2>1 DEF TypeOK, PassType, Send
  <2>2. CASE q # p
    BY <1>5, <2>2 DEF TypeOK, PassType, PassSound, Send
  <2> QED
    BY <2>1, <2>2
<1> QED
  BY <1>1, <1>2, <1>3, <1>4, <1>6, <1>7

\* Only a successful receipt leads to recordBatch.
LEMMA AnchorReceipt ==
  ASSUME AnchorInv, NEW p \in Procs, Receipt(p)
  PROVE  AnchorInv'
<1> USE CommitJobAssumption DEF AnchorInv, db, local
<1>1. tx[p] \in 1..Len(fate)
  BY LenProperties DEF Receipt, TypeOK, ChainType, PassSound
<1>2. CASE /\ chain[tx[p]].status = "success"
           /\ pc' = [pc EXCEPT ![p] = "create"]
           /\ UNCHANGED <<unconfirmed, fate>>
  <2>1. TypeOK'
    BY <1>2 DEF TypeOK, DbType, ChainType, PassType, SlotType, PassPoint, Receipt
  <2>2. RowsSound' /\ LinksSound'
    BY <1>2 DEF RowsSound, LinksSound, Receipt
  <2>3. SlotSound' /\ PassSound'
    BY <1>2 DEF TypeOK, PassType, SlotSound, PassSound, Receipt
  <2> QED
    BY <1>2, <2>1, <2>2, <2>3 DEF Receipt
<1>3. CASE /\ fate' = [fate EXCEPT ![tx[p]] = "reverted"]
           /\ EndPass(p, unconfirmed[p])
  <2>1. fate' \in Seq(TxFate) /\ Len(fate') = Len(fate)
    BY <1>1, <1>3, SetFate DEF TypeOK, ChainType, TxFate
  <2>2. SlotType'
    BY <1>3 DEF TypeOK, SlotType, EndPass, NoBatch
  <2>3. TypeOK'
    BY <1>3, <2>1, <2>2 DEF TypeOK, DbType, ChainType, PassType, PassPoint, Receipt, EndPass
  <2>4. RowsSound' /\ LinksSound'
    BY DEF RowsSound, LinksSound, Receipt
  <2>5. SlotSound' /\ PassSound'
    BY <1>3 DEF TypeOK, PassType, SlotType, SlotSound, PassSound, Receipt, EndPass, NoBatch
  <2> QED
    BY <2>1, <2>3, <2>4, <2>5 DEF Receipt
<1> QED
  BY <1>2, <1>3 DEF Receipt

\* A batch without a receipt takes the slot together with its transaction.
LEMMA AnchorHoldBatch ==
  ASSUME AnchorInv, NEW p \in Procs, HoldBatch(p), faults' \in 0..MaxFaults
  PROVE  AnchorInv'
<1> USE CommitJobAssumption DEF AnchorInv
<1>1. /\ pc[p] = "wait"
      /\ pc' = [pc EXCEPT ![p] = "idle"]
      /\ UNCHANGED <<db, chain, local>>
  BY DEF HoldBatch, EndPass
<1>2. PICK waited \in 0..ExpiryAge :
        unconfirmed' = [unconfirmed EXCEPT ![p] = IF p = Worker
                          THEN [tx |-> tx[p], batch |-> batch[p], age |-> waited] ELSE NoBatch]
  <2>1. ExpiryAge \in Nat /\ 0 \in 0..ExpiryAge
    OBVIOUS
  <2>2. Older(0, ExpiryAge) \in 0..ExpiryAge
    BY <2>1, OlderType
  <2> QED
    BY <2>1, <2>2 DEF HoldBatch, EndPass
<1>3. tx[p] \in DOMAIN chain /\ chain[tx[p]].leaves = batch[p]
  BY <1>1 DEF PassSound
<1>4. fate' \in Seq(TxFate) /\ Len(fate') = Len(fate)
  <2>1. tx[p] \in 1..Len(fate)
    BY <1>3, LenProperties DEF TypeOK, ChainType
  <2> QED
    BY <2>1, SetFate DEF HoldBatch, TypeOK, ChainType, TxFate
<1>5. TypeOK'
  <2>1. DbType' /\ ChainType'
    BY <1>1, <1>4 DEF TypeOK, DbType, ChainType, db
  <2>2. PassType'
    BY <1>1 DEF TypeOK, PassType, PassPoint, local
  <2>3. SlotType'
    BY <1>2 DEF TypeOK, PassType, SlotType, NoBatch
  <2> QED
    BY <2>1, <2>2, <2>3 DEF TypeOK
<1>6. RowsSound' /\ LinksSound'
  BY <1>1 DEF RowsSound, LinksSound, db
<1>7. SlotSound'
  <2> SUFFICES ASSUME NEW q \in Procs
               PROVE  /\ unconfirmed'[q].tx # 0 =>
                            /\ unconfirmed'[q].tx \in DOMAIN chain
                            /\ chain[unconfirmed'[q].tx].leaves = unconfirmed'[q].batch
                      /\ pc'[q] = "resolve" => unconfirmed'[q].tx # 0
    BY <1>1 DEF SlotSound
  <2>1. CASE q = p
    BY <1>1, <1>2, <1>3, <2>1 DEF TypeOK, PassType, SlotType, NoBatch
  <2>2. CASE q # p
    <3>1. unconfirmed'[q] = unconfirmed[q] /\ pc'[q] = pc[q]
      BY <1>1, <1>2, <2>2 DEF TypeOK, PassType, SlotType
    <3> QED
      BY <3>1 DEF SlotSound
  <2> QED
    BY <2>1, <2>2
<1>8. PassSound'
  BY <1>1 DEF TypeOK, PassType, PassSound, db, local
<1> QED
  BY <1>1, <1>4, <1>5, <1>6, <1>7, <1>8

\* ... when the transaction will never mine,
LEMMA AnchorTimeoutDropped ==
  ASSUME AnchorInv, NEW p \in Procs, TimeoutDropped(p)
  PROVE  AnchorInv'
BY AnchorHoldBatch DEF TimeoutDropped, AnchorInv, TypeOK, ChainType

\* The new commit row records the pass's successful transaction and its own
\* leaves (first half of recordBatch).
LEMMA AnchorCreateCommit ==
  ASSUME AnchorInv, NEW p \in Procs, CreateCommit(p)
  PROVE  AnchorInv'
<1> USE CommitJobAssumption DEF AnchorInv, db, local
<1>1. TypeOK'
  <2> USE DEF TypeOK, CreateCommit
  <2>1. DbType'
    <3>1. tx[p] \in Nat \ {0}
      BY LenProperties DEF ChainType, PassSound
    <3>2. [tx |-> tx[p], leaves |-> batch[p]] \in CommitRow
      BY <3>1 DEF PassType, CommitRow
    <3>3. commits' \in Seq(CommitRow)
      BY <3>2, AppendProperties DEF DbType, CommitRow
    <3> QED
      BY <3>3 DEF DbType, CommitRow
  <2>2. ChainType'
    BY DEF ChainType, PassType, TxStatus, TxFate
  <2>3. PassType'
    BY DEF DbType, ChainType, PassType, SlotType, PassPoint
  <2>4. SlotType'
    BY DEF PassType, SlotType, NoBatch
  <2> QED
    BY <2>1, <2>2, <2>3, <2>4
<1>2. Len(fate') = Len(chain')
  BY DEF TypeOK, ChainType, CreateCommit
<1>9. /\ DOMAIN commits = 1..Len(commits) /\ Len(commits) \in Nat
      /\ DOMAIN commits' = 1..(Len(commits) + 1)
      /\ \A c \in DOMAIN commits : commits'[c] = commits[c]
      /\ commits'[Len(commits) + 1] = [tx |-> tx[p], leaves |-> batch[p]]
  BY LenProperties DEF TypeOK, DbType, CreateCommit
<1>10. /\ tx[p] \in DOMAIN chain
       /\ chain[tx[p]] = [leaves |-> batch[p], status |-> "success"]
  <2>1. /\ tx[p] \in DOMAIN chain
        /\ chain[tx[p]].leaves = batch[p]
        /\ chain[tx[p]].status = "success"
    BY DEF PassSound, CreateCommit
  <2>2. chain[tx[p]] \in TxRow
    BY <2>1, ElementOfSeq, LenProperties DEF TypeOK, ChainType, TxRow
  <2> QED
    BY <2>1, <2>2 DEF TxRow
<1>3. RowsSound'
  BY <1>9, <1>10 DEF RowsSound, CreateCommit
<1>4. LinksSound'
  BY DEF TypeOK, DbType, ChainType, PassType, LinksSound, PassSound, CreateCommit
<1>5. SlotSound'
  BY DEF TypeOK, DbType, ChainType, PassType, SlotType, SlotSound, PassSound, CreateCommit, NoBatch
<1>6. PassSound'
  BY <1>9 DEF TypeOK, PassType, PassSound, CreateCommit
<1> QED
  BY <1>1, <1>2, <1>3, <1>4, <1>5, <1>6

\* The reports of the batch are linked to the row that lists them.
LEMMA AnchorLinkReports ==
  ASSUME AnchorInv, NEW p \in Procs, LinkReports(p)
  PROVE  AnchorInv'
<1> USE CommitJobAssumption DEF AnchorInv, db, local
<1>1. TypeOK'
  <2> USE DEF TypeOK, LinkReports, EndPass
  <2>1. DbType'
    BY DEF DbType, ChainType, PassType, Reports
  <2>2. ChainType'
    <3>1. tx[p] \in 1..Len(fate)
      BY LenProperties DEF ChainType, PassSound
    <3>2. fate' \in Seq(TxFate)
      BY <3>1, SetFate DEF ChainType, TxFate
    <3> QED
      BY <3>2 DEF ChainType
  <2>3. PassType'
    BY DEF DbType, ChainType, PassType, SlotType, PassPoint
  <2>4. SlotType'
    BY DEF PassType, SlotType, NoBatch
  <2> QED
    BY <2>1, <2>2, <2>3, <2>4
<1>2. Len(fate') = Len(chain')
  BY DEF TypeOK, ChainType, LinkReports, EndPass
<1>3. RowsSound'
  BY DEF TypeOK, DbType, ChainType, PassType, RowsSound, PassSound, LinkReports, EndPass
<1>4. LinksSound'
  BY DEF TypeOK, DbType, ChainType, PassType, LinksSound, PassSound, LinkReports, EndPass
<1>5. SlotSound'
  BY DEF TypeOK, DbType, ChainType, PassType, SlotType, SlotSound, PassSound, LinkReports, EndPass, NoBatch
<1>6. PassSound'
  BY DEF TypeOK, DbType, ChainType, PassType, SlotType, SlotSound, PassSound, LinkReports, EndPass, NoBatch
<1> QED
  BY <1>1, <1>2, <1>3, <1>4, <1>5, <1>6

\* A failed send adds at most one transaction, which no row or slot names.
LEMMA AnchorSendThrows ==
  ASSUME AnchorInv, NEW p \in Procs, SendThrows(p)
  PROVE  AnchorInv'
<1> USE CommitJobAssumption DEF AnchorInv, db, local
<1>1. /\ chain' \in Seq(TxRow)
      /\ fate' \in Seq(TxFate)
      /\ Len(fate') = Len(chain')
      /\ \A t \in DOMAIN chain : t \in DOMAIN chain' /\ chain'[t] = chain[t]
  <2>1. CASE UNCHANGED <<chain, fate>>
    BY <2>1 DEF TypeOK, ChainType, TxRow
  <2>2. CASE Broadcast(p, "lost")
    <3>1. [leaves |-> batch[p], status |-> "mempool"] \in TxRow
      BY DEF TypeOK, PassType, TxRow, TxStatus
    <3> QED
      BY <2>2, <3>1, LenProperties DEF Broadcast, TypeOK, ChainType, TxRow, TxFate
  <2> QED
    BY <2>1, <2>2 DEF SendThrows
<1>2. SlotType' /\ PassType'
  BY DEF SendThrows, EndPass, TypeOK, PassType, SlotType, PassPoint, NoBatch
<1>3. TypeOK'
  BY <1>1, <1>2 DEF SendThrows, Fault, TypeOK, DbType, ChainType, TxRow
<1>4. RowsSound'
  BY <1>1 DEF RowsSound, SendThrows
<1>5. LinksSound'
  BY DEF LinksSound, SendThrows
<1>6. SlotSound'
  BY <1>1 DEF TypeOK, PassType, SlotType, SlotSound, SendThrows, EndPass, NoBatch
<1>7. PassSound'
  BY <1>1 DEF TypeOK, PassType, PassSound, SendThrows, EndPass
<1> QED
  BY <1>1, <1>3, <1>4, <1>5, <1>6, <1>7

\* ... or may still mine (AnchorHoldBatch).
LEMMA AnchorTimeoutLagging ==
  ASSUME AnchorInv, NEW p \in Procs, TimeoutLagging(p)
  PROVE  AnchorInv'
<1>1. faults' \in 0..MaxFaults
  BY CommitJobAssumption DEF TimeoutLagging, Fault, AnchorInv, TypeOK, ChainType
<1> QED
  BY <1>1, AnchorHoldBatch DEF TimeoutLagging

\* A failed database call leaves rows and links as they were.
LEMMA AnchorRecordFails ==
  ASSUME AnchorInv, NEW p \in Procs, RecordFails(p)
  PROVE  AnchorInv'
<1> USE CommitJobAssumption DEF AnchorInv, db, local
<1>1. TypeOK'
  <2> USE DEF TypeOK, RecordFails, Fault, EndPass
  <2>1. DbType'
    BY DEF DbType, ChainType, PassType, Reports
  <2>2. ChainType'
    <3>1. tx[p] \in 1..Len(fate)
      BY LenProperties DEF ChainType, PassSound
    <3>2. fate' \in Seq(TxFate)
      BY <3>1, SetFate DEF ChainType, TxFate
    <3> QED
      BY <3>2 DEF ChainType
  <2>3. PassType'
    BY DEF DbType, ChainType, PassType, SlotType, PassPoint
  <2>4. SlotType'
    BY DEF PassType, SlotType, NoBatch
  <2> QED
    BY <2>1, <2>2, <2>3, <2>4
<1>2. Len(fate') = Len(chain')
  BY DEF TypeOK, ChainType, RecordFails, Fault, EndPass
<1>3. RowsSound'
  BY DEF TypeOK, DbType, ChainType, PassType, RowsSound, PassSound, RecordFails, Fault, EndPass
<1>4. LinksSound'
  BY DEF TypeOK, DbType, ChainType, PassType, LinksSound, PassSound, RecordFails, Fault, EndPass
<1>5. SlotSound'
  BY DEF TypeOK, DbType, ChainType, PassType, SlotType, SlotSound, PassSound, RecordFails, Fault, EndPass, NoBatch
<1>6. PassSound'
  BY DEF TypeOK, DbType, ChainType, PassType, SlotType, SlotSound, PassSound, RecordFails, Fault, EndPass, NoBatch
<1> QED
  BY <1>1, <1>2, <1>3, <1>4, <1>5, <1>6

\* A crash empties the slot and changes nothing that is stored.
LEMMA AnchorCrash ==
  ASSUME AnchorInv, NEW p \in Procs, Crash(p)
  PROVE  AnchorInv'
<1> USE CommitJobAssumption DEF AnchorInv, db, local
<1>1. TypeOK'
  <2> USE DEF TypeOK, Crash, Fault, EndPass
  <2>1. DbType'
    BY DEF DbType, ChainType, PassType, Reports
  <2>2. ChainType'
    <3>1. \A t \in DOMAIN fate : fate'[t] \in TxFate
      BY LenProperties DEF ChainType, TxFate
    <3>2. DOMAIN fate' = 1..Len(fate)
      BY LenProperties DEF ChainType
    <3>3. fate' \in Seq(TxFate)
      BY <3>1, <3>2, LenProperties DEF ChainType
    <3> QED
      BY <3>3 DEF ChainType
  <2>3. PassType'
    BY DEF DbType, ChainType, PassType, SlotType, PassPoint
  <2>4. SlotType'
    BY DEF PassType, SlotType, NoBatch
  <2> QED
    BY <2>1, <2>2, <2>3, <2>4
<1>2. Len(fate') = Len(chain')
  BY DEF TypeOK, ChainType, Crash, Fault, EndPass
<1>3. RowsSound'
  BY DEF TypeOK, DbType, ChainType, PassType, RowsSound, PassSound, Crash, Fault, EndPass
<1>4. LinksSound'
  BY DEF TypeOK, DbType, ChainType, PassType, LinksSound, PassSound, Crash, Fault, EndPass
<1>5. SlotSound'
  BY DEF TypeOK, DbType, ChainType, PassType, SlotType, SlotSound, PassSound, Crash, Fault, EndPass, NoBatch
<1>6. PassSound'
  BY DEF TypeOK, DbType, ChainType, PassType, SlotType, SlotSound, PassSound, Crash, Fault, EndPass, NoBatch
<1> QED
  BY <1>1, <1>2, <1>3, <1>4, <1>5, <1>6

\* Every step of the specification preserves the invariant.
LEMMA AnchorNext == AnchorInv /\ [Next]_vars => AnchorInv'
<1> SUFFICES ASSUME AnchorInv, [Next]_vars PROVE AnchorInv'
  OBVIOUS
<1>1. CASE \E ok \in BOOLEAN : PersistReport(ok)
  BY <1>1, AnchorPersistReport
<1>2. CASE Tick
  BY <1>2, AnchorTick
<1>3. CASE \E t \in DOMAIN chain : Mine(t) \/ MineFails(t)
  BY <1>3, AnchorMine, AnchorMineFails
<1>4. ASSUME NEW p \in Procs, PassStep(p) PROVE AnchorInv'
  BY <1>4, AnchorStartPass, AnchorResolve, AnchorSelectNothing,
     AnchorSelectBatch, AnchorSend, AnchorReceipt, AnchorTimeoutDropped,
     AnchorCreateCommit, AnchorLinkReports DEF PassStep
<1>5. ASSUME NEW p \in Procs, PassFault(p) PROVE AnchorInv'
  BY <1>5, AnchorSendThrows, AnchorTimeoutLagging, AnchorRecordFails,
     AnchorCrash DEF PassFault
<1>6. CASE UNCHANGED vars
  BY <1>6 DEF vars, AnchorInv, TypeOK, DbType, ChainType, PassType, SlotType,
     RowsSound, LinksSound, SlotSound, PassSound
<1> QED
  BY <1>1, <1>2, <1>3, <1>4, <1>5, <1>6 DEF Next

\* AnchorInv holds in every reachable state.
THEOREM AnchorInvariant == Spec => []AnchorInv
BY InitAnchor, AnchorNext, PTL DEF Spec

\* The rows, the transactions and the memory of the passes keep their types.
THEOREM TypeCorrect == Spec => []TypeOK
<1>1. AnchorInv => TypeOK
  BY DEF AnchorInv
<1> QED
  BY <1>1, AnchorInvariant, PTL

\* A linked report always has a proof that verifies: its row lists it and the
\* row's transaction succeeded with exactly the row's leaves, for any number
\* of commit processes, through every crash, revert and lost receipt.
THEOREM LinkedReportsAnchored == Spec => []AnchoredProof
<1>1. AnchorInv => AnchoredProof
  <2> SUFFICES ASSUME AnchorInv, NEW r \in Reports, commitId[r] # 0
               PROVE  Anchored(r)
    BY DEF AnchoredProof
  <2>1. commitId[r] \in DOMAIN commits /\ r \in commits[commitId[r]].leaves
    BY DEF AnchorInv, LinksSound
  <2>2. /\ commits[commitId[r]].tx \in DOMAIN chain
        /\ chain[commits[commitId[r]].tx] =
             [leaves |-> commits[commitId[r]].leaves, status |-> "success"]
    BY <2>1 DEF AnchorInv, RowsSound
  <2> QED
    BY <2>1, <2>2 DEF Anchored
<1> QED
  BY <1>1, AnchorInvariant, PTL

-----------------------------------------------------------------------------
\* With one committing process, what it has in hand stays unlinked: only its
\* own LinkReports links reports, and the slot and the batch are disjoint.
LEMMA InHandNext ==
  ASSUME Procs = {Worker}, AnchorInv, InHand, [Next]_vars
  PROVE  InHand'
<1> USE DEF InHand, Unlinked
<1>1. TypeOK /\ Worker \in Procs
  BY CommitJobAssumption DEF AnchorInv
<1>2. CASE \E ok \in BOOLEAN : PersistReport(ok)
  BY <1>2 DEF PersistReport, local
<1>3. CASE Tick
  BY <1>1, <1>3 DEF Tick, local
<1>4. CASE \E t \in DOMAIN chain : Mine(t) \/ MineFails(t)
  BY <1>4 DEF Mine, MineFails, db, local
<1>5. CASE StartPass(Worker)
  BY <1>1, <1>5 DEF StartPass, db, TypeOK, PassType
<1>6. CASE Resolve(Worker)
  BY <1>1, <1>6 DEF Resolve, NoBatch, db, TypeOK, PassType, SlotType
<1>7. CASE SelectNothing(Worker)
  BY <1>1, <1>7 DEF SelectNothing, EndPass, db, local, TypeOK, PassType, SlotType
<1>8. CASE SelectBatch(Worker)
  BY <1>1, <1>8 DEF SelectBatch, Oldest, Pending, Held, db, TypeOK, PassType
<1>9. CASE Send(Worker)
  BY <1>1, <1>9 DEF Send, db, TypeOK, PassType
<1>10. CASE Receipt(Worker)
  BY <1>1, <1>10 DEF Receipt, EndPass, db, local, TypeOK, PassType, SlotType
<1>11. CASE HoldBatch(Worker)
  BY <1>1, <1>11 DEF HoldBatch, EndPass, Older, db, local, TypeOK, PassType, SlotType
<1>12. CASE CreateCommit(Worker)
  BY <1>1, <1>12 DEF CreateCommit, TypeOK, PassType
<1>13. CASE LinkReports(Worker)
  BY <1>1, <1>13 DEF LinkReports, EndPass, local, TypeOK, DbType, PassType, SlotType
<1>14. CASE SendThrows(Worker) \/ RecordFails(Worker)
  BY <1>1, <1>14 DEF SendThrows, RecordFails, EndPass, db, local, TypeOK, PassType, SlotType
<1>15. CASE Crash(Worker)
  BY <1>1, <1>15 DEF Crash, EndPass, NoBatch, db, local, TypeOK, PassType, SlotType
<1>16. CASE UNCHANGED vars
  BY <1>16 DEF vars
<1> QED
  BY <1>2, <1>3, <1>4, <1>5, <1>6, <1>7, <1>8, <1>9, <1>10, <1>11, <1>12,
     <1>13, <1>14, <1>15, <1>16
  DEF Next, PassStep, PassFault, TimeoutDropped, TimeoutLagging

\* A step that changes commitId is LinkReports, and its batch is unlinked.
LEMMA StableStep ==
  ASSUME Procs = {Worker}, AnchorInv, InHand, [Next]_vars
  PROVE  \A r \in Reports : commitId[r] # 0 => commitId'[r] = commitId[r]
<1>1. CASE LinkReports(Worker)
  BY <1>1 DEF InHand, Unlinked, LinkReports
<1>2. CASE ~LinkReports(Worker)
  <2>1. UNCHANGED commitId
    BY <1>2 DEF Next, PassStep, PassFault, vars, db, PersistReport, Tick, Mine,
       MineFails, StartPass, Resolve, SelectNothing, SelectBatch, Send,
       Receipt, TimeoutDropped, TimeoutLagging, HoldBatch, CreateCommit,
       SendThrows, RecordFails, Crash
  <2> QED
    BY <2>1
<1> QED
  BY <1>1, <1>2

\* With one committing process no report is ever re-pointed from one commit
\* row to another: the exclusion of the held batch (`held` in
\* runCommitBatch) is enough, however late the held transaction mines and
\* however often the slot was overwritten.
THEOREM SingleCommitterStable ==
  ASSUME Procs = {Worker}
  PROVE  Spec => CommitIdStable
<1>1. Init => InHand
  BY CommitJobAssumption DEF Init, InHand, Unlinked, NoBatch
<1>2. AnchorInv /\ InHand /\ [Next]_vars => InHand'
  BY InHandNext
<1>3. AnchorInv /\ InHand /\ [Next]_vars
        => [\A r \in Reports : commitId[r] # 0 => commitId'[r] = commitId[r]]_vars
  BY StableStep
<1> QED
  BY <1>1, <1>2, <1>3, AnchorInvariant, PTL DEF Spec, CommitIdStable

-----------------------------------------------------------------------------
\* A step that appends to the chain and to the commits, and changes no status
\* and no link, is invisible to a receipt.
LEMMA Invisible ==
  ASSUME AnchorInv, UNCHANGED commitId,
         \A t \in DOMAIN chain : t \in DOMAIN chain' /\ chain'[t] = chain[t],
         \A t \in DOMAIN chain' : t \in DOMAIN chain \/ chain'[t].status # "success",
         \A c \in DOMAIN commits : commits'[c] = commits[c]
  PROVE  UNCHANGED <<RootsOnChain, AnchorOf>>
<1>1. RootsOnChain' = RootsOnChain
  BY DEF RootsOnChain
<1>2. AnchorOf' = AnchorOf
  BY DEF AnchorOf, AnchorInv, LinksSound
<1> QED
  BY <1>1, <1>2

\* A broadcast adds a transaction that has not succeeded.
LEMMA BroadcastInvisible ==
  ASSUME AnchorInv, NEW p \in Procs, NEW f \in TxFate, Broadcast(p, f),
         UNCHANGED <<commitId, commits>>
  PROVE  UNCHANGED <<RootsOnChain, AnchorOf>>
<1>1. /\ DOMAIN chain = 1..Len(chain) /\ Len(chain) \in Nat
      /\ DOMAIN chain' = 1..(Len(chain) + 1)
      /\ \A t \in DOMAIN chain : chain'[t] = chain[t]
      /\ chain'[Len(chain) + 1] = [leaves |-> batch[p], status |-> "mempool"]
  BY LenProperties DEF AnchorInv, TypeOK, ChainType, Broadcast
<1>2. chain'[Len(chain) + 1].status # "success"
  BY <1>1
<1>3. \A t \in DOMAIN chain' : t \in DOMAIN chain \/ chain'[t].status # "success"
  BY <1>1, <1>2
<1> QED
  BY <1>1, <1>3, Invisible

\* A mined transaction publishes its leaves.
LEMMA MinePublishes ==
  ASSUME AnchorInv, NEW t \in DOMAIN chain, Mine(t)
  PROVE  Anchors!Next
<1>1. /\ \A u \in DOMAIN chain : chain'[u].leaves = chain[u].leaves
      /\ \A u \in DOMAIN chain : u # t => chain'[u] = chain[u]
      /\ DOMAIN chain' = DOMAIN chain
  BY SetStatus DEF AnchorInv, TypeOK, ChainType, TxRow, TxStatus, Mine
<1>2. chain[t] \in TxRow
  BY ElementOfSeq, LenProperties DEF AnchorInv, TypeOK, ChainType, TxRow
<1>3. chain'[t].status = "success" /\ chain[t].leaves \in SUBSET Reports
  BY <1>2 DEF Mine, TxRow
<1>4. RootsOnChain' = RootsOnChain \union {chain[t].leaves}
  BY <1>1, <1>3 DEF RootsOnChain
<1>5. AnchorOf' = AnchorOf
  BY DEF Mine, db, AnchorOf
<1> QED
  BY <1>3, <1>4, <1>5 DEF Anchors!Next, Anchors!Publish

\* A transaction that reverts or is dropped publishes nothing.
LEMMA MineFailsInvisible ==
  ASSUME AnchorInv, NEW t \in DOMAIN chain, MineFails(t)
  PROVE  UNCHANGED <<RootsOnChain, AnchorOf>>
<1>1. PICK s \in {"reverted", "dropped"} : chain' = [chain EXCEPT ![t].status = s]
  BY DEF MineFails
<1>2. /\ \A u \in DOMAIN chain : u # t => chain'[u] = chain[u]
      /\ DOMAIN chain' = DOMAIN chain
  BY <1>1, SetStatus DEF AnchorInv, TypeOK, ChainType, TxRow, TxStatus
<1>3. chain[t] \in TxRow
  BY ElementOfSeq, LenProperties DEF AnchorInv, TypeOK, ChainType, TxRow
<1>4. chain'[t].status # "success" /\ chain[t].status # "success"
  BY <1>1, <1>3 DEF MineFails, TxRow
<1>5. RootsOnChain' = RootsOnChain
  BY <1>2, <1>4 DEF RootsOnChain
<1>6. AnchorOf' = AnchorOf
  BY DEF MineFails, db, AnchorOf
<1> QED
  BY <1>5, <1>6

\* LinkReports anchors its batch, all of it at once, to its own mined root.
LEMMA LinkAttaches ==
  ASSUME AnchorInv, InHand, LinkReports(Worker)
  PROVE  Anchors!Next
<1> DEFINE S == batch[Worker]
<1>1. Worker \in Procs /\ TypeOK
  BY CommitJobAssumption DEF AnchorInv
<1>2. /\ S \in SUBSET Reports
      /\ tx[Worker] \in DOMAIN chain
      /\ chain[tx[Worker]].leaves = S
      /\ chain[tx[Worker]].status = "success"
      /\ row[Worker] \in DOMAIN commits
      /\ commits[row[Worker]].leaves = S
  BY <1>1 DEF AnchorInv, TypeOK, PassType, PassSound, LinkReports
<1>3. S \in RootsOnChain
  BY <1>2 DEF RootsOnChain
<1>4. \A r \in S : AnchorOf[r] = {}
  BY <1>2 DEF InHand, Unlinked, LinkReports, AnchorOf
<1>5. row[Worker] # 0
  BY <1>1, <1>2, LenProperties DEF TypeOK, DbType
<1>6. AnchorOf' = [r \in Reports |-> IF r \in S THEN S ELSE AnchorOf[r]]
  BY <1>1, <1>2, <1>5 DEF AnchorOf, LinkReports, TypeOK, DbType
<1>7. RootsOnChain' = RootsOnChain
  BY DEF RootsOnChain, LinkReports
<1> QED
  BY <1>2, <1>3, <1>4, <1>6, <1>7 DEF Anchors!Next, Anchors!Attach

\* Every step of a single committing process is a step of the abstract
\* pipeline or leaves what a receipt can show unchanged.
LEMMA StepImplements ==
  ASSUME Procs = {Worker}, AnchorInv, InHand, [Next]_vars
  PROVE  Anchors!Next \/ UNCHANGED <<RootsOnChain, AnchorOf>>
<1>1. CASE \E t \in DOMAIN chain : Mine(t) \/ MineFails(t)
  BY <1>1, MinePublishes, MineFailsInvisible
<1>2. CASE LinkReports(Worker)
  BY <1>2, LinkAttaches
<1>3. CASE Send(Worker) \/ (SendThrows(Worker) /\ ~UNCHANGED <<chain, fate>>)
  <2>1. \E f \in TxFate : Broadcast(Worker, f) /\ UNCHANGED <<commitId, commits>>
    BY <1>3 DEF Send, SendThrows, db, TxFate
  <2> QED
    BY <2>1, BroadcastInvisible, CommitJobAssumption
<1>4. CASE CreateCommit(Worker)
  <2>1. \A c \in DOMAIN commits : commits'[c] = commits[c]
    BY <1>4, LenProperties DEF CreateCommit, AnchorInv, TypeOK, DbType
  <2> QED
    BY <1>4, <2>1, Invisible DEF CreateCommit
<1>5. CASE UNCHANGED <<chain, commitId, commits>>
  BY <1>5 DEF RootsOnChain, AnchorOf
<1>6. \/ \E t \in DOMAIN chain : Mine(t) \/ MineFails(t)
      \/ LinkReports(Worker) \/ CreateCommit(Worker) \/ Send(Worker)
      \/ SendThrows(Worker) /\ ~UNCHANGED <<chain, fate>>
      \/ UNCHANGED <<chain, commitId, commits>>
  BY DEF Next, PassStep, PassFault, vars, db, PersistReport, Tick, StartPass,
     Resolve, SelectNothing, SelectBatch, SendThrows, Receipt, TimeoutDropped,
     TimeoutLagging, HoldBatch, RecordFails, Crash
<1> QED
  BY <1>1, <1>2, <1>3, <1>4, <1>5, <1>6

\* The commit passes of a single process implement the abstract pipeline, for
\* any number of reports, any batch size and any number of faults.
THEOREM Refinement ==
  ASSUME Procs = {Worker}
  PROVE  Spec => ImplementsReportAnchor
<1>1. Init => Anchors!Init
  BY DEF Init, Anchors!Init, RootsOnChain, AnchorOf
<1>2. Init => InHand
  BY CommitJobAssumption DEF Init, InHand, Unlinked, NoBatch
<1>3. AnchorInv /\ InHand /\ [Next]_vars => InHand'
  BY InHandNext
<1>4. AnchorInv /\ InHand /\ [Next]_vars => [Anchors!Next]_(Anchors!vars)
  BY StepImplements DEF Anchors!vars
<1> QED
  BY <1>1, <1>2, <1>3, <1>4, AnchorInvariant, PTL
  DEF Spec, ImplementsReportAnchor, Anchors!Spec

-----------------------------------------------------------------------------
(***************************************************************************)
(* What fate, the history of what the worker knows of its transactions,    *)
(* has to do with its memory: why no report is sent twice unless the first *)
(* root was forgotten.                                                     *)
(***************************************************************************)

SentPoint == {"wait", "create", "link"}

\* A transaction is held when it is in the slot, in flight exactly while the
\* pass that sent or finalizes it runs, and recorded only once all its
\* reports are linked.
FatesTrue ==
    /\ unconfirmed[Worker].tx # 0 => fate[unconfirmed[Worker].tx] = "held"
    /\ pc[Worker] \in SentPoint => fate[tx[Worker]] = "inflight"
    /\ \A t \in DOMAIN chain : fate[t] = "inflight" =>
          pc[Worker] \in SentPoint /\ tx[Worker] = t
    /\ \A t \in DOMAIN chain : fate[t] = "recorded" =>
          \A r \in chain[t].leaves : commitId[r] # 0

\* Transactions are only added, and their leaves never change.
LEMMA LeavesKept ==
  ASSUME AnchorInv, [Next]_vars
  PROVE  \A t \in DOMAIN chain :
            t \in DOMAIN chain' /\ chain'[t].leaves = chain[t].leaves
<1>1. chain \in Seq(TxRow)
  BY DEF AnchorInv, TypeOK, ChainType, TxRow
<1>2. ASSUME NEW t \in DOMAIN chain, Mine(t) \/ MineFails(t)
      PROVE  /\ DOMAIN chain' = DOMAIN chain
             /\ \A u \in DOMAIN chain : chain'[u].leaves = chain[u].leaves
  <2>1. PICK s \in TxStatus : chain' = [chain EXCEPT ![t].status = s]
    BY <1>2 DEF Mine, MineFails, TxStatus
  <2> QED
    BY <1>1, <2>1, SetStatus
<1>3. ASSUME NEW p \in Procs, NEW f, Broadcast(p, f)
      PROVE  \A t \in DOMAIN chain : t \in DOMAIN chain' /\ chain'[t] = chain[t]
  BY <1>1, <1>3, LenProperties DEF Broadcast
<1>4. \/ \E t \in DOMAIN chain : Mine(t) \/ MineFails(t)
      \/ \E p \in Procs, f \in TxFate : Broadcast(p, f)
      \/ UNCHANGED chain
  BY DEF Next, PassStep, PassFault, vars, PersistReport, Tick, StartPass,
     Resolve, SelectNothing, SelectBatch, Send, SendThrows, Receipt, TimeoutDropped,
     TimeoutLagging, HoldBatch, RecordFails, Crash, CreateCommit, LinkReports, TxFate
<1> QED
  BY <1>2, <1>3, <1>4

\* A broadcast adds one transaction, with the batch of the pass, and leaves
\* the fates of the others alone.
LEMMA BroadcastAdds ==
  ASSUME AnchorInv, NEW p \in Procs, NEW f \in TxFate, Broadcast(p, f)
  PROVE  /\ Len(chain) + 1 \notin DOMAIN chain
         /\ DOMAIN chain' = DOMAIN chain \union {Len(chain) + 1}
         /\ \A t \in DOMAIN chain : chain'[t] = chain[t] /\ fate'[t] = fate[t] /\ t < Len(chain) + 1
         /\ chain'[Len(chain) + 1].leaves = batch[p]
         /\ fate'[Len(chain) + 1] = f
<1>1. /\ chain \in Seq(TxRow) /\ fate \in Seq(TxFate) /\ Len(fate) = Len(chain)
  BY DEF AnchorInv, TypeOK, ChainType, TxRow
<1>2. DOMAIN chain = 1..Len(chain) /\ Len(chain) \in Nat /\ DOMAIN fate = 1..Len(chain)
  BY <1>1, LenProperties
<1> QED
  BY <1>1, <1>2 DEF Broadcast

\* The fates stay true to the worker's memory.
LEMMA FatesTrueNext ==
  ASSUME Procs = {Worker}, AnchorInv, InHand, FatesTrue, [Next]_vars
  PROVE  FatesTrue'
<1>1. /\ Worker \in Procs /\ TypeOK
      /\ DOMAIN fate = DOMAIN chain /\ 0 \notin DOMAIN chain
  BY LenProperties DEF AnchorInv, TypeOK, ChainType
<1>2. \A t \in DOMAIN chain :
         t \in DOMAIN chain' /\ chain'[t].leaves = chain[t].leaves
  BY LeavesKept
<1>3. /\ unconfirmed[Worker].tx # 0 => unconfirmed[Worker].tx \in DOMAIN chain
      /\ pc[Worker] \in SentPoint => tx[Worker] \in DOMAIN chain
      /\ pc[Worker] = "resolve" => unconfirmed[Worker].tx # 0
  BY <1>1 DEF AnchorInv, SlotSound, PassSound, SentPoint
<1>4. /\ pc \in [Procs -> PassPoint] /\ tx \in [Procs -> Nat]
      /\ unconfirmed \in [Procs -> Slot]
      /\ commitId \in [Reports -> Nat] /\ batch \in [Procs -> SUBSET Reports]
  BY <1>1 DEF TypeOK, DbType, PassType, SlotType, Slot
<1>5. CASE /\ UNCHANGED <<pc, tx, fate, commitId>>
           /\ unconfirmed'[Worker].tx = unconfirmed[Worker].tx
           /\ DOMAIN chain' = DOMAIN chain
  BY <1>2, <1>5 DEF FatesTrue
<1>6. CASE \E t \in DOMAIN chain : Mine(t) \/ MineFails(t)
  <2>1. PICK t \in DOMAIN chain, s \in TxStatus : chain' = [chain EXCEPT ![t].status = s]
    BY <1>6 DEF Mine, MineFails, TxStatus
  <2>2. DOMAIN chain' = DOMAIN chain
    BY <2>1
  <2> QED
    BY <1>5, <1>6, <2>2 DEF Mine, MineFails, db, local
<1>7. CASE Tick
  <2>1. unconfirmed'[Worker].tx = unconfirmed[Worker].tx
    BY <1>1, <1>7 DEF Tick
  <2> QED
    BY <1>5, <1>7, <2>1 DEF Tick, local
<1>8. CASE \/ \E ok \in BOOLEAN : PersistReport(ok)
           \/ UNCHANGED vars
  BY <1>5, <1>8 DEF PersistReport, local, vars
<1>9. CASE StartPass(Worker) \/ SelectNothing(Worker) \/ SelectBatch(Worker)
  BY <1>4, <1>9 DEF FatesTrue, SentPoint, StartPass, SelectNothing, SelectBatch,
     EndPass, db, local
<1>10. CASE Resolve(Worker)
  BY <1>1, <1>3, <1>4, <1>10 DEF FatesTrue, SentPoint, Resolve, NoBatch, db, Slot
<1>11. CASE Send(Worker)
  <2>1. Broadcast(Worker, "inflight") /\ "inflight" \in TxFate
    BY <1>11 DEF Send, TxFate
  <2> QED
    BY <1>1, <1>3, <1>4, <1>11, <2>1, BroadcastAdds DEF FatesTrue, SentPoint, Send, db
<1>12. CASE SendThrows(Worker)
  <2>1. "lost" \in TxFate
    BY DEF TxFate
  <2>2. /\ pc[Worker] = "send" /\ pc' = [pc EXCEPT ![Worker] = "idle"]
        /\ unconfirmed' = unconfirmed /\ UNCHANGED <<tx, commitId>>
    BY <1>4, <1>12 DEF SendThrows, EndPass, db, local
  <2>3. CASE Broadcast(Worker, "lost")
    BY <1>1, <1>3, <1>4, <2>1, <2>2, <2>3, BroadcastAdds DEF FatesTrue, SentPoint
  <2>4. CASE UNCHANGED <<chain, fate>>
    BY <1>4, <2>2, <2>4 DEF FatesTrue, SentPoint
  <2> QED
    BY <1>12, <2>3, <2>4 DEF SendThrows
<1>13. CASE Receipt(Worker)
  BY <1>1, <1>3, <1>4, <1>13 DEF FatesTrue, SentPoint, Receipt, EndPass, db, local
<1>14. CASE HoldBatch(Worker)
  BY <1>1, <1>3, <1>4, <1>14 DEF FatesTrue, SentPoint, HoldBatch, EndPass, db, local
<1>15. CASE CreateCommit(Worker)
  BY <1>4, <1>15 DEF FatesTrue, SentPoint, CreateCommit
<1>16. CASE LinkReports(Worker)
  <2>1. row[Worker] # 0 /\ chain[tx[Worker]].leaves = batch[Worker]
    BY <1>1, <1>16, LenProperties
       DEF LinkReports, AnchorInv, PassSound, TypeOK, DbType
  <2>2. /\ \A r \in Reports : commitId[r] # 0 => commitId'[r] # 0
        /\ \A r \in batch[Worker] : commitId'[r] # 0
    <3>1. batch[Worker] \subseteq Reports
      BY <1>1 DEF TypeOK, PassType
    <3>2. commitId' = [r \in Reports |-> IF r \in batch[Worker] THEN row[Worker]
                                        ELSE commitId[r]]
      BY <1>16 DEF LinkReports
    <3> QED
      BY <2>1, <3>1, <3>2
  <2>3. \A t \in DOMAIN chain : chain[t].leaves \in SUBSET Reports
    <3>1. chain \in Seq(TxRow)
      BY <1>1 DEF TypeOK, ChainType, TxRow
    <3>2. DOMAIN chain = 1..Len(chain)
      BY <3>1
    <3>3. ASSUME NEW t \in DOMAIN chain PROVE chain[t] \in TxRow
      BY <3>1, <3>2, <3>3, ElementOfSeq
    <3> QED
      BY <3>3 DEF TxRow
  <2>4. /\ pc[Worker] \in SentPoint /\ pc'[Worker] = "idle"
        /\ unconfirmed' = unconfirmed /\ UNCHANGED <<chain, tx>>
        /\ fate'[tx[Worker]] = "recorded"
        /\ \A t \in DOMAIN chain : t # tx[Worker] => fate'[t] = fate[t]
    BY <1>1, <1>3, <1>4, <1>16 DEF LinkReports, EndPass, SentPoint, local
  <2>5. ASSUME NEW t \in DOMAIN chain, fate'[t] = "recorded"
        PROVE  \A r \in chain[t].leaves : commitId'[r] # 0
    BY <2>1, <2>2, <2>3, <2>4, <2>5 DEF FatesTrue
  <2>6. \A t \in DOMAIN chain : fate'[t] # "inflight"
    BY <2>4 DEF FatesTrue
  <2>7. unconfirmed[Worker].tx # 0 => fate'[unconfirmed[Worker].tx] = "held"
    BY <1>3, <2>4 DEF FatesTrue
  <2> QED
    BY <2>4, <2>5, <2>6, <2>7 DEF FatesTrue, SentPoint
<1>17. CASE RecordFails(Worker)
  BY <1>1, <1>3, <1>4, <1>17 DEF FatesTrue, SentPoint, RecordFails, EndPass, db, local
<1>18. CASE Crash(Worker)
  BY <1>1, <1>3, <1>4, <1>18 DEF FatesTrue, SentPoint, Crash, EndPass, NoBatch, db, local
<1> QED
  BY <1>6, <1>7, <1>8, <1>9, <1>10, <1>11, <1>12, <1>13, <1>14, <1>15, <1>16,
     <1>17, <1>18
  DEF Next, PassStep, PassFault, TimeoutDropped, TimeoutLagging

\* What the worker sends is in no root that it still knows of: it is unlinked,
\* not in the slot, and no other pass is under way.
LEMMA SendsNothingKnown ==
  ASSUME Procs = {Worker}, AnchorInv, InHand, FatesTrue, pc[Worker] = "send",
         NEW t \in DOMAIN chain, chain[t].leaves \cap batch[Worker] # {}
  PROVE  Forgotten(t)
<1>1. PICK r \in chain[t].leaves : r \in batch[Worker]
  OBVIOUS
<1>2. fate[t] \in TxFate
  BY ElementOfSeq, LenProperties DEF AnchorInv, TypeOK, ChainType
<1>3. commitId[r] = 0 /\ r \notin unconfirmed[Worker].batch
  BY <1>1 DEF InHand, Unlinked
<1>4. fate[t] # "recorded"
  BY <1>1, <1>3 DEF FatesTrue
<1>5. fate[t] # "inflight"
  BY DEF FatesTrue, SentPoint
<1>6. t # 0
  BY LenProperties DEF AnchorInv, TypeOK, ChainType
<1>7. fate[t] = "held" => unconfirmed[Worker].tx # t
  BY <1>1, <1>3, <1>6, CommitJobAssumption DEF AnchorInv, SlotSound
<1> QED
  BY <1>2, <1>4, <1>5, <1>7 DEF Forgotten, TxFate

\* What the worker has forgotten it never learns again.
LEMMA ForgottenStays ==
  ASSUME Procs = {Worker}, AnchorInv, FatesTrue, [Next]_vars,
         NEW t \in DOMAIN chain, Forgotten(t)
  PROVE  Forgotten(t)'
<1>1. /\ Worker \in Procs /\ TypeOK
      /\ DOMAIN fate = DOMAIN chain /\ t # 0
  BY LenProperties DEF AnchorInv, TypeOK, ChainType
<1>2. /\ pc \in [Procs -> PassPoint] /\ tx \in [Procs -> Nat]
      /\ unconfirmed \in [Procs -> Slot]
  BY <1>1 DEF TypeOK, PassType, SlotType, Slot
<1>3. /\ pc[Worker] \in SentPoint => fate[tx[Worker]] = "inflight"
      /\ pc[Worker] = "resolve" => fate[unconfirmed[Worker].tx] = "held"
  BY <1>1 DEF FatesTrue, AnchorInv, SlotSound
<1>4. CASE /\ fate'[t] = fate[t]
           /\ unconfirmed'[Worker].tx = unconfirmed[Worker].tx
  BY <1>4 DEF Forgotten
<1>5. CASE \/ \E ok \in BOOLEAN : PersistReport(ok)
           \/ \E u \in DOMAIN chain : Mine(u) \/ MineFails(u)
           \/ CreateCommit(Worker) \/ UNCHANGED vars
  BY <1>4, <1>5 DEF PersistReport, Mine, MineFails, CreateCommit, local, vars
<1>6. CASE Tick
  <2>1. unconfirmed'[Worker].tx = unconfirmed[Worker].tx
    BY <1>1, <1>6 DEF Tick
  <2> QED
    BY <1>4, <1>6, <2>1 DEF Tick
<1>7. CASE StartPass(Worker) \/ SelectNothing(Worker) \/ SelectBatch(Worker)
  BY <1>2, <1>4, <1>7 DEF StartPass, SelectNothing, SelectBatch, EndPass
<1>8. CASE Resolve(Worker)
  BY <1>1, <1>2, <1>3, <1>8 DEF Forgotten, Resolve, NoBatch
<1>9. CASE Send(Worker) \/ SendThrows(Worker)
  <2>1. fate'[t] = fate[t]
    <3>1. CASE \E f \in TxFate : Broadcast(Worker, f)
      BY <1>1, <3>1, BroadcastAdds
    <3>2. CASE UNCHANGED <<chain, fate>>
      BY <3>2
    <3> QED
      BY <1>9, <3>1, <3>2 DEF Send, SendThrows, TxFate
  <2>2. unconfirmed' = unconfirmed
    BY <1>2, <1>9 DEF Send, SendThrows, EndPass
  <2> QED
    BY <1>4, <2>1, <2>2
<1>10. CASE Receipt(Worker) \/ LinkReports(Worker) \/ RecordFails(Worker)
  <2>1. unconfirmed' = unconfirmed
    BY <1>2, <1>10 DEF Receipt, LinkReports, RecordFails, EndPass
  <2>2. pc[Worker] \in SentPoint
    BY <1>10 DEF Receipt, LinkReports, RecordFails, SentPoint
  <2>3. t # tx[Worker]
    BY <1>3, <2>2 DEF Forgotten
  <2> QED
    BY <1>1, <1>4, <1>10, <2>1, <2>3 DEF Receipt, LinkReports, RecordFails
<1>11. CASE HoldBatch(Worker)
  <2>1. t # tx[Worker]
    BY <1>3, <1>11 DEF Forgotten, HoldBatch, SentPoint
  <2> QED
    BY <1>1, <1>2, <1>11, <2>1 DEF Forgotten, HoldBatch, EndPass
<1>12. CASE Crash(Worker)
  BY <1>1, <1>2, <1>12 DEF Forgotten, Crash, EndPass, NoBatch
<1> QED
  BY <1>5, <1>6, <1>7, <1>8, <1>9, <1>10, <1>11, <1>12
  DEF Next, PassStep, PassFault, TimeoutDropped, TimeoutLagging

\* Only a broadcast adds a root, and it adds one that shares reports with
\* forgotten ones only.
LEMMA ResentNext ==
  ASSUME Procs = {Worker}, AnchorInv, InHand, FatesTrue, ResentOnlyIfForgotten,
         [Next]_vars
  PROVE  ResentOnlyIfForgotten'
<1>1. \A t \in DOMAIN chain :
         t \in DOMAIN chain' /\ chain'[t].leaves = chain[t].leaves
  BY LeavesKept
<1>2. \A t \in DOMAIN chain : Forgotten(t) => Forgotten(t)'
  BY ForgottenStays
<1>3. CASE DOMAIN chain' = DOMAIN chain
  BY <1>1, <1>2, <1>3 DEF ResentOnlyIfForgotten
<1>4. CASE pc[Worker] = "send" /\ \E f \in TxFate : Broadcast(Worker, f)
  <2>1. /\ Worker \in Procs /\ Len(chain) \in Nat
        /\ DOMAIN chain = 1..Len(chain)
    BY LenProperties DEF AnchorInv, TypeOK, ChainType
  <2>2. /\ DOMAIN chain' = DOMAIN chain \union {Len(chain) + 1}
        /\ chain'[Len(chain) + 1].leaves = batch[Worker]
    BY <1>4, <2>1, BroadcastAdds
  <2> SUFFICES ASSUME NEW s \in DOMAIN chain', NEW t \in DOMAIN chain', s < t,
                      chain'[s].leaves \cap chain'[t].leaves # {}
               PROVE  Forgotten(s)'
    BY DEF ResentOnlyIfForgotten
  <2>3. s \in DOMAIN chain
    BY <2>1, <2>2
  <2>4. CASE t \in DOMAIN chain
    BY <1>1, <1>2, <2>3, <2>4 DEF ResentOnlyIfForgotten
  <2>5. CASE t = Len(chain) + 1
    <3>1. chain[s].leaves \cap batch[Worker] # {}
      BY <1>1, <2>2, <2>3, <2>5
    <3>2. Forgotten(s)
      BY <1>4, <2>3, <3>1, SendsNothingKnown
    <3> QED
      BY <1>2, <2>3, <3>2
  <2> QED
    BY <2>2, <2>4, <2>5
<1>5. \/ DOMAIN chain' = DOMAIN chain
      \/ pc[Worker] = "send" /\ \E f \in TxFate : Broadcast(Worker, f)
  BY DEF Next, PassStep, PassFault, vars, PersistReport, Tick, Mine, MineFails, StartPass,
     Resolve, SelectNothing, SelectBatch, Send, SendThrows, Receipt, TimeoutDropped,
     TimeoutLagging, HoldBatch, RecordFails, Crash, CreateCommit, LinkReports, TxFate
<1> QED
  BY <1>3, <1>4, <1>5

\* With one committing process the slot does what it is for: no report goes
\* out in a second root while the worker still knows of the first one, however
\* the receipts, expiries, overwrites of the slot and crashes fall.
THEOREM SentOnceWhileKnown ==
  ASSUME Procs = {Worker}
  PROVE  Spec => []ResentOnlyIfForgotten
<1> DEFINE Inv == InHand /\ FatesTrue /\ ResentOnlyIfForgotten
<1>1. Init => Inv
  <2>1. Init => InHand
    BY CommitJobAssumption DEF Init, InHand, Unlinked, NoBatch
  <2>2. Init => FatesTrue /\ ResentOnlyIfForgotten
    BY CommitJobAssumption DEF Init, FatesTrue, SentPoint, NoBatch, ResentOnlyIfForgotten
  <2> QED
    BY <2>1, <2>2
<1>2. AnchorInv /\ Inv /\ [Next]_vars => Inv'
  BY InHandNext, FatesTrueNext, ResentNext
<1>3. Inv => ResentOnlyIfForgotten
  OBVIOUS
<1> QED
  BY <1>1, <1>2, <1>3, AnchorInvariant, PTL DEF Spec
============================================================================
