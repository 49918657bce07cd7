----------------------------- MODULE CommitJob -----------------------------
(***************************************************************************)
(* The Merkle commit job of the worker (apps/worker/src/commit/job.ts).    *)
(*                                                                         *)
(* A pass of runCommitBatch resolves the batch it still holds as           *)
(* unconfirmed, reads the validated reports that no commit row covers,     *)
(* sends the root of the oldest MaxLeaves of them to CommitRegistry, polls *)
(* for the receipt and, once it has a successful one, creates the commit   *)
(* row and links the reports to it.  Every await of the code is a step     *)
(* boundary here.  The worker's loop runs passes for ever; an operator's   *)
(* `pnpm commit:run` is a second process that runs one pass and exits.     *)
(*                                                                         *)
(* A Merkle root is represented by its set of leaves.  Clock readings are  *)
(* kept as ages, capped at the threshold the code compares them with.      *)
(***************************************************************************)
EXTENDS Naturals, FiniteSets, Sequences

CONSTANTS
    Procs,          \* the processes that run commit passes
    Worker,         \* the one of them that is the worker's commit loop
    MaxReports,     \* bound: report rows ever created
    MaxLeaves,      \* env.commitMaxLeaves
    IntervalAge,    \* env.commitIntervalSec, in ticks
    ExpiryAge,      \* UNCONFIRMED_MAX_AGE_MS, in ticks
    MaxFaults       \* bound: crashes, failed calls, lost or reverted txs

ASSUME CommitJobAssumption ==
    /\ Worker \in Procs
    /\ MaxReports \in Nat
    /\ MaxLeaves \in Nat \ {0}
    /\ IntervalAge \in Nat
    /\ ExpiryAge \in Nat
    /\ MaxFaults \in Nat

VARIABLES
    created,        \* report rows 1..created exist, in createdAt order
    passed,         \* report.validatorPassed
    commitId,       \* report.commitId: index in commits, 0 for null
    age,            \* time since report.createdAt
    commits,        \* commit rows of kind REPORT_BATCH
    chain,          \* commitBatch transactions ever broadcast
    pc,             \* where each process is in runCommitBatch
    force,          \* opts.force of the pass a process is running
    batch,          \* local `batch`
    tx,             \* local `txHash`: index in chain
    row,            \* local `commit`: index in commits
    unconfirmed,    \* the module-level slot; tx = 0 for null
    fate,           \* history: what the sender knows of each transaction
    faults          \* faults so far

db == <<created, passed, commitId, age, commits>>
local == <<force, batch, tx, row>>
vars == <<created, passed, commitId, age, commits, chain, pc, force, batch,
          tx, row, unconfirmed, fate, faults>>

Reports == 1..MaxReports
NoBatch == [tx |-> 0, batch |-> {}, age |-> 0]
PassPoint == {"idle", "resolve", "select", "send", "wait", "create", "link"}
TxStatus == {"mempool", "success", "reverted", "dropped"}
TxFate == {"inflight", "held", "recorded", "reverted", "expired", "lost"}

Init ==
    /\ created = 0
    /\ passed = [r \in Reports |-> FALSE]
    /\ commitId = [r \in Reports |-> 0]
    /\ age = [r \in Reports |-> 0]
    /\ commits = <<>>
    /\ chain = <<>>
    /\ pc = [p \in Procs |-> "idle"]
    /\ force = [p \in Procs |-> FALSE]
    /\ batch = [p \in Procs |-> {}]
    /\ tx = [p \in Procs |-> 0]
    /\ row = [p \in Procs |-> 0]
    /\ unconfirmed = [p \in Procs |-> NoBatch]
    /\ fate = <<>>
    /\ faults = 0

(***************************************************************************)
(* The environment: report producers, the clock and the chain.             *)
(***************************************************************************)

Fault ==
    /\ faults < MaxFaults
    /\ faults' = faults + 1

\* persistLaunchReports stores a draft with the validator's verdict: a new row, or the
\* row that has its hash already.  The same content gets the same verdict again, but
\* from another build's validator, which is counted with the faults.
PersistReport(ok) ==
    /\ \/ /\ created < MaxReports
          /\ created' = created + 1
          /\ passed' = [passed EXCEPT ![created + 1] = ok]
          /\ UNCHANGED faults
       \/ /\ Fault
          /\ \E r \in 1..created : passed' = [passed EXCEPT ![r] = ok]
          /\ UNCHANGED created
    /\ UNCHANGED <<commitId, age, commits, chain, pc, local, unconfirmed, fate>>

\* Mutant of Older: the age is compared but never capped.
OlderUncapped(a, cap) == a + 1

Older(a, cap) == IF a < cap THEN a + 1 ELSE a

\* Wall-clock time passes for every row and for the held batches.  One tick
\* is longer than waitReceipt's 240 s deadline.
Tick ==
    /\ age' = [r \in Reports |->
                 IF r <= created THEN Older(age[r], IntervalAge) ELSE age[r]]
    /\ unconfirmed' = [p \in Procs |->
                 IF unconfirmed[p].tx = 0 THEN unconfirmed[p]
                 ELSE [tx |-> unconfirmed[p].tx, batch |-> unconfirmed[p].batch,
                       age |-> Older(unconfirmed[p].age, ExpiryAge)]]
    /\ UNCHANGED <<created, passed, commitId, commits, chain, pc, local,
                   fate, faults>>

\* CommitRegistry.commitBatch runs: the root is in an event log for good.
Mine(t) ==
    /\ chain[t].status = "mempool"
    /\ chain' = [chain EXCEPT ![t].status = "success"]
    /\ UNCHANGED <<db, pc, local, unconfirmed, fate, faults>>

\* commitBatch reverts (onlyOwner), or the transaction never mines.
MineFails(t) ==
    /\ Fault
    /\ chain[t].status = "mempool"
    /\ \E s \in {"reverted", "dropped"} : chain' = [chain EXCEPT ![t].status = s]
    /\ UNCHANGED <<db, pc, local, unconfirmed, fate>>

\* What getTransactionReceipt may answer: a lagging node says "not found" of
\* a transaction that has mined.
Lookups(t) == {"none"} \union
    (IF chain[t].status \in {"success", "reverted"} THEN {chain[t].status} ELSE {})

(***************************************************************************)
(* The pass.                                                               *)
(***************************************************************************)

\* The pass of process p returns or throws, leaving `left` in the slot.  A
\* commit:run process then exits and its memory is gone.
EndPass(p, left) ==
    /\ pc' = [pc EXCEPT ![p] = "idle"]
    /\ unconfirmed' = [unconfirmed EXCEPT ![p] = IF p = Worker THEN left ELSE NoBatch]

\* runCommitJob: only commit:run passes --force.
StartPass(p) ==
    /\ pc[p] = "idle"
    /\ \E f \in IF p = Worker THEN {FALSE} ELSE BOOLEAN :
          force' = [force EXCEPT ![p] = f]
    /\ pc' = [pc EXCEPT ![p] = IF unconfirmed[p].tx # 0 THEN "resolve" ELSE "select"]
    /\ UNCHANGED <<db, chain, batch, tx, row, unconfirmed, fate, faults>>

\* Mutant of unconfirmedAction: any receipt finalizes the batch.
FinalizeAnyReceipt(u, receipt) ==
    IF receipt # "none" THEN "finalize"
    ELSE IF u.age >= ExpiryAge THEN "drop_expired" ELSE "wait"

\* Mutant of unconfirmedAction: a held batch never expires.
NeverExpires(u, receipt) ==
    IF receipt = "success" THEN "finalize"
    ELSE IF receipt = "reverted" THEN "drop_reverted" ELSE "wait"

unconfirmedAction(u, receipt) ==
    IF receipt # "none"
    THEN IF receipt = "success" THEN "finalize" ELSE "drop_reverted"
    ELSE IF u.age >= ExpiryAge THEN "drop_expired" ELSE "wait"

Resolve(p) ==
    /\ pc[p] = "resolve"
    /\ \E receipt \in Lookups(unconfirmed[p].tx) :
         LET u == unconfirmed[p]
             action == unconfirmedAction(u, receipt)
         IN \/ /\ action = "wait"
               /\ pc' = [pc EXCEPT ![p] = "select"]
               /\ UNCHANGED <<unconfirmed, batch, tx, fate>>
            \/ /\ action = "finalize"
               /\ unconfirmed' = [unconfirmed EXCEPT ![p] = NoBatch]
               /\ batch' = [batch EXCEPT ![p] = u.batch]
               /\ tx' = [tx EXCEPT ![p] = u.tx]
               /\ pc' = [pc EXCEPT ![p] = "create"]
               /\ fate' = [fate EXCEPT ![u.tx] = "inflight"]
            \/ /\ action \in {"drop_reverted", "drop_expired"}
               /\ unconfirmed' = [unconfirmed EXCEPT ![p] = NoBatch]
               /\ fate' = [fate EXCEPT ![u.tx] =
                             IF action = "drop_reverted" THEN "reverted" ELSE "expired"]
               /\ pc' = [pc EXCEPT ![p] = "select"]
               /\ UNCHANGED <<batch, tx>>
    /\ UNCHANGED <<db, chain, force, row, faults>>

\* Mutant of Held: the held batch is not excluded from the next one.
HeldIgnored(p) == {}

\* `held`: the reports of the batch that still waits for its receipt.
Held(p) == unconfirmed[p].batch

Pending(p) ==
    {r \in Reports : r <= created /\ passed[r] /\ commitId[r] = 0 /\ r \notin Held(p)}

Ready(p) ==
    \/ force[p]
    \/ Cardinality(Pending(p)) >= MaxLeaves
    \/ \E r \in Pending(p) :
          /\ \A q \in Pending(p) : r <= q
          /\ age[r] >= IntervalAge

\* pending.slice(0, commitMaxLeaves), oldest first.
Oldest(S) == {r \in S : Cardinality({q \in S : q < r}) < MaxLeaves}

SelectNothing(p) ==
    /\ pc[p] = "select"
    /\ Pending(p) = {} \/ ~Ready(p)
    /\ EndPass(p, unconfirmed[p])
    /\ UNCHANGED <<db, chain, local, fate, faults>>

SelectBatch(p) ==
    /\ pc[p] = "select"
    /\ Pending(p) # {}
    /\ Ready(p)
    /\ batch' = [batch EXCEPT ![p] = Oldest(Pending(p))]
    /\ pc' = [pc EXCEPT ![p] = "send"]
    /\ UNCHANGED <<db, chain, force, tx, row, unconfirmed, fate, faults>>

Broadcast(p, f) ==
    /\ chain' = Append(chain, [leaves |-> batch[p], status |-> "mempool"])
    /\ fate' = Append(fate, f)

\* writeContract returns the hash.
Send(p) ==
    /\ pc[p] = "send"
    /\ Broadcast(p, "inflight")
    /\ tx' = [tx EXCEPT ![p] = Len(chain) + 1]
    /\ pc' = [pc EXCEPT ![p] = "wait"]
    /\ UNCHANGED <<db, force, batch, row, unconfirmed, faults>>

\* writeContract throws, before or after the transaction reached the node.
SendThrows(p) ==
    /\ Fault
    /\ pc[p] = "send"
    /\ Broadcast(p, "lost") \/ UNCHANGED <<chain, fate>>
    /\ EndPass(p, unconfirmed[p])
    /\ UNCHANGED <<db, local>>

\* Mutant of Receipt: receipt.status is not looked at.
ReceiptUnchecked(p) ==
    /\ pc[p] = "wait"
    /\ chain[tx[p]].status \in {"success", "reverted"}
    /\ pc' = [pc EXCEPT ![p] = "create"]
    /\ UNCHANGED <<db, chain, local, unconfirmed, fate, faults>>

\* waitReceipt returns a receipt.
Receipt(p) ==
    /\ pc[p] = "wait"
    /\ \/ /\ chain[tx[p]].status = "success"
          /\ pc' = [pc EXCEPT ![p] = "create"]
          /\ UNCHANGED <<unconfirmed, fate>>
       \/ /\ chain[tx[p]].status = "reverted"
          /\ fate' = [fate EXCEPT ![tx[p]] = "reverted"]
          /\ EndPass(p, unconfirmed[p])
    /\ UNCHANGED <<db, chain, local, faults>>

\* waitReceipt throws (its deadline passes, or a lookup fails with another
\* error): the batch takes the slot, whatever it held.  Its age runs from
\* sentAt, before the wait.
HoldBatch(p) ==
    /\ pc[p] = "wait"
    /\ \E waited \in {0, Older(0, ExpiryAge)} :
          EndPass(p, [tx |-> tx[p], batch |-> batch[p], age |-> waited])
    /\ fate' = [fate EXCEPT ![tx[p]] = IF p = Worker THEN "held" ELSE "lost"]
    /\ UNCHANGED <<db, chain, local>>

\* The deadline passes because the transaction will never mine ...
TimeoutDropped(p) ==
    /\ HoldBatch(p)
    /\ chain[tx[p]].status = "dropped"
    /\ UNCHANGED faults

\* ... or although it has mined or may still mine (load-balanced RPC lag).
TimeoutLagging(p) ==
    /\ Fault
    /\ HoldBatch(p)
    /\ chain[tx[p]].status # "dropped"

\* recordBatch: prisma.commit.create ...
CreateCommit(p) ==
    /\ pc[p] = "create"
    /\ commits' = Append(commits, [tx |-> tx[p], leaves |-> batch[p]])
    /\ row' = [row EXCEPT ![p] = Len(commits) + 1]
    /\ pc' = [pc EXCEPT ![p] = "link"]
    /\ UNCHANGED <<created, passed, commitId, age, chain, force, batch, tx,
                   unconfirmed, fate, faults>>

\* ... then one transaction that points every report of the batch at the row.
LinkReports(p) ==
    /\ pc[p] = "link"
    /\ commitId' = [r \in Reports |-> IF r \in batch[p] THEN row[p] ELSE commitId[r]]
    /\ fate' = [fate EXCEPT ![tx[p]] = "recorded"]
    /\ EndPass(p, unconfirmed[p])
    /\ UNCHANGED <<created, passed, age, commits, chain, local, faults>>

\* A database call of recordBatch throws: runCommitLoop logs it, and nothing
\* remembers the transaction any more.
RecordFails(p) ==
    /\ Fault
    /\ pc[p] \in {"create", "link"}
    /\ fate' = [fate EXCEPT ![tx[p]] = "lost"]
    /\ EndPass(p, unconfirmed[p])
    /\ UNCHANGED <<db, chain, local>>

\* The process dies; a restarted worker has an empty slot.
Crash(p) ==
    /\ Fault
    /\ pc[p] # "idle" \/ unconfirmed[p].tx # 0
    /\ fate' = [t \in DOMAIN fate |->
          IF \/ p = Worker /\ fate[t] = "held"
             \/ t = tx[p] /\ pc[p] \in {"wait", "create", "link"}
          THEN "lost" ELSE fate[t]]
    /\ EndPass(p, NoBatch)
    /\ UNCHANGED <<db, chain, local>>

PassStep(p) ==
    \/ StartPass(p) \/ Resolve(p) \/ SelectNothing(p) \/ SelectBatch(p)
    \/ Send(p) \/ Receipt(p) \/ TimeoutDropped(p)
    \/ CreateCommit(p) \/ LinkReports(p)

PassFault(p) ==
    SendThrows(p) \/ TimeoutLagging(p) \/ RecordFails(p) \/ Crash(p)

Next ==
    \/ \E ok \in BOOLEAN : PersistReport(ok)
    \/ Tick
    \/ \E t \in DOMAIN chain : Mine(t) \/ MineFails(t)
    \/ \E p \in Procs : PassStep(p) \/ PassFault(p)

Spec == Init /\ [][Next]_vars

\* The loop keeps running passes (runCommitLoop never returns), time passes,
\* and the chain includes what stays in its mempool.
Fairness ==
    /\ WF_vars(PassStep(Worker))
    /\ WF_vars(Tick)
    /\ WF_vars(\E t \in DOMAIN chain : Mine(t))

FairSpec == Spec /\ Fairness

-----------------------------------------------------------------------------
(***************************************************************************)
(* Properties                                                              *)
(***************************************************************************)

DbType ==
    /\ created \in 0..MaxReports
    /\ passed \in [Reports -> BOOLEAN]
    /\ commitId \in [Reports -> Nat]
    /\ age \in [Reports -> 0..IntervalAge]
    /\ commits \in Seq([tx : Nat \ {0}, leaves : SUBSET Reports])

ChainType ==
    /\ chain \in Seq([leaves : SUBSET Reports, status : TxStatus])
    /\ fate \in Seq(TxFate)
    /\ faults \in 0..MaxFaults

PassType ==
    /\ pc \in [Procs -> PassPoint]
    /\ force \in [Procs -> BOOLEAN]
    /\ batch \in [Procs -> SUBSET Reports]
    /\ tx \in [Procs -> Nat]
    /\ row \in [Procs -> Nat]

SlotType ==
    unconfirmed \in [Procs -> [tx : Nat, batch : SUBSET Reports, age : 0..ExpiryAge]]

\* The rows, the transactions, the locals of the passes and the slots have
\* the shapes the Prisma schema and job.ts give them.
TypeOK == DbType /\ ChainType /\ PassType /\ SlotType

\* A report that points at a commit row has a proof that verifies: the row
\* lists it, and the row's transaction succeeded on chain with the root of
\* exactly the row's leaves.  (What a receipt of apps/api relies on, through
\* every crash, revert, lost receipt and concurrent commit:run.)
Anchored(r) ==
    LET c == commits[commitId[r]]
    IN /\ commitId[r] \in DOMAIN commits
       /\ r \in c.leaves
       /\ c.tx \in DOMAIN chain
       /\ chain[c.tx].status = "success"
       /\ chain[c.tx].leaves = c.leaves

AnchoredProof == \A r \in Reports : commitId[r] # 0 => Anchored(r)

\* With one committing process, a linked report is never re-pointed to a
\* later commit, even when a batch held as unconfirmed is finalized passes
\* after newer batches went out.
CommitIdStable ==
    [][\A r \in Reports : commitId[r] # 0 => commitId'[r] = commitId[r]]_vars

\* The worker has forgotten transaction t: it crashed or failed over it, gave
\* it up, saw it revert, or gave its slot to a later batch.
Forgotten(t) ==
    \/ fate[t] \in {"lost", "expired", "reverted"}
    \/ fate[t] = "held" /\ unconfirmed[Worker].tx # t

\* What the unconfirmed slot is for: with one committing process, no report
\* goes out in a second root while the worker still knows of the first one.
ResentOnlyIfForgotten ==
    \A s, t \in DOMAIN chain :
       s < t /\ chain[s].leaves \cap chain[t].leaves # {} => Forgotten(s)

\* What a receipt can show: the roots on chain, and the leaves of the root
\* that a report's row proves it in.
RootsOnChain ==
    {chain[t].leaves : t \in {u \in DOMAIN chain : chain[u].status = "success"}}
AnchorOf ==
    [r \in Reports |-> IF commitId[r] = 0 THEN {} ELSE commits[commitId[r]].leaves]

Anchors == INSTANCE ReportAnchor WITH roots <- RootsOnChain, anchor <- AnchorOf

\* With one committing process the passes implement the abstract pipeline: a
\* whole batch is anchored at once, to its own mined root, and never again.
ImplementsReportAnchor == Anchors!Spec

\* Every report whose verdict stays valid is eventually linked to a commit row, after
\* any bounded number of faults.
EventuallyCommitted ==
    \A r \in Reports : <>[](r <= created /\ passed[r]) => <>(commitId[r] # 0)

-----------------------------------------------------------------------------
(***************************************************************************)
(* The inductive strengthening of AnchoredProof: what the commit rows, the *)
(* slot and the locals of a pass know about the chain.                     *)
(***************************************************************************)

\* Every commit row records a successful transaction with its own leaves.
RowsSound ==
    \A c \in DOMAIN commits :
       /\ commits[c].tx \in DOMAIN chain
       /\ chain[commits[c].tx] = [leaves |-> commits[c].leaves, status |-> "success"]

LinksSound ==
    \A r \in Reports : commitId[r] # 0 =>
       /\ commitId[r] \in DOMAIN commits
       /\ r \in commits[commitId[r]].leaves

SlotSound ==
    \A p \in Procs :
       /\ unconfirmed[p].tx # 0 =>
             /\ unconfirmed[p].tx \in DOMAIN chain
             /\ chain[unconfirmed[p].tx].leaves = unconfirmed[p].batch
       /\ pc[p] = "resolve" => unconfirmed[p].tx # 0

PassSound ==
    \A p \in Procs :
       /\ pc[p] \in {"wait", "create", "link"} =>
             tx[p] \in DOMAIN chain /\ chain[tx[p]].leaves = batch[p]
       /\ pc[p] \in {"create", "link"} => chain[tx[p]].status = "success"
       /\ pc[p] = "link" =>
             row[p] \in DOMAIN commits /\ commits[row[p]].leaves = batch[p]

AnchorInv ==
    /\ TypeOK
    /\ Len(fate) = Len(chain)
    /\ RowsSound
    /\ LinksSound
    /\ SlotSound
    /\ PassSound

\* For one committing process: what it has in hand is not linked yet, and
\* its slot and its current batch share no report.
Unlinked(S) == \A r \in S : commitId[r] = 0

InHand ==
    /\ Unlinked(unconfirmed[Worker].batch)
    /\ pc[Worker] \in {"send", "wait", "create", "link"} =>
          /\ Unlinked(batch[Worker])
          /\ batch[Worker] \cap unconfirmed[Worker].batch = {}
============================================================================
