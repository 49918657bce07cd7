------------------------------ MODULE Receipts ------------------------------
(***************************************************************************)
(* The proof of a report: apps/worker builds the Merkle tree of a batch    *)
(* level by level and stores its proofs with the commit, apps/api answers  *)
(* for a report with a receipt, and verify-receipt checks one against the  *)
(* chain.  keccak256 is taken as perfect: different reports have different *)
(* hashes, and the hash of a pair is the set of the two (the code sorts    *)
(* them).                                                                  *)
(***************************************************************************)
EXTENDS Eligibility, Ascending, Sequences, SequencesExt

CONSTANTS
    Batches,        \* the reports of a batch, in createdAt order
    CommitTimes,    \* block times of the batch, all reports being of time 0
    Horizons,       \* of an outcome
    Uncommitted,    \* a report outside the batch
    LeafHash        \* keccak256 of a report's canonical content

ASSUME ReceiptsAssumption ==
    /\ Batches \subseteq Seq(Nat \ {0})
    /\ CommitTimes \cup Horizons \cup {Uncommitted} \subseteq Nat
    /\ \A b \in Batches : ToSet(b) \cup {Uncommitted} \subseteq DOMAIN LeafHash
    /\ IsInjective(LeafHash)

VARIABLES
    rcBatch, rcLevel, rcGroups, rcProofs,   \* the tree under construction
    rcCommit,       \* the commit row: its root and leaves
    rcTime,         \* its block time
    rcReceipt       \* the receipt at hand

rcVars == <<rcBatch, rcLevel, rcGroups, rcProofs, rcCommit, rcTime, rcReceipt>>

hashPair(a, b) == {a, b}

NoCommit == [root |-> {}, leaves |-> {}]
Unasked == [content |-> 0]

RcInit ==
    /\ rcBatch \in Batches
    /\ LET ordered == Ascending(ToSet(rcBatch))
       IN  /\ rcLevel = [i \in DOMAIN ordered |-> LeafHash[ordered[i]]]
           /\ rcGroups = [i \in DOMAIN ordered |-> {ordered[i]}]
    /\ rcProofs = [l \in ToSet(rcBatch) |-> <<>>]
    /\ rcCommit = NoCommit
    /\ rcTime \in CommitTimes
    /\ rcReceipt = Unasked

\* Mutant of Halved: the odd node at the end is dropped.
HalvedDown == 1..(Len(rcLevel) \div 2)

Halved == 1..((Len(rcLevel) + 1) \div 2)
paired(i) == 2 * i <= Len(rcLevel)

\* Mutant of parents: an odd node is hashed with itself.
ParentsPaired ==
    [i \in Halved |-> IF paired(i) THEN hashPair(rcLevel[2 * i - 1], rcLevel[2 * i])
                      ELSE hashPair(rcLevel[2 * i - 1], rcLevel[2 * i - 1])]

\* An odd node is promoted unchanged.
parents ==
    [i \in Halved |-> IF paired(i) THEN hashPair(rcLevel[2 * i - 1], rcLevel[2 * i])
                      ELSE rcLevel[2 * i - 1]]

\* One round of buildMerkleTree: each leaf of a pair notes the other side.
BuildLevel ==
    /\ rcCommit = NoCommit /\ Len(rcLevel) > 1
    /\ rcLevel' = parents
    /\ rcGroups' = [i \in Halved |->
                       rcGroups[2 * i - 1]
                           \cup (IF paired(i) THEN rcGroups[2 * i] ELSE {})]
    /\ rcProofs' = [l \in DOMAIN rcProofs |->
           LET at == CHOOSE i \in DOMAIN rcGroups : l \in rcGroups[i]
               other == IF at % 2 = 1 THEN at + 1 ELSE at - 1
           IN  IF other \in DOMAIN rcLevel THEN Append(rcProofs[l], rcLevel[other])
               ELSE rcProofs[l]]
    /\ UNCHANGED <<rcBatch, rcCommit, rcTime, rcReceipt>>

\* recordBatch: the root, and for each report its index and proof.
StoreLeaves ==
    /\ rcCommit = NoCommit /\ Len(rcLevel) = 1
    /\ rcCommit' = [root |-> rcLevel[1],
                    leaves |-> {[report |-> r, proof |-> rcProofs[r]] :
                                    r \in ToSet(rcBatch)}]
    /\ UNCHANGED <<rcBatch, rcLevel, rcGroups, rcProofs, rcTime, rcReceipt>>

-----------------------------------------------------------------------------
(***************************************************************************)
(* buildReceipt and the reader around it.                                  *)
(***************************************************************************)

Askable == ToSet(rcBatch) \cup {Uncommitted}
committed(r) == rcCommit # NoCommit /\ r \in ToSet(rcBatch)

\* What the receipt of r says of its commit.  The API reads the block's time
\* itself and leaves it out when it cannot.
commitOf(r, readable) ==
    IF committed(r)
    THEN [committed |-> TRUE, root |-> rcCommit.root, tx |-> "own",
          time |-> IF readable THEN rcTime ELSE -1,
          proof |-> (CHOOSE l \in rcCommit.leaves : l.report = r).proof]
    ELSE [committed |-> FALSE, root |-> {}, tx |-> "none", time |-> -1,
          proof |-> <<>>]

\* The receipt handed to the verifier: of `content`, with the commit of
\* `other`, asked for as `expected`.  The honest one has the three agree.
Ask ==
    /\ rcReceipt = Unasked
    /\ \E content, other, expected \in Askable, readable \in BOOLEAN, h \in Horizons :
          rcReceipt' = [content |-> content, expected |-> expected, horizon |-> h,
                        commit |-> commitOf(other, readable), other |-> other,
                        eligibility |-> classifyEligibility(0, committed(other),
                            commitOf(other, readable).time, h)]
    /\ UNCHANGED <<rcBatch, rcLevel, rcGroups, rcProofs, rcCommit, rcTime>>

RcNext == BuildLevel \/ StoreLeaves \/ Ask

(***************************************************************************)
(* verify-receipt: the offline checks, the chain's, and the eligibility    *)
(* recomputed from the block time the verifier reads.                      *)
(***************************************************************************)

verifyProof(leaf, proof, root) == FoldLeft(hashPair, leaf, proof) = root

verifyReceiptOffline(r) ==
    /\ r.content = r.expected
    /\ r.commit.committed
    /\ verifyProof(LeafHash[r.content], r.commit.proof, r.commit.root)

\* The claimed transaction emitted the root from the registry.
rootInTxLogs(r) == r.commit.tx = "own" /\ rcCommit.root = r.commit.root

verifyReceiptOnChain(r) == r.commit.committed /\ rootInTxLogs(r)

eligibilityFromChain(r) ==
    classifyEligibility(0, r.commit.committed,
                        IF r.commit.tx = "none" THEN -1 ELSE rcTime, r.horizon)

RcTypeOK ==
    /\ UNION Range(rcGroups) = ToSet(rcBatch)
    /\ Len(rcLevel) = Len(rcGroups)
    /\ DOMAIN rcProofs = ToSet(rcBatch)
    /\ rcReceipt # Unasked => rcReceipt.eligibility \in Eligibilities

\* buildMerkleTree, buildReceipt and verify-receipt, which share no code: a
\* receipt passes every check exactly when its content is a report of the batch
\* that was asked for and its commit part is that report's, and what the API
\* says of its eligibility then is what the chain says, or that it does not know.
ReceiptSound ==
    LET r == rcReceipt
    IN  r # Unasked =>
        /\ (verifyReceiptOffline(r) /\ verifyReceiptOnChain(r)) <=>
               /\ r.content = r.expected /\ r.commit.committed
               /\ r.content \in ToSet(rcBatch)
               /\ r.commit.proof = rcProofs[r.content]
        /\ verifyReceiptOffline(r) =>
               /\ r.eligibility \in {eligibilityFromChain(r), "missing_time"}
               /\ eligibilityFromChain(r) = "eligible" =>
                      rcTime < r.horizon /\ rcTime <= ReplayAfter
=============================================================================
