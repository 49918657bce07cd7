----------------------------- MODULE Eligibility -----------------------------
(***************************************************************************)
(* packages/scoring/src/eligibility.ts: which report-outcome pairs may     *)
(* count.  Both the scorer and the API's receipts use it.  A commit time   *)
(* is the chain's block time, and -1 where it cannot be read.              *)
(***************************************************************************)
EXTENDS Integers

CONSTANT ReplayAfter    \* REPLAY_AFTER_MS

ASSUME EligibilityAssumption == ReplayAfter \in Nat

Eligibilities == {"eligible", "replay", "late", "uncommitted", "missing_time"}

classifyEligibility(reportTime, committed, blockTime, horizonEnd) ==
    CASE ~committed -> "uncommitted"
      [] committed /\ blockTime = -1 -> "missing_time"
      [] committed /\ blockTime # -1 /\ blockTime >= horizonEnd -> "late"
      [] OTHER -> IF blockTime - reportTime > ReplayAfter THEN "replay"
                  ELSE "eligible"

\* fetchedAt is -1 for a scanner that did not answer.
scannerFetchIsTimely(reportTime, fetchedAt) ==
    fetchedAt # -1 /\ fetchedAt - reportTime <= ReplayAfter
=============================================================================
