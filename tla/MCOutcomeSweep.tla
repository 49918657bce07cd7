--------------------------- MODULE MCOutcomeSweep ---------------------------
(***************************************************************************)
(* Small instances of the outcome sweeps: up to four rows of three labels. *)
(***************************************************************************)
EXTENDS OutcomeSweep, TLC

CONSTANTS live, backfill, l1, l2, b1, sell, insider, alive

\* SELL_IMPAIRED, a backlog of two INSIDER rows, and a row of a third label.
MCLabel == [r \in Rows |-> CASE r = 1 -> sell [] r = 4 -> alive [] OTHER -> insider]
MCRank == [l \in Labels |-> CASE l = insider -> 0 [] l = alive -> 2 [] OTHER -> 1]

\* Rows 1 to 3 are of the grid of one report, row 4 of a later one.
MCGrid == [r \in Rows |-> IF r <= 3 THEN 1 ELSE 2]

MCOwner == [s \in Runs |-> IF s = b1 THEN backfill ELSE live]
\* The loop's two runs are interchangeable (the overlap run checks invariants only).
MCRunSymmetry == Permutations({l1, l2})

MCWanted == [o \in Sweepers |-> Rows]
MCFair == [o \in Sweepers |-> o = live]
MCBatch == [o \in Sweepers |-> 2]

\* Two workers in the loop's sweeps; the backfill's worker has a row left over.
MCConcurrency == [o \in Sweepers |-> IF o = live THEN 2 ELSE 1]
MCSerial == [o \in Sweepers |-> 1]

\* Every row applies, or the first report is of a launchpad token.
MCAllApply == Rows
MCApplies == Rows \ {1}
=============================================================================
