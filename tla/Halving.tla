------------------------------ MODULE Halving ------------------------------
(***************************************************************************)
(* What n rounds of a binary search leave of d blocks.                     *)
(***************************************************************************)
EXTENDS Integers

LeftOf(d, n) ==
    LET left[i \in Nat] == IF i = 0 THEN d ELSE left[i - 1] \div 2
    IN  left[n]
=============================================================================
