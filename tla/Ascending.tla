----------------------------- MODULE Ascending -----------------------------
(***************************************************************************)
(* What the code asks the database for with orderBy: the numbers of a      *)
(* finite set in ascending order.                                          *)
(***************************************************************************)
EXTENDS Integers, FiniteSets

Increasing(s) == \A i, j \in DOMAIN s : i < j => s[i] < s[j]
Ascending(S) == CHOOSE s \in [1..Cardinality(S) -> S] : Increasing(s)
=============================================================================
