---------------------------- MODULE ReportAnchor ----------------------------
(***************************************************************************)
(* What the commit pipeline promises about a report, without passes,       *)
(* receipts, slots or crashes: roots appear on chain, and a set of         *)
(* reports none of which is anchored yet becomes anchored, all together,   *)
(* to a root that is on chain and is the root of exactly that set.         *)
(* Nothing is ever re-anchored.                                            *)
(***************************************************************************)
CONSTANT Reports

VARIABLES
    roots,      \* the leaf sets whose root is in a BatchCommitted event
    anchor      \* the leaf set a report's receipt proves it in, {} for none

vars == <<roots, anchor>>

Init ==
    /\ roots = {}
    /\ anchor = [r \in Reports |-> {}]

Publish(S) ==
    /\ roots' = roots \union {S}
    /\ UNCHANGED anchor

Attach(S) ==
    /\ S \in roots
    /\ \A r \in S : anchor[r] = {}
    /\ anchor' = [r \in Reports |-> IF r \in S THEN S ELSE anchor[r]]
    /\ UNCHANGED roots

Next == \E S \in SUBSET Reports : Publish(S) \/ Attach(S)

Spec == Init /\ [][Next]_vars
=============================================================================
