----------------------------- MODULE MCWatcher -----------------------------
(***************************************************************************)
(* Small instances of the index lane: up to three pools in three blocks.   *)
(***************************************************************************)
EXTENDS Watcher

CONSTANTS worker, replayer, p1, p2, p3, t1, t2, t3, alice,
    SameToken       \* p3 is a second pool of p2's token

MCBlockOf ==
    [d \in Pools |-> CASE d = p1 -> 1 [] d = p2 -> 2 [] d = p3 -> 3]

MCTokenOf ==
    [d \in Pools |-> CASE d = p1 -> t1
                       [] d = p2 -> t2
                       [] d = p3 -> IF SameToken THEN t2 ELSE t3]

MCCreatorOf == [d \in Pools |-> alice]

\* The worker advances two blocks in a poll, the replay three.
MCMaxSpan == [p \in Procs |-> IF p = Live THEN 2 ELSE 3]
=============================================================================
