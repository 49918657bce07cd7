---- MODULE MCRpcBudget ----
(***************************************************************************)
(* TLC instances of RpcBudget: callers of two tiers, two of them with the  *)
(* same question.                                                          *)
(***************************************************************************)
EXTENDS RpcBudget, TLC

CONSTANTS w1, b1, b2, receipt, block

\* One watcher call and two backfill calls.
MCTier == w1 :> 0 @@ b1 :> 1 @@ b2 :> 1

\* w1 and b1 ask the same question, b2 another one.
MCKey == w1 :> receipt @@ b1 :> receipt @@ b2 :> block
====
