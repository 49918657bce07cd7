---- MODULE MCCommitJob ----
(***************************************************************************)
(* TLC instances of CommitJob: the worker alone, and the worker beside a   *)
(* concurrent `pnpm commit:run`.                                           *)
(***************************************************************************)
EXTENDS CommitJob
====
