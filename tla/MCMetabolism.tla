---------------------------- MODULE MCMetabolism ----------------------------
(***************************************************************************)
(* Small instances of the metabolism: one day, one launch, three dives.   *)
(***************************************************************************)
EXTENDS DeepDive
=============================================================================
