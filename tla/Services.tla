------------------------------ MODULE Services ------------------------------
(***************************************************************************)
(* The services around the pipeline's core, which share no state with one  *)
(* another: a behaviour is that of one of them, the others resting in one  *)
(* initial state.                                                          *)
(***************************************************************************)
EXTENDS Artifacts, Receipts, LifecycleLog, CreditActivation, Notifications,
        Backfill, Scorer, Resolvers, Features

VARIABLE part
vars == <<part, artVars, rcVars, llVars, acVars, ntVars, bfVars, scVars, rvVars, ftVars>>

One(S) == CHOOSE x \in S : TRUE
Rests(p, rest) == part = p \/ rest

Init ==
    /\ part \in {"artifacts", "receipts", "log", "activation", "feed", "alerts", "backfill",
                 "scorer", "resolvers", "features"}
    /\ Rests("receipts", rcBatch = One(Batches) /\ rcTime = One(CommitTimes))
    /\ Rests("log", llAhead = [w \in Writers |-> 0])
    /\ Rests("activation", acWarm = TRUE)
    /\ Rests("backfill", bfOpts = One(BfOptions))
    /\ Rests("scorer", /\ scCommit = [r \in DOMAIN ScReports |-> One(ScCommits[r])]
                       /\ scFetched = [l \in ScLaunches |-> One(ScFetches[l])])
    /\ Rests("resolvers", rvHead = One(RvHeads) /\ rvRow = Unlinked)
    /\ Rests("features", ftWorld = One(FtWorlds) /\ ftHead = One(FtHeads))
    /\ ArtInit /\ RcInit /\ LlInit /\ AcInit /\ NtInit /\ BfInit /\ ScInit /\ RvInit /\ FtInit

Next ==
    \/ /\ part = "artifacts" /\ ArtNext
       /\ UNCHANGED <<part, rcVars, llVars, acVars, ntVars, bfVars, scVars, rvVars, ftVars>>
    \/ /\ part = "receipts" /\ RcNext
       /\ UNCHANGED <<part, artVars, llVars, acVars, ntVars, bfVars, scVars, rvVars, ftVars>>
    \/ /\ part = "log" /\ LlNext
       /\ UNCHANGED <<part, artVars, rcVars, acVars, ntVars, bfVars, scVars, rvVars, ftVars>>
    \/ /\ part = "activation" /\ AcNext
       /\ UNCHANGED <<part, artVars, rcVars, llVars, ntVars, bfVars, scVars, rvVars, ftVars>>
    \/ /\ part = "feed" /\ FeedNext
       /\ UNCHANGED <<part, artVars, rcVars, llVars, acVars, bfVars, scVars, rvVars, ftVars>>
    \/ /\ part = "alerts" /\ AlertsNext
       /\ UNCHANGED <<part, artVars, rcVars, llVars, acVars, bfVars, scVars, rvVars, ftVars>>
    \/ /\ part = "backfill" /\ BfNext
       /\ UNCHANGED <<part, artVars, rcVars, llVars, acVars, ntVars, scVars, rvVars, ftVars>>
    \/ /\ part = "scorer" /\ ScNext
       /\ UNCHANGED <<part, artVars, rcVars, llVars, acVars, ntVars, bfVars, rvVars, ftVars>>
    \/ /\ part = "resolvers" /\ RvNext
       /\ UNCHANGED <<part, artVars, rcVars, llVars, acVars, ntVars, bfVars, scVars, ftVars>>
    \/ /\ part = "features" /\ FtNext
       /\ UNCHANGED <<part, artVars, rcVars, llVars, acVars, ntVars, bfVars, scVars, rvVars>>

Spec == Init /\ [][Next]_vars

-----------------------------------------------------------------------------
\* Every state is in its component's types.
ServicesTypeOK ==
    /\ ArtTypeOK /\ RcTypeOK /\ LlTypeOK /\ AcTypeOK /\ NtTypeOK
    /\ BfTypeOK /\ ScTypeOK /\ RvTypeOK /\ FtTypeOK
=============================================================================
