------------------------------ MODULE Backfill ------------------------------
(***************************************************************************)
(* The operator's backfill of apps/worker, a script that may be stopped    *)
(* and run again: primary pools are picked anew, blocks are searched for   *)
(* launches chunk by chunk, launches get their T+10m features, and due     *)
(* outcomes are resolved.  Every phase looks at the calls used before an   *)
(* item and not within one, and a scan that outlives its deadline is       *)
(* abandoned, not cancelled: it goes on making calls.                      *)
(***************************************************************************)
EXTENDS Ascending, Sequences, SequencesExt

CONSTANTS
    ChunkPools,     \* the launches a chunk of the window holds, in order
    Known,          \* retrospective launches the database starts with
    CallCaps,       \* --max-calls, 0 for none
    LaunchCaps,     \* --max-launches
    ItemCost,       \* the calls of one item
    BfMaxRuns, BfMaxUsed, BfMaxFailures     \* bounds

ASSUME BackfillAssumption ==
    /\ CallCaps \cup LaunchCaps \cup {ItemCost, BfMaxRuns, BfMaxUsed, BfMaxFailures}
           \subseteq Nat
    /\ ChunkPools \in Seq(Seq(Nat)) /\ Known \subseteq Nat /\ IsFiniteSet(Known)

VARIABLES
    bfOpts,         \* the flags of the run
    bfPhase,
    bfWork,         \* what is left of the phase's items
    bfChunk,        \* the next chunk
    bfIds,          \* launchIds: what this run has ingested
    bfUsed,         \* used()
    bfStopped,      \* result.stoppedEarly
    bfQuiet,        \* sweeps in a row that picked nothing
    bfDone,         \* history: this run's chunks scanned and failed, features tried
    bfOrphans,      \* scans past their deadline and still running
    bfLaunches,     \* the database: retrospective launches
    bfFeatured,     \* those with t10ComputedAt
    bfRuns, bfFailures

bfRun == <<bfOpts, bfPhase, bfWork, bfChunk, bfIds, bfUsed, bfStopped, bfQuiet,
           bfDone, bfOrphans>>
bfVars == <<bfRun, bfLaunches, bfFeatured, bfRuns, bfFailures>>

BfOptions == [repool : BOOLEAN, resolveOnly : BOOLEAN, skipFeatures : BOOLEAN,
            featuresOnly : BOOLEAN, refeature : BOOLEAN,
            maxCalls : CallCaps, maxLaunches : LaunchCaps]
Nothing == [scanned |-> {}, holes |-> {}, tried |-> {}]

BfInit ==
    /\ bfOpts \in BfOptions
    /\ bfPhase = "idle" /\ bfWork = <<>> /\ bfChunk = 1 /\ bfIds = <<>>
    /\ bfUsed = 0 /\ bfStopped = FALSE /\ bfQuiet = 0
    /\ bfDone = Nothing /\ bfOrphans = 0
    /\ bfLaunches = Known /\ bfFeatured = {}
    /\ bfRuns = 0 /\ bfFailures = 0

overBudget == bfOpts.maxCalls > 0 /\ bfUsed >= bfOpts.maxCalls

BfFails ==
    /\ bfFailures < BfMaxFailures
    /\ bfFailures' = bfFailures + 1

\* An item uses up to ItemCost calls.  It ends well, it throws, or its deadline
\* passes and what is left of it goes on.
Calls == \E c \in 0..ItemCost : bfUsed' = bfUsed + c
Ends == UNCHANGED <<bfFailures, bfOrphans>>
Throws == BfFails /\ UNCHANGED bfOrphans
Overruns == BfFails /\ bfOrphans' = bfOrphans + 1

OrphanCalls ==
    /\ bfOrphans > 0
    /\ bfOrphans' \in {bfOrphans, bfOrphans - 1}
    /\ bfUsed < BfMaxUsed /\ bfUsed' = bfUsed + 1
    /\ UNCHANGED <<bfOpts, bfPhase, bfWork, bfChunk, bfIds, bfStopped, bfQuiet,
                   bfDone, bfLaunches, bfFeatured, bfRuns, bfFailures>>

\* The window is fixed, and unless --dry-run the phases follow.
RunStarts ==
    /\ bfPhase = "idle" /\ bfRuns < BfMaxRuns
    /\ bfRuns' = bfRuns + 1
    /\ IF bfOpts.repool
       THEN bfPhase' = "repool" /\ bfWork' = Ascending(bfLaunches)
       ELSE bfPhase' = "discover" /\ bfWork' = <<>>
    /\ UNCHANGED <<bfOpts, bfChunk, bfIds, bfUsed, bfStopped, bfQuiet, bfDone,
                   bfOrphans, bfLaunches, bfFeatured, bfFailures>>

\* pickPrimaryV4Pool for one launch: its pool is not modelled.
Repool ==
    /\ bfPhase = "repool"
    /\ IF bfWork = <<>> \/ overBudget
       THEN /\ bfStopped' = (bfWork # <<>>)
            /\ bfPhase' = "discover" /\ bfWork' = <<>>
            /\ UNCHANGED <<bfUsed, bfFailures, bfOrphans>>
       ELSE /\ Calls /\ (Ends \/ Throws \/ Overruns)
            /\ bfWork' = Tail(bfWork)
            /\ UNCHANGED <<bfPhase, bfStopped>>
    /\ UNCHANGED <<bfOpts, bfChunk, bfIds, bfQuiet, bfDone, bfLaunches,
                   bfFeatured, bfRuns>>

capped == bfOpts.maxLaunches > 0 /\ Len(bfIds) >= bfOpts.maxLaunches

Features(ids) ==
    /\ bfPhase' = "features"
    /\ bfWork' = CASE bfOpts.skipFeatures -> <<>>
                   [] ~bfOpts.skipFeatures /\ bfOpts.resolveOnly ->
                          Ascending(IF bfOpts.refeature THEN bfLaunches
                                    ELSE bfLaunches \ bfFeatured)
                   [] OTHER -> ids

\* detectPools of one chunk; a chunk that fails is passed over.
Discover ==
    /\ bfPhase = "discover"
    /\ IF bfOpts.resolveOnly \/ bfChunk > Len(ChunkPools) \/ overBudget \/ capped
       THEN /\ Features(bfIds)
            /\ UNCHANGED <<bfUsed, bfChunk, bfDone, bfFailures, bfOrphans>>
       ELSE /\ Calls
            /\ bfChunk' = bfChunk + 1
            /\ \/ /\ Ends
                  /\ bfPhase' = "ingest" /\ bfWork' = ChunkPools[bfChunk]
                  /\ bfDone' = [bfDone EXCEPT !.scanned = @ \cup {bfChunk}]
               \/ /\ Throws
                  /\ bfDone' = [bfDone EXCEPT !.holes = @ \cup {bfChunk}]
                  /\ UNCHANGED <<bfPhase, bfWork>>
    /\ UNCHANGED <<bfOpts, bfIds, bfStopped, bfQuiet, bfLaunches, bfFeatured, bfRuns>>

\* ingestPool returns an id only for a launch it has created.
Ingest ==
    /\ bfPhase = "ingest"
    /\ IF bfWork = <<>> \/ overBudget \/ capped
       THEN /\ bfPhase' = "discover" /\ bfWork' = <<>>
            /\ UNCHANGED <<bfIds, bfUsed, bfLaunches, bfFailures, bfOrphans>>
       ELSE LET l == Head(bfWork)
            IN  /\ Calls
                /\ bfWork' = Tail(bfWork)
                /\ \/ /\ Ends
                      /\ bfLaunches' = bfLaunches \cup {l}
                      /\ bfIds' = IF l \in bfLaunches THEN bfIds
                                  ELSE Append(bfIds, l)
                   \/ Throws /\ UNCHANGED <<bfIds, bfLaunches>>
                /\ UNCHANGED bfPhase
    /\ UNCHANGED <<bfOpts, bfChunk, bfStopped, bfQuiet, bfDone, bfFeatured, bfRuns>>

\* runT10ForLaunch of one launch.
Feature ==
    /\ bfPhase = "features"
    /\ IF bfWork = <<>> \/ overBudget
       THEN /\ bfStopped' = (bfStopped \/ bfWork # <<>>)
            /\ bfPhase' = IF bfOpts.featuresOnly THEN "report" ELSE "outcomes"
            /\ bfWork' = <<>>
            /\ UNCHANGED <<bfUsed, bfDone, bfFeatured, bfFailures, bfOrphans>>
       ELSE LET l == Head(bfWork)
            IN  /\ Calls
                /\ bfWork' = Tail(bfWork)
                /\ \/ Ends /\ bfFeatured' = bfFeatured \cup {l}
                   \/ (Throws \/ Overruns) /\ UNCHANGED bfFeatured
                /\ bfDone' = [bfDone EXCEPT !.tried = @ \cup {l}]
                /\ UNCHANGED <<bfPhase, bfStopped>>
    /\ UNCHANGED <<bfOpts, bfChunk, bfIds, bfQuiet, bfLaunches, bfRuns>>

\* sweepDueOutcomes until two sweeps in a row pick nothing.
Outcomes ==
    /\ bfPhase = "outcomes"
    /\ IF overBudget \/ bfQuiet = 2
       THEN bfPhase' = "report" /\ UNCHANGED <<bfUsed, bfQuiet>>
       ELSE /\ \/ bfQuiet' = bfQuiet + 1 /\ UNCHANGED bfUsed
               \/ /\ bfQuiet' = 0 /\ bfUsed < BfMaxUsed
                  /\ \E c \in 1..ItemCost : bfUsed' = bfUsed + c
            /\ UNCHANGED bfPhase
    /\ UNCHANGED <<bfOpts, bfWork, bfChunk, bfIds, bfStopped, bfDone, bfOrphans,
                   bfLaunches, bfFeatured, bfRuns, bfFailures>>

\* Mutant of Report: the budget is not looked at once more.
ReportPhasesOnly ==
    /\ bfPhase = "report"
    /\ bfPhase' = "done"
    /\ UNCHANGED <<bfOpts, bfWork, bfChunk, bfIds, bfUsed, bfStopped, bfQuiet,
                   bfDone, bfOrphans, bfLaunches, bfFeatured, bfRuns, bfFailures>>

\* The result the script prints.
Report ==
    /\ bfPhase = "report"
    /\ bfPhase' = "done"
    /\ bfStopped' = (bfStopped \/ overBudget)
    /\ UNCHANGED <<bfOpts, bfWork, bfChunk, bfIds, bfUsed, bfQuiet, bfDone,
                   bfOrphans, bfLaunches, bfFeatured, bfRuns, bfFailures>>

\* The script has ended, or is killed; the next run has flags of its own.
RunEnds ==
    /\ \/ bfPhase = "done" /\ UNCHANGED bfFailures
       \/ bfPhase \notin {"idle", "report", "done"} /\ BfFails
    /\ bfOpts' \in BfOptions
    /\ bfPhase' = "idle" /\ bfWork' = <<>> /\ bfChunk' = 1 /\ bfIds' = <<>>
    /\ bfUsed' = 0 /\ bfStopped' = FALSE /\ bfQuiet' = 0
    /\ bfDone' = Nothing /\ bfOrphans' = 0
    /\ UNCHANGED <<bfLaunches, bfFeatured, bfRuns>>

BfNext ==
    \/ RunStarts \/ Repool \/ Discover \/ Ingest \/ Feature \/ Outcomes
    \/ OrphanCalls \/ Report \/ RunEnds

BfTypeOK ==
    /\ bfOpts \in BfOptions
    /\ bfFeatured \subseteq bfLaunches
    /\ bfDone.tried \subseteq bfLaunches
    /\ ToSet(bfIds) \subseteq bfLaunches

\* runBackfill: a run that says it was not stopped early left nothing out in
\* silence.  It searched every chunk but those it logged as failed, unless it
\* found --max-launches; it tried the features of every launch it created, and
\* with --resolve-only of every launch without; it swept until nothing was due.
NothingLeftOut ==
    bfPhase = "done" /\ ~bfStopped =>
        /\ bfOpts.resolveOnly \/ capped
               \/ bfDone.scanned \cup bfDone.holes = DOMAIN ChunkPools
        /\ bfOpts.skipFeatures \/ ToSet(bfIds) \subseteq bfDone.tried
        /\ bfOpts.resolveOnly /\ ~bfOpts.skipFeatures =>
               bfLaunches \subseteq bfFeatured \cup bfDone.tried
        /\ bfOpts.featuresOnly \/ bfQuiet = 2
=============================================================================
