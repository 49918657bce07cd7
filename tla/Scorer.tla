------------------------------- MODULE Scorer -------------------------------
(***************************************************************************)
(* The benchmark snapshot of apps/worker.  Every interval two passes, over *)
(* all rows and over the live ones, read the outcomes, then the reports    *)
(* with their commits, then the block times through one cache of requests, *)
(* while sweeps resolve outcomes and the commit job anchors reports.  A    *)
(* launch stands for its one observation, a commit for its block's time,   *)
(* and a horizon for the one outcome label.                                *)
(***************************************************************************)
EXTENDS Eligibility, FiniteSets, Sequences

CONSTANTS
    ScReports,      \* [fc, launch, prob], in the order they are read
    ScAnchor,       \* launch -> report time
    ScTruth,        \* launch -> the label its outcome resolves to
    ScRetro,        \* retrospective launches
    ScGraded,       \* launches whose outcome is resolved at the start
    ScHorizon,
    ScCommits,      \* report -> the block times its commit may get, -1 for none
    ScFetches,      \* launch -> when a scanner may have been asked, -1 for never
    Trailing,       \* THIRTY_DAYS_MS
    ProbUnit,       \* a probability of one
    MinForMetrics, MinForClaims, MinPositives,
    ScMaxSnapshots, ScMaxFailures   \* bounds

ScLaunches == DOMAIN ScAnchor
Reference == "det_v0"
\* Forecasters whose rows are made by the tick; no report of theirs is stored.
Computed == {"base_rate", "base_rate_fixed", "scanhood"}
Baselines == {"base_rate", "base_rate_fixed", "heuristic_v1"}
Scopes == {"both", "live"}
BlockTimes == UNION {ScCommits[r] : r \in DOMAIN ScReports} \ {-1}

ASSUME ScorerAssumption ==
    /\ {Trailing, ProbUnit, MinForMetrics, MinForClaims, MinPositives,
        ScHorizon, ScMaxSnapshots, ScMaxFailures} \subseteq Nat
    /\ IsFiniteSet(ScLaunches) /\ ScRetro \cup ScGraded \subseteq ScLaunches
    /\ ScReports \in Seq([fc : STRING \ Computed, launch : ScLaunches,
                          prob : 0..ProbUnit])
    /\ ScAnchor \in [ScLaunches -> Nat] /\ ScTruth \in [ScLaunches -> BOOLEAN]
    /\ ScCommits \in [DOMAIN ScReports -> SUBSET (Nat \cup {-1})]
    /\ ScFetches \in [ScLaunches -> SUBSET (Nat \cup {-1})]

VARIABLES
    scCommit,       \* report -> block time of its commit, -1 for none
    scFetched,      \* launch -> scanhoodFetchedAt
    scResolved,     \* launches whose outcome is RESOLVED
    scCache,        \* blockTimeCache: block -> "none", "asked" or "known"
    scPass,         \* scope -> the pass over it
    scSnapshot,     \* the BenchmarkSnapshot row
    scTicks, scFailures

scVars == <<scCommit, scFetched, scResolved, scCache, scPass, scSnapshot,
            scTicks, scFailures>>

\* seen: the outcomes read.  commits: the reports' commits as read.  times: the
\* block times got so far, -1 for a request that failed.
Idle == [at |-> "idle", seen |-> {}, commits |-> <<>>, times |-> <<>>, pairs |-> {}]
NoSnapshot == [all |-> {}, live |-> {}, claims |-> {}]

ScInit ==
    /\ scCommit \in [DOMAIN ScReports -> BlockTimes \cup {-1}]
    /\ \A r \in DOMAIN ScReports : scCommit[r] \in ScCommits[r]
    /\ scFetched \in [ScLaunches -> UNION {ScFetches[l] : l \in ScLaunches}]
    /\ \A l \in ScLaunches : scFetched[l] \in ScFetches[l]
    /\ scResolved = ScGraded
    /\ scCache = [b \in BlockTimes |-> "none"]
    /\ scPass = [s \in Scopes |-> Idle]
    /\ scSnapshot = NoSnapshot
    /\ scTicks = 0 /\ scFailures = 0

-----------------------------------------------------------------------------
\* The pairs a pass makes of what it has read.

Rate(S) == LET pos == {l \in S : ScTruth[l]}
           IN  IF S = {} THEN 0 ELSE (ProbUnit * Cardinality(pos)) \div Cardinality(S)

\* Only anchors are compared: a label may be one whose horizon ended later.
trailingBaseRate(seen, launch) ==
    LET before == {l \in seen : ScAnchor[l] < ScAnchor[launch]}
        window == {l \in before : ScAnchor[l] >= ScAnchor[launch] - Trailing}
    IN  Rate(IF window = {} THEN before ELSE window)

\* A report's own class.
reportClass(pass, r) ==
    LET l == ScReports[r].launch
        block == pass.commits[r]
    IN  classifyEligibility(ScAnchor[l], block # -1,
            IF block = -1 THEN -1 ELSE pass.times[block], ScAnchor[l] + ScHorizon)

\* refClass: the class of the launch's first det_v0 report.
refClass(pass, launch) ==
    LET refs == {r \in DOMAIN ScReports :
                     ScReports[r].fc = Reference /\ ScReports[r].launch = launch}
    IN  IF refs = {} THEN "uncommitted"
        ELSE reportClass(pass, CHOOSE r \in refs : \A q \in refs : r <= q)

Pair(fc, l, r, prob, class) ==
    [fc |-> fc, launch |-> l, report |-> r, prob |-> prob, label |-> ScTruth[l],
     class |-> class]

reportPairs(pass) ==
    {LET r == ScReports[i] IN Pair(r.fc, r.launch, i, r.prob, reportClass(pass, i)) :
        i \in {j \in DOMAIN ScReports : ScReports[j].launch \in pass.seen}}

basePairs(pass) ==
    {Pair("base_rate", l, 0, trailingBaseRate(pass.seen, l), refClass(pass, l)) :
        l \in pass.seen}
    \cup {Pair("base_rate_fixed", l, 0, Rate(pass.seen), refClass(pass, l)) :
        l \in pass.seen}

\* Mutant of scannerClass: the fetch may be as late as it likes.
scannerClassUntimed(pass, l) == refClass(pass, l)

scannerClass(pass, l) ==
    IF refClass(pass, l) = "eligible" /\ ~scannerFetchIsTimely(ScAnchor[l], scFetched[l])
    THEN "replay" ELSE refClass(pass, l)

\* A scanner's fixed map, for the launches with a report that it was asked about:
\* what a failed fetch stores is mapped like an answer.
scannerPairs(pass) ==
    {Pair("scanhood", l, 0, ProbUnit, scannerClass(pass, l)) :
        l \in {l \in pass.seen :
                  /\ scFetched[l] # -1
                  /\ \E r \in DOMAIN ScReports : ScReports[r].launch = l}}

rows(pairs) == {p \in pairs : p.class = "eligible"}

-----------------------------------------------------------------------------
\* A forecaster's cell.  Twice the AUROC's numerator, ties counting one half.
Wins(S) ==
    LET mixed == {x \in S \X S : x[1].label /\ ~x[2].label}
        better == {x \in mixed : x[1].prob > x[2].prob}
        even == {x \in mixed : x[1].prob = x[2].prob}
    IN  2 * Cardinality(better) + Cardinality(even)

Positives(S) == Cardinality({p \in S : p.label})
Negatives(S) == Cardinality(S) - Positives(S)

\* alignByObs: a row with the baseline's row of its launch.
alignByObs(A, B) == {x \in A \X B : x[1].launch = x[2].launch}

\* Whether cell() may allow the claim that fc beats base: the p-value decides the
\* rest.
mayClaim(R, fc, base) ==
    LET A == {p \in R : p.fc = fc}
        paired == alignByObs(A, {p \in R : p.fc = base})
        own == {x[1] : x \in paired}
        theirs == {[x[2] EXCEPT !.report = x[1].report] : x \in paired}
    IN  /\ fc # base
        /\ Cardinality(A) >= MinForMetrics
        /\ Cardinality(paired) >= MinForClaims
        /\ Positives(own) >= MinPositives
        /\ Positives(own) >= 2 /\ Negatives(own) >= 2
        /\ Wins(A) > Positives(A) * Negatives(A)
        /\ Wins(own) > Wins(theirs)

Claims(R) == {c \in {p.fc : p \in R} \X Baselines : mayClaim(R, c[1], c[2])}

-----------------------------------------------------------------------------
\* What the sweeps and the commit job do meanwhile.
OutcomeResolves ==
    /\ \E l \in ScLaunches \ scResolved : scResolved' = scResolved \cup {l}
    /\ UNCHANGED <<scCommit, scFetched, scCache, scPass, scSnapshot, scTicks, scFailures>>

CommitLands ==
    /\ \E r \in DOMAIN ScReports :
           /\ scCommit[r] = -1
           /\ \E t \in ScCommits[r] \ {-1} : scCommit' = [scCommit EXCEPT ![r] = t]
    /\ UNCHANGED <<scFetched, scResolved, scCache, scPass, scSnapshot, scTicks, scFailures>>

\* The loop starts the two passes together.
TickStarts ==
    /\ \A s \in Scopes : scPass[s].at = "idle"
    /\ scTicks < ScMaxSnapshots /\ scTicks' = scTicks + 1
    /\ scPass' = [s \in Scopes |-> [Idle EXCEPT !.at = "outcomes"]]
    /\ UNCHANGED <<scCommit, scFetched, scResolved, scCache, scSnapshot, scFailures>>

ReadOutcomes(s) ==
    /\ scPass[s].at = "outcomes"
    /\ LET seen == IF s = "live" THEN scResolved \ ScRetro ELSE scResolved
       IN  scPass' = [scPass EXCEPT ![s] =
               [@ EXCEPT !.seen = seen, !.at = IF seen = {} THEN "done" ELSE "reports"]]
    /\ UNCHANGED <<scCommit, scFetched, scResolved, scCache, scSnapshot, scTicks, scFailures>>

\* The blocks of a scored report's commit.
Blocks(pass, commits) ==
    {commits[r] : r \in {q \in DOMAIN ScReports :
                            commits[q] # -1 /\ ScReports[q].launch \in pass.seen}}

\* The reports are read and every block asked for that the cache has no request of.
ReadReports(s) ==
    /\ scPass[s].at = "reports"
    /\ LET blocks == Blocks(scPass[s], scCommit)
       IN  /\ scCache' = [b \in BlockTimes |->
                  IF b \in blocks /\ scCache[b] = "none" THEN "asked" ELSE scCache[b]]
           /\ scPass' = [scPass EXCEPT ![s] =
                  [@ EXCEPT !.commits = scCommit, !.at = "times",
                            !.times = [b \in {b \in blocks : scCache[b] = "known"} |-> b]]]
    /\ UNCHANGED <<scCommit, scFetched, scResolved, scSnapshot, scTicks, scFailures>>

Waiting(pass) == Blocks(pass, pass.commits) \ DOMAIN pass.times

\* A request ends: the passes that share it get the time or a null, and a failure
\* is evicted.
BlockAnswers(b, ok) ==
    /\ scCache[b] = "asked"
    /\ IF ok THEN UNCHANGED scFailures
       ELSE scFailures < ScMaxFailures /\ scFailures' = scFailures + 1
    /\ scCache' = [scCache EXCEPT ![b] = IF ok THEN "known" ELSE "none"]
    /\ scPass' = [s \in Scopes |->
           IF scPass[s].at = "times" /\ b \in Waiting(scPass[s])
           THEN [scPass[s] EXCEPT !.times =
                    [c \in DOMAIN @ \cup {b} |->
                        IF c # b THEN scPass[s].times[c] ELSE IF ok THEN b ELSE -1]]
           ELSE scPass[s]]
    /\ UNCHANGED <<scCommit, scFetched, scResolved, scSnapshot, scTicks>>

\* The rest of collectScoreRows.
Collect(s) ==
    /\ scPass[s].at = "times" /\ Waiting(scPass[s]) = {}
    /\ LET pass == scPass[s]
       IN  scPass' = [scPass EXCEPT ![s] =
               [Idle EXCEPT !.at = "done",
                    !.pairs = reportPairs(pass) \cup basePairs(pass) \cup scannerPairs(pass)]]
    /\ UNCHANGED <<scCommit, scFetched, scResolved, scCache, scSnapshot, scTicks, scFailures>>

\* Both passes have ended: the table is made of them and stored.
Publish ==
    /\ \A s \in Scopes : scPass[s].at = "done"
    /\ \E claims \in SUBSET Claims(rows(scPass["both"].pairs)) :
           scSnapshot' = [all |-> scPass["both"].pairs, live |-> scPass["live"].pairs,
                          claims |-> claims]
    /\ scPass' = [s \in Scopes |-> Idle]
    /\ UNCHANGED <<scCommit, scFetched, scResolved, scCache, scTicks, scFailures>>

\* A read throws or the store does: the last snapshot stays.
TickFails ==
    /\ \E s \in Scopes : scPass[s].at # "idle"
    /\ scFailures < ScMaxFailures /\ scFailures' = scFailures + 1
    /\ scPass' = [s \in Scopes |-> Idle]
    /\ UNCHANGED <<scCommit, scFetched, scResolved, scCache, scSnapshot, scTicks>>

ScNext ==
    \/ OutcomeResolves \/ CommitLands \/ TickStarts \/ Publish \/ TickFails
    \/ \E s \in Scopes : ReadOutcomes(s) \/ ReadReports(s) \/ Collect(s)
    \/ \E b \in BlockTimes, ok \in BOOLEAN : BlockAnswers(b, ok)

-----------------------------------------------------------------------------
ScTypeOK ==
    /\ \A r \in DOMAIN ScReports : scCommit[r] \in ScCommits[r]
    /\ scResolved \subseteq ScLaunches
    /\ scCache \in [BlockTimes -> {"none", "asked", "known"}]
    /\ \A s \in Scopes : scPass[s].at \in {"idle", "outcomes", "reports", "times", "done"}
    /\ \A p \in scSnapshot.all \cup scSnapshot.live : p.class \in Eligibilities

\* The launch had a forecast of fc on the chain, in time.
Anchored(fc, l) ==
    \E r \in DOMAIN ScReports :
        /\ ScReports[r].fc = fc /\ ScReports[r].launch = l
        /\ scCommit[r] \in 0..(ScAnchor[l] + ScHorizon - 1)
        /\ scCommit[r] - ScAnchor[l] <= ReplayAfter

\* collectScoreRows: a published row is a forecast that was on the chain before its
\* outcome, and soon after the time it names; a baseline's row goes with an anchored
\* det_v0 forecast that is in the table too, and a scanner's was fetched in time.
\* The live table has no backfilled row, and a claim is made of rows both
\* forecasters have, with outcomes of both kinds.
ScoresEarned ==
    /\ \A p \in rows(scSnapshot.all \cup scSnapshot.live) :
           /\ p.launch \in scResolved /\ p.label = ScTruth[p.launch]
           /\ Anchored(IF p.fc \in Computed THEN Reference ELSE p.fc, p.launch)
           /\ p.fc = "scanhood" =>
                  scFetched[p.launch] \in 0..(ScAnchor[p.launch] + ReplayAfter)
    /\ \A T \in {rows(scSnapshot.all), rows(scSnapshot.live)} : \A p \in T :
           p.fc \in Computed => \E q \in T : q.fc = Reference /\ q.launch = p.launch
    /\ \A p \in scSnapshot.live : p.launch \notin ScRetro
    /\ \A c \in scSnapshot.claims :
           LET of(fc) == {p.launch : p \in {q \in rows(scSnapshot.all) : q.fc = fc}}
               shared == of(c[1]) \cap of(c[2])
           IN  {ScTruth[l] : l \in shared} = BOOLEAN
=============================================================================
