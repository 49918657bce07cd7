------------------------------ MODULE Features ------------------------------
(***************************************************************************)
(* The T+10m job of one launch, run and rerun: the primary pool is picked  *)
(* again, then buyers, creator cluster, ages, holders, side pools and the  *)
(* scanners are read, each read tolerating its own failure, and the row is *)
(* written in one transaction.  -1 stands for null.                        *)
(***************************************************************************)
EXTENDS Halving, FiniteSets, Sequences, SequencesExt

CONSTANTS
    FtWorlds,       \* what the chain may hold of the token: [v4, pools, moves,
                    \* deploy, firstTx, decimals], pools as [init, known, suspect,
                    \* standard, swaps]; decimals of the quote, -1: a native one or none
    FtHeads,        \* where the chain's head may be
    LaunchBlock, T10Blocks, ScanBlocks,     \* blocksIn10m, scanBlocks
    FreshBlocks,    \* FRESH_LAUNCH_WINDOW_BLOCKS
    AgeIters, NonceIters, ProbeLimit,
    MaxT10Logs, MaxHolderLogs, TopHolders,
    Supply, QualifyBuyers, Locked,
    FtMaxRuns, FtMaxFailures    \* bounds

ASSUME FeaturesAssumption ==
    /\ {LaunchBlock, T10Blocks, ScanBlocks, FreshBlocks, AgeIters - 2, NonceIters,
        ProbeLimit, MaxT10Logs, MaxHolderLogs, TopHolders, QualifyBuyers, FtMaxRuns,
        FtMaxFailures} \subseteq Nat
    /\ Supply \in Nat \ {0} /\ Locked \in BOOLEAN
    /\ \A h \in FtHeads : h \in Nat /\ h >= LaunchBlock
    /\ FtWorlds \subseteq
           [v4 : BOOLEAN, deploy : 0..LaunchBlock, firstTx : -1..LaunchBlock,
            decimals : Nat \cup {-1},
            pools : Seq([init : Nat, known : BOOLEAN, suspect : BOOLEAN,
                         standard : BOOLEAN, swaps : Nat]),
            moves : Seq([block : Nat, from : STRING, to : STRING, value : Nat])]
    /\ \A w \in FtWorlds : w.pools # <<>> /\ w.pools[1].init = LaunchBlock

VARIABLES
    ftWorld, ftHead,
    ftLaunch,       \* the launch row: pool, tokenAge, qualified
    ftFeature,      \* the feature row
    ftMembers,      \* clusterMember rows: [address, rule]
    ftComputed,     \* t10ComputedAt, by where the head was when its job began
    ftReports,      \* the feature vectors reports were made of
    ftJob,          \* the running job: where it is and its local variables
    ftDecimals,     \* decimalsCache, the launch's quote; -1: not there
    ftRuns, ftFailures

ftRow == <<ftLaunch, ftFeature, ftMembers, ftComputed>>
ftChain == <<ftWorld, ftHead>>
ftVars == <<ftChain, ftRow, ftReports, ftJob, ftDecimals, ftRuns, ftFailures>>

Unread == [buyers |-> -1, creatorAge |-> -1, clusterSize |-> -1, clusterSupply |-> -1,
           top10 |-> -1, sidePools |-> -1, sellable |-> -1, impact |-> -1]
\* began: where the head really was when the job began, for the property.
NoJob == [at |-> "idle", head |-> -1, began |-> -1, features |-> Unread,
          members |-> {}, partial |-> {}]

FtInit ==
    /\ ftWorld \in FtWorlds /\ ftHead \in FtHeads
    /\ ftLaunch = [pool |-> 1, tokenAge |-> -1, qualified |-> FALSE]
    /\ ftFeature = Unread /\ ftMembers = {} /\ ftComputed = -1
    /\ ftReports = {} /\ ftJob = NoJob
    /\ ftDecimals = -1 /\ ftRuns = 0 /\ ftFailures = 0

Fails ==
    /\ ftFailures < FtMaxFailures
    /\ ftFailures' = ftFailures + 1

\* What is there of a range up to the block.
Reached(block) == IF block > ftHead THEN ftHead ELSE block

\* A read fails, or asks past the head of a node that will not clamp the range.
ReadFails(block) == Fails \/ (block > ftHead /\ UNCHANGED ftFailures)

BlocksMined ==
    /\ ftHead' \in {h \in FtHeads : h > ftHead}
    /\ UNCHANGED <<ftWorld, ftRow, ftReports, ftJob, ftDecimals, ftRuns, ftFailures>>

Clamp(block) == IF ftJob.head # -1 /\ block > ftJob.head THEN ftJob.head ELSE block
WindowEnd == LaunchBlock + T10Blocks
toBlock == Clamp(WindowEnd)
Moves(from, to) ==
    {i \in DOMAIN ftWorld.moves : ftWorld.moves[i].block \in from..to}
Value(S) == SumFunctionOnSet([i \in DOMAIN ftWorld.moves |-> ftWorld.moves[i].value], S)

\* From one step of the job to the next, with what it read.
Goes(at, job) == ftJob' = [job EXCEPT !.at = at]
Reads(at, features) == Goes(at, [ftJob EXCEPT !.features = features])

-----------------------------------------------------------------------------
\* pickPrimaryV4Pool.
Pools == ftWorld.pools
scanTo == Clamp(LaunchBlock + ScanBlocks)
Cand == {i \in DOMAIN Pools : Pools[i].init \in LaunchBlock..Reached(scanTo)}

\* rankCandidates, with the swaps known of some.
Ahead(a, b, swaps) ==
    LET p == Pools[a]
        q == Pools[b]
        n(i) == IF i \in DOMAIN swaps THEN swaps[i] ELSE -1
    IN  CASE p.known # q.known -> p.known
          [] p.known = q.known /\ p.suspect # q.suspect -> q.suspect
          [] p.known = q.known /\ p.suspect = q.suspect /\ p.standard # q.standard ->
                 p.standard
          [] OTHER -> IF n(a) # n(b) THEN n(a) > n(b)
                      ELSE IF p.init # q.init THEN p.init < q.init ELSE a < b
Rank(i, S, swaps) == Cardinality({j \in S : Ahead(j, i, swaps)})

Contenders == {i \in Cand : Pools[i].known /\ ~Pools[i].suspect}
Probed == IF Cardinality(Contenders) < 2 THEN {}
          ELSE {i \in Contenders : Rank(i, Contenders, <<>>) < ProbeLimit}

\* poolActivity: a probe that failed counts no swap.
activity(i, missed) == IF i \in missed THEN 0 ELSE Pools[i].swaps
chosen(missed) ==
    CHOOSE i \in Cand : Rank(i, Cand, [j \in Probed |-> activity(j, missed)]) = 0

T10Starts ==
    /\ ftJob.at = "idle" /\ ftRuns < FtMaxRuns /\ ftRuns' = ftRuns + 1
    /\ \E head \in {ftHead, -1} :
          /\ ftJob' = [NoJob EXCEPT !.at = "pool", !.head = head, !.began = ftHead]
          /\ IF head = -1 THEN Fails ELSE UNCHANGED ftFailures
    /\ UNCHANGED <<ftChain, ftRow, ftReports, ftDecimals>>

\* The launch row is rewritten at once; if the scan throws it keeps its pool.
PickPool ==
    /\ ftJob.at = "pool" /\ Goes("buyers", ftJob)
    /\ \/ /\ ftWorld.v4
          /\ \E missed \in SUBSET Probed :
                 /\ IF missed = {} THEN UNCHANGED ftFailures ELSE Fails
                 /\ ftLaunch' = [ftLaunch EXCEPT !.pool = chosen(missed)]
       \/ ftWorld.v4 /\ ReadFails(scanTo) /\ UNCHANGED ftLaunch
       \/ ~ftWorld.v4 /\ UNCHANGED <<ftLaunch, ftFailures>>
    /\ UNCHANGED <<ftChain, ftFeature, ftMembers, ftComputed, ftReports, ftDecimals, ftRuns>>

-----------------------------------------------------------------------------
\* The features.
Buys == {i \in Moves(LaunchBlock, Reached(toBlock)) : ftWorld.moves[i].from = "pool"}

Buyers ==
    /\ ftJob.at = "buyers"
    /\ \/ /\ Reads("launch_block", [ftJob.features EXCEPT !.buyers =
                 IF Cardinality(Buys) > MaxT10Logs THEN -1
                 ELSE Cardinality({ftWorld.moves[i].to : i \in Buys})])
          /\ UNCHANGED ftFailures
       \/ ReadFails(toBlock) /\ Goes("launch_block", ftJob)
    /\ UNCHANGED <<ftChain, ftRow, ftReports, ftDecimals, ftRuns>>

Member(i, rule) == [address |-> ftWorld.moves[i].to, rule |-> rule]
LaunchBuyers ==
    {Member(i, "LAUNCH_BLOCK_BUY") :
        i \in {j \in Moves(LaunchBlock, LaunchBlock) :
                  /\ ftWorld.moves[j].from = "pool"
                  /\ ftWorld.moves[j].to \notin {"pool", "creator"}}}
Recipients(head) ==
    {Member(i, "DIRECT_TRANSFER") :
        i \in {j \in Moves(LaunchBlock, WindowEnd) :
                  /\ ftWorld.moves[j].block <= head
                  /\ ftWorld.moves[j].from = "creator"
                  /\ ftWorld.moves[j].to \notin {"pool", "creator"}}}

\* buildCreatorCluster, rule by rule; the fourth has no source yet.  The creator is in
\* whatever fails.  The recipients' range is not clamped to the head.
Creators == {[address |-> "creator", rule |-> "CREATOR"]}

ClusterRule(at, rule, to, found, next) ==
    /\ ftJob.at = at
    /\ \/ /\ Goes(next, [ftJob EXCEPT !.members = @ \cup Creators \cup found])
          /\ UNCHANGED ftFailures
       \/ /\ ReadFails(to)
          /\ Goes(next, [ftJob EXCEPT !.members = @ \cup Creators,
                                      !.partial = @ \cup {rule}])
    /\ UNCHANGED <<ftChain, ftRow, ftReports, ftDecimals, ftRuns>>

Cluster ==
    \/ ClusterRule("launch_block", "LAUNCH_BLOCK_BUY", LaunchBlock, LaunchBuyers, "direct")
    \/ ClusterRule("direct", "DIRECT_TRANSFER", WindowEnd, Recipients(ftHead),
                   "token_age")

\* computeTokenAgeAtPool: the token has code at hi and none at lo.
CodeBetween(r) ==
    LET mid == r.lo + (r.hi - r.lo) \div 2
    IN  IF r.hi - r.lo <= 1 THEN r
        ELSE IF ftWorld.deploy <= mid THEN [lo |-> r.lo, hi |-> mid]
        ELSE [lo |-> mid, hi |-> r.hi]
codeAt(from) ==
    LET range[i \in Nat] == IF i = 0 THEN [lo |-> from, hi |-> LaunchBlock]
                            ELSE CodeBetween(range[i - 1])
    IN  range[AgeIters - 2].hi

\* A launch whose age is known keeps it; "older than the window" and a failed read
\* are both null.
TokenAge ==
    /\ ftJob.at = "token_age" /\ Goes("creator", ftJob)
    /\ LET lo == IF LaunchBlock > FreshBlocks THEN LaunchBlock - FreshBlocks ELSE 0
       IN  \/ /\ ftLaunch' = IF ftLaunch.tokenAge # -1 \/ ftWorld.deploy <= lo THEN ftLaunch
                            ELSE [ftLaunch EXCEPT !.tokenAge =
                                     LaunchBlock - codeAt(lo)]
              /\ UNCHANGED ftFailures
           \/ Fails /\ UNCHANGED ftLaunch
    /\ UNCHANGED <<ftChain, ftFeature, ftMembers, ftComputed, ftReports, ftDecimals, ftRuns>>

\* firstTxBlock: hi has a transaction of the creator at or before it.
NonceBetween(r) ==
    LET mid == (r.lo + r.hi) \div 2
    IN  IF r.lo >= r.hi THEN r
        ELSE IF ftWorld.firstTx <= mid THEN [lo |-> r.lo, hi |-> mid]
        ELSE [lo |-> mid + 1, hi |-> r.hi]
nonceAt ==
    LET range[i \in Nat] == IF i = 0 THEN [lo |-> 0, hi |-> LaunchBlock]
                            ELSE NonceBetween(range[i - 1])
    IN  range[NonceIters].hi

\* computeCreatorContext; -1 in firstTx is a creator with no transaction.
Creator ==
    /\ ftJob.at = "creator"
    /\ \/ /\ Reads("holders", [ftJob.features EXCEPT !.creatorAge =
                 IF ftFeature.creatorAge # -1 THEN ftFeature.creatorAge
                 ELSE IF ftWorld.firstTx = -1 THEN -1
                 ELSE LaunchBlock - nonceAt])
          /\ UNCHANGED ftFailures
       \/ Fails /\ Goes("holders", ftJob)
    /\ UNCHANGED <<ftChain, ftRow, ftReports, ftDecimals, ftRuns>>

\* Balances rebuilt from the transfers, then shares of the supply.
Balance(a, to) ==
    Value({i \in Moves(LaunchBlock, to) : ftWorld.moves[i].to = a})
    - Value({i \in Moves(LaunchBlock, to) : ftWorld.moves[i].from = a})
Addresses == UNION {{m.to, m.from} : m \in ToSet(ftWorld.moves)} \ {"zero"}
Share(S, to) ==
    (100 * SumFunctionOnSet([a \in S |-> Balance(a, to)], {a \in S : Balance(a, to) > 0}))
    \div Supply
Largest(S, to) ==
    {a \in S : Cardinality({b \in S : Balance(b, to) > Balance(a, to)}) < TopHolders}

Holders ==
    /\ ftJob.at = "holders"
    /\ LET others == Addresses \ {"creator", "pool"}
           cluster == {m.address : m \in ftJob.members} \cap Addresses
           to == Reached(toBlock)
       IN  \/ /\ IF Cardinality(Moves(LaunchBlock, to)) > MaxHolderLogs
                 THEN Goes("sides", ftJob)
                 ELSE Reads("sides", [ftJob.features EXCEPT
                          !.clusterSupply = Share(cluster, to),
                          !.top10 = Share(Largest(others, to), to)])
              /\ UNCHANGED ftFailures
           \/ ReadFails(toBlock) /\ Goes("sides", ftJob)
    /\ UNCHANGED <<ftChain, ftRow, ftReports, ftDecimals, ftRuns>>

\* computeSidePoolCount; the approvals are counted alike and left out.
Sides ==
    /\ ftJob.at = "sides"
    /\ \/ /\ Reads("scanners", [ftJob.features EXCEPT !.sidePools =
                 IF ~ftWorld.v4 THEN -1
                 ELSE Cardinality({i \in DOMAIN Pools :
                                      Pools[i].init \in LaunchBlock..Reached(toBlock)}
                                  \ {ftLaunch.pool})])
          /\ UNCHANGED ftFailures
       \/ ReadFails(toBlock) /\ Goes("scanners", ftJob)
    /\ UNCHANGED <<ftChain, ftRow, ftReports, ftDecimals, ftRuns>>

qualified == ~Locked /\ ftJob.features.buyers >= QualifyBuyers

\* readQuoteDecimals, cached for the life of the process: a read that fails is
\* remembered as 18.
DefaultDecimals == 18

readQuoteDecimals ==
    IF ftWorld.decimals = -1 \/ ftDecimals # -1
    THEN UNCHANGED <<ftDecimals, ftFailures>>
    ELSE \/ ftDecimals' = ftWorld.decimals /\ UNCHANGED ftFailures
         \/ ftDecimals' = DefaultDecimals /\ Fails

\* quoteSellImpact: the reference quote may not be asked (-1), fail or answer; only
\* then is the sell quoted, sized in units of the decimals, and its failure leaves the
\* impact unknown (-1).  An impact is known by the decimals its sell was sized with.
ownQuotes(decimals) ==
    {[ok |-> -1, impact |-> -1]} \cup
    IF decimals = -1 THEN {}
    ELSE {[ok |-> 0, impact |-> -1], [ok |-> 1, impact |-> -1], [ok |-> 1, impact |-> decimals]}

\* computeFeature9: our reference quote, else a scanner, says whether the token can be
\* sold: a quote that failed says no, a sized sell that failed does not.
Scanners ==
    /\ ftJob.at = "scanners"
    /\ IF qualified
       THEN /\ readQuoteDecimals
            /\ \E quote \in ownQuotes(ftDecimals'), scanner \in {-1, 0, 1} :
                  Reads("save", [ftJob.features EXCEPT
                      !.sellable = IF quote.ok # -1 THEN quote.ok ELSE scanner,
                      !.impact = quote.impact])
       ELSE Goes("save", ftJob) /\ UNCHANGED <<ftDecimals, ftFailures>>
    /\ UNCHANGED <<ftChain, ftRow, ftReports, ftRuns>>

\* Mutant of complete: a lookup that failed does not matter.
completeAnyhow == TRUE

complete == ftJob.partial = {}

\* One transaction; a field of the scanners is only written when they were asked.
Save ==
    /\ ftJob.at = "save"
    /\ ftMembers' = ftJob.members
    /\ ftFeature' = [ftJob.features EXCEPT
           !.clusterSize = Cardinality({m.address : m \in ftJob.members}),
           !.sellable = IF qualified THEN @ ELSE ftFeature.sellable,
           !.impact = IF qualified THEN @ ELSE ftFeature.impact]
    /\ ftLaunch' = [ftLaunch EXCEPT !.qualified = @ \/ qualified]
    /\ ftComputed' = IF complete THEN ftJob.began ELSE -1
    /\ ftJob' = IF complete THEN [NoJob EXCEPT !.at = "reports", !.head = ftJob.head,
                                               !.began = ftJob.began]
                ELSE NoJob
    /\ UNCHANGED <<ftChain, ftReports, ftDecimals, ftRuns, ftFailures>>

\* buildLaunchReports reads the row and persistLaunchReports keys it by its hash; a
\* failure is recorded and the job ends.
MakeReports ==
    /\ ftJob.at = "reports" /\ ftJob' = NoJob
    /\ \/ /\ ftReports' = ftReports \cup {[features |-> ftFeature, members |-> ftMembers,
                                        began |-> ftComputed]}
          /\ UNCHANGED ftFailures
       \/ Fails /\ UNCHANGED ftReports
    /\ UNCHANGED <<ftChain, ftRow, ftDecimals, ftRuns>>

\* The job throws, or the worker dies and its cache with it; it is run again.
JobLost ==
    /\ ftJob.at # "idle" /\ Fails
    /\ ftJob' = NoJob /\ ftDecimals' \in {ftDecimals, -1}
    /\ UNCHANGED <<ftChain, ftRow, ftReports, ftRuns>>

FtNext ==
    \/ BlocksMined \/ T10Starts \/ PickPool \/ Buyers \/ Cluster \/ TokenAge \/ Creator \/ Holders
    \/ Sides \/ Scanners \/ Save \/ MakeReports \/ JobLost

-----------------------------------------------------------------------------
FtTypeOK ==
    /\ ftLaunch.pool \in DOMAIN Pools /\ ftLaunch.tokenAge >= -1
    /\ \A m \in ftMembers \cup ftJob.members :
           m.rule \in {"CREATOR", "LAUNCH_BLOCK_BUY", "DIRECT_TRANSFER"}
    /\ ftFeature.clusterSize \in -1..Cardinality(ftMembers)
    /\ DOMAIN ftFeature = DOMAIN Unread

\* The recipients a job asks for are those the chain has when it gets to them, at
\* least what it had when the job began.
Whole(head) == Creators \cup LaunchBuyers \cup Recipients(head)

\* runT10ForLaunch: what a failed or cut-short read leaves is null or an
\* understatement, but for two facts the code makes of a failure and this property
\* grants: a reference quote that failed says the token cannot be sold, and decimals
\* that could not be read are 18.  A token or a creator never looks older than it is,
\* and by no more than the search leaves open; the cluster's share is that of the
\* members stored with it at some head; an impact is of a token that sells, sized in the
\* quote's own decimals if no read ever failed; a report is made of a cluster none of
\* whose reads failed, whole if the job began after the window (before it, of the
\* recipients up to the head the job found, which the code does not tell from all of
\* them); and the pool is one no other beats by its quote and fee, nor, if every probe
\* answered, by its swaps among those probed.
FeaturesHonest ==
    /\ ftLaunch.tokenAge # -1 =>
           LaunchBlock - ftWorld.deploy - ftLaunch.tokenAge
               \in 0..LeftOf(FreshBlocks, AgeIters - 2)
    /\ ftFeature.creatorAge # -1 =>
           /\ ftWorld.firstTx # -1
           /\ LaunchBlock - ftWorld.firstTx - ftFeature.creatorAge
                  \in 0..LeftOf(LaunchBlock, NonceIters)
    /\ ftFeature.clusterSupply # -1 =>
           \E to \in LaunchBlock..WindowEnd :
               ftFeature.clusterSupply =
                   Share({m.address : m \in ftMembers} \cap Addresses, to)
    /\ ftFeature.impact # -1 =>
           /\ ftFeature.sellable = 1
           /\ ftFeature.impact = ftWorld.decimals
              \/ (ftFeature.impact = DefaultDecimals /\ ftFailures > 0)
    /\ \A r \in ftReports \cup IF ftComputed = -1 THEN {}
                             ELSE {[members |-> ftMembers, began |-> ftComputed]} :
           \E head \in r.began..ftHead : r.members = Whole(head)
    /\ ftWorld.v4 /\ ftJob.at \notin {"idle", "pool"} /\ ftFailures = 0 =>
           \A i \in Cand :
               ~Ahead(i, ftLaunch.pool, [j \in Probed |-> Pools[j].swaps])
=============================================================================
