------------------------------ MODULE Resolvers ------------------------------
(***************************************************************************)
(* Resolving an outcome row: its times become blocks through a bounded     *)
(* search and a cache that is never emptied, and the label's resolver      *)
(* reads trades, liquidity, transfers or a quoter over them.  Any read may *)
(* fail.  The chain grows meanwhile and its head may lag behind the clock. *)
(* A price series is what the chain holds of the pool: block -> price, 0   *)
(* for no trade.                                                           *)
(***************************************************************************)
EXTENDS Halving, FiniteSets, FiniteSetsExt, Functions, Sequences

CONSTANTS
    RvTimes,        \* block -> timestamp
    RvRows,         \* the outcome rows that may be due
    RvTrades,       \* trade histories: block -> price
    RvDeltas,       \* liquidity histories: block -> change of the depth
    RvMoves,        \* transfer histories: [block, from, to, value], in log order
    RvCluster,      \* the launch's cluster wallets
    RvOuts,         \* amounts a quote may return
    MaxIters,       \* of blockAtTime
    H24,
    TailBlocks,     \* HORIZON_TAIL_BLOCKS
    AliveBlocks,    \* ALIVE_WINDOW_BLOCKS
    LogCap,         \* MAX_INSIDER_LOGS
    SpotIn,         \* the size of a spot sell
    QuoteUnit,      \* 10 ** the quote asset's decimals, and what a failed read of them
    DefaultUnit,    \* counts as
    RvHeads,        \* the head at the start
    RvMaxRows       \* bound

RvBlocks == DOMAIN RvTimes
Errors == {"revert", "archive", "network"}
RvLabels == {"DRAWDOWN_80", "SELL_IMPAIRED", "LIQ_IMPAIRED", "INSIDER_EXIT", "TRADING_ALIVE"}
Unlinked == [label |-> "none", horizonAt |-> 0]

ASSUME ResolversAssumption ==
    /\ RvTimes \in Seq(Nat) /\ \A b, c \in RvBlocks : b < c => RvTimes[b] <= RvTimes[c]
    /\ RvHeads \subseteq RvBlocks /\ RvOuts \subseteq Nat
    /\ RvRows \subseteq {Unlinked} \cup
           [label : RvLabels, trigger : STRING, anchorTime : Nat, horizonAt : Nat,
            kind : {"v2", "v3", "v4"}, pool : BOOLEAN, quotable : BOOLEAN,
            locked : BOOLEAN, launchBlock : RvBlocks]
    /\ RvTrades \subseteq [RvBlocks -> Nat] /\ RvDeltas \subseteq [RvBlocks -> Int]
    /\ RvMoves \subseteq Seq([block : Nat, from : STRING, to : STRING, value : Nat])
    /\ {MaxIters, H24, TailBlocks, AliveBlocks, LogCap, SpotIn, QuoteUnit,
        DefaultUnit, RvMaxRows} \subseteq Nat

VARIABLES
    rvHead,         \* the chain's head
    rvCache,        \* blockAtTime's cache: time -> block
    rvAsked,        \* history: time -> the head when it was filled
    rvDecimals,     \* decimalsCache: {} or the value, as the unit it gives
    rvRow,          \* the row
    rvData,         \* what the chain holds of its pool
    rvAt,           \* how far its resolution is
    rvBroken,       \* history: a read of it failed
    rvQuotes,       \* history: the quoter's answers
    rvResult,       \* the Resolution
    rvDone          \* rows resolved

rvWorld == <<rvHead, rvCache, rvAsked, rvDecimals>>
rvTask == <<rvRow, rvData, rvAt, rvBroken, rvQuotes, rvResult, rvDone>>
rvVars == <<rvWorld, rvTask>>

Untraded == [b \in RvBlocks |-> 0]
Quiet == [trades |-> Untraded, deltas |-> Untraded, moves |-> <<>>]
DataOf(label) ==
    CASE label \in {"DRAWDOWN_80", "TRADING_ALIVE"} ->
             {[Quiet EXCEPT !.trades = t] : t \in RvTrades}
      [] label = "LIQ_IMPAIRED" -> {[Quiet EXCEPT !.deltas = d] : d \in RvDeltas}
      [] label = "INSIDER_EXIT" -> {[Quiet EXCEPT !.moves = m] : m \in RvMoves}
      [] OTHER -> {Quiet}

RvInit ==
    /\ rvHead \in RvHeads
    /\ rvCache = <<>> /\ rvAsked = <<>> /\ rvDecimals = {}
    /\ rvRow \in RvRows /\ rvData \in DataOf(rvRow.label)
    /\ rvAt = "start" /\ rvBroken = FALSE /\ rvQuotes = <<>>
    /\ rvResult = "none" /\ rvDone = 0

-----------------------------------------------------------------------------
\* blockAtTime.

\* One round of the search; an exhausted range stays as it is.
Narrowed(range, t) ==
    LET mid == range.lo + (range.hi - range.lo) \div 2
    IN  CASE range.lo > range.hi -> range
          [] range.lo <= range.hi /\ RvTimes[mid] <= t ->
                 [lo |-> mid + 1, hi |-> range.hi, answer |-> mid]
          [] OTHER -> [lo |-> range.lo, hi |-> mid - 1, answer |-> range.answer]
search(t) ==
    LET range[i \in Nat] == IF i = 0 THEN [lo |-> 1, hi |-> rvHead, answer |-> 1]
                            ELSE Narrowed(range[i - 1], t)
    IN  range[MaxIters].answer

\* Mutant of blockAtTime: the search returns lo, one past its answer.
blockAtTimeLo(t) ==
    CASE t >= RvTimes[rvHead] -> rvHead
      [] t < RvTimes[rvHead] /\ t <= RvTimes[1] -> 1
      [] OTHER -> search(t) + 1

blockAtTime(t) ==
    CASE t >= RvTimes[rvHead] -> rvHead
      [] t < RvTimes[rvHead] /\ t <= RvTimes[1] -> 1
      [] OTHER -> search(t)

With(f, x, y) == [z \in DOMAIN f \cup {x} |-> IF z = x THEN y ELSE f[z]]

\* The times a row needs, found one after another.
RowTimes ==
    <<rvRow.anchorTime, rvRow.horizonAt>>
    \o IF rvRow.label # "DRAWDOWN_80" THEN <<>>
       ELSE IF rvRow.trigger \in {"launch", "qualified"} THEN <<rvRow.anchorTime + H24>>
       ELSE <<IF rvRow.anchorTime < H24 THEN 0 ELSE rvRow.anchorTime - H24>>
Missing == {i \in DOMAIN RowTimes : RowTimes[i] \notin DOMAIN rvCache}

anchorBlock == rvCache[RowTimes[1]]
horizonBlock == rvCache[RowTimes[2]]
refStart == IF rvRow.trigger \in {"launch", "qualified"} THEN anchorBlock ELSE rvCache[RowTimes[3]]
refEnd == IF rvRow.trigger \in {"launch", "qualified"} THEN rvCache[RowTimes[3]] ELSE anchorBlock

\* The head is read and the search made; only a failed call leaves no entry.
FindBlock ==
    /\ rvAt = "blocks" /\ Missing # {}
    /\ LET t == RowTimes[Min(Missing)]
       IN  /\ rvCache' = With(rvCache, t, blockAtTime(t))
           /\ rvAsked' = With(rvAsked, t, rvHead)
    /\ UNCHANGED <<rvHead, rvDecimals, rvTask>>

Done(result, broken) ==
    /\ rvResult' = result /\ rvAt' = "done" /\ rvBroken' = broken
    /\ rvDone' = rvDone + 1
    /\ UNCHANGED <<rvRow, rvData>>

\* resolveOneOutcome's early returns.
StartRow ==
    /\ rvAt = "start"
    /\ IF rvRow = Unlinked
       THEN Done("unresolvable", FALSE) /\ UNCHANGED rvQuotes
       ELSE IF rvRow.locked /\ rvRow.label \in {"SELL_IMPAIRED", "LIQ_IMPAIRED"}
       THEN Done("na", FALSE) /\ UNCHANGED rvQuotes
       ELSE /\ rvAt' = "blocks"
            /\ UNCHANGED <<rvRow, rvData, rvBroken, rvQuotes, rvResult, rvDone>>
    /\ UNCHANGED rvWorld

\* A read throws: the sweep keeps the row for another attempt.
ReadThrows ==
    /\ rvAt \in {"blocks", "read"}
    /\ Done(IF rvAt = "read" /\ rvRow.label = "TRADING_ALIVE" THEN "unresolvable"
            ELSE "thrown", TRUE)
    /\ UNCHANGED <<rvWorld, rvQuotes>>

\* quoteDecimals: a failure is cached like an answer.
ReadDecimals ==
    /\ rvAt = "blocks" /\ Missing = {}
    /\ IF rvDecimals # {} THEN UNCHANGED rvDecimals
       ELSE \E unit \in {QuoteUnit, DefaultUnit} : rvDecimals' = {unit}
    /\ rvAt' = "read"
    /\ UNCHANGED <<rvHead, rvCache, rvAsked, rvRow, rvData, rvBroken, rvQuotes,
                   rvResult, rvDone>>

-----------------------------------------------------------------------------
\* The resolvers.

\* buildPriceSeries: the blocks of the window with a trade.
Series(from, to) ==
    IF ~rvRow.pool THEN {} ELSE {b \in from..to \cap RvBlocks : rvData.trades[b] > 0}
Price(b) == rvData.trades[b]
Dropped(price, refMax) == 5 * price <= refMax       \* DRAWDOWN_FLOOR

\* The quoter answers with an amount or with a kind of error.
Quote(q) == rvQuotes' = Append(rvQuotes, q)
Failed(q) == q.error \in Errors
Answers == {[error |-> "none", out |-> n] : n \in RvOuts}
           \cup {[error |-> e, out |-> 0] : e \in Errors}

\* A quote is of one token; a revert is a price of nothing, other errors no price.
resolveDrawdown ==
    LET ref == Series(refStart, refEnd)
        refMax == IF ref = {} THEN 0 ELSE Max({Price(b) : b \in ref})
        tail == IF horizonBlock > TailBlocks THEN horizonBlock - TailBlocks ELSE 0
        from == IF refEnd + 1 > tail THEN refEnd + 1 ELSE tail
        last == IF from <= horizonBlock THEN Series(from, horizonBlock) ELSE ref
        verdict(price) == IF Dropped(price, refMax) THEN "true" ELSE "false"
    IN  CASE refMax = 0 -> Done("unresolvable", FALSE) /\ UNCHANGED rvQuotes
          [] refMax > 0 /\ last # {} -> Done(verdict(Price(Max(last))), FALSE) /\ UNCHANGED rvQuotes
          [] refMax > 0 /\ last = {} /\ ~rvRow.quotable ->
                 Done("unresolvable", FALSE) /\ UNCHANGED rvQuotes
          [] OTHER -> \E q \in Answers :
                 /\ Quote(q)
                 /\ IF q.error \in {"archive", "network"} THEN Done("unresolvable", TRUE)
                    ELSE Done(verdict(q.out), FALSE)

\* A spot quote sizes a sell of 100 quote units (one here), and a quote of that
\* size shows the tax.
notional == CHOOSE unit \in rvDecimals : TRUE
resolveSellImpaired ==
    IF ~rvRow.quotable THEN Done("unresolvable", FALSE) /\ UNCHANGED rvQuotes
    ELSE IF rvQuotes = <<>>
    THEN \E spot \in Answers :
             /\ Quote(spot)
             /\ IF Failed(spot) \/ spot.out = 0 \/ (notional * SpotIn) \div spot.out = 0
                THEN Done("unresolvable", Failed(spot))
                ELSE UNCHANGED <<rvRow, rvData, rvAt, rvBroken, rvResult, rvDone>>
    ELSE \E bulk \in Answers :
             LET spot == rvQuotes[1].out
                 size == (notional * SpotIn) \div spot
             IN  /\ Quote(bulk)
                 /\ IF Failed(bulk) THEN Done("unresolvable", TRUE)
                    ELSE Done(IF bulk.out = 0
                                 \/ 10 * bulk.out * SpotIn <= 7 * spot * size   \* TAX_FLOOR
                              THEN "true" ELSE "false", FALSE)

\* buildLiquiditySeries: v4 adds the changes up, v2 reads the reserve, which is
\* their sum too; v3 is not implemented.
liquidityEvents ==
    IF rvRow.kind = "v3" \/ ~rvRow.pool THEN {}
    ELSE {b \in rvRow.launchBlock..horizonBlock : rvData.deltas[b] # 0}
liquidity(b) == SumFunctionOnSet(rvData.deltas, {c \in liquidityEvents : c <= b})

\* A launch whose liquidity is locked by construction has no such row.
resolveLiqImpaired ==
    LET events == liquidityEvents
        peak == Max({0} \cup {liquidity(b) : b \in events})
        removed == \E b \in events : rvData.deltas[b] < 0
    IN  /\ IF events = {} \/ peak = 0 THEN Done("unresolvable", FALSE)
           ELSE Done(IF 5 * liquidity(Max(events)) <= peak          \* LIQ_FLOOR
                        /\ (rvRow.kind = "v2" \/ removed)
                     THEN "true" ELSE "false", FALSE)
        /\ UNCHANGED rvQuotes

\* Two scans, from and to the cluster, are merged without duplicates and replayed.
Replayed == {i \in DOMAIN rvData.moves : rvData.moves[i].block \in rvRow.launchBlock..horizonBlock}
Moved(S) == SumFunctionOnSet([i \in DOMAIN rvData.moves |-> rvData.moves[i].value], S)
From(S) == {i \in S : rvData.moves[i].from \in RvCluster}
To(S) == {i \in S : rvData.moves[i].to \in RvCluster}

resolveInsiderExit ==
    LET outs == From(Replayed)
        ins == To(Replayed)
        held(n) == Moved({i \in ins : i <= n}) - Moved({i \in outs : i <= n})
        peak == Max({0} \cup {held(i) : i \in Replayed})
        sold == Moved({i \in outs : rvData.moves[i].to = "pool"})
                - Moved({i \in ins : rvData.moves[i].from = "pool"})
    IN  /\ IF RvCluster = {} \/ Cardinality(outs) >= LogCap \/ Cardinality(ins) >= LogCap
           THEN Done("unresolvable", FALSE)
           ELSE Done(IF peak > 0 /\ sold * 2 >= peak THEN "true" ELSE "false", FALSE)
        /\ UNCHANGED rvQuotes

\* TRADING_ALIVE: a pool with no id has no points and a gap that names no failure.
resolveSurvival ==
    /\ LET from == IF horizonBlock > AliveBlocks THEN horizonBlock - AliveBlocks ELSE 0
       IN  Done(IF Series(from, horizonBlock) # {} THEN "true" ELSE "false", FALSE)
    /\ UNCHANGED rvQuotes

Resolve ==
    /\ rvAt = "read"
    /\ CASE rvRow.label = "DRAWDOWN_80" -> resolveDrawdown
         [] rvRow.label = "SELL_IMPAIRED" -> resolveSellImpaired
         [] rvRow.label = "LIQ_IMPAIRED" -> resolveLiqImpaired
         [] rvRow.label = "INSIDER_EXIT" -> resolveInsiderExit
         [] rvRow.label = "TRADING_ALIVE" -> resolveSurvival
    /\ UNCHANGED rvWorld

BlockMined ==
    /\ rvHead < Len(RvTimes) /\ rvHead' = rvHead + 1
    /\ UNCHANGED <<rvCache, rvAsked, rvDecimals, rvTask>>

NextRow ==
    /\ rvAt = "done" /\ rvDone < RvMaxRows
    /\ rvRow' \in RvRows /\ rvData' \in DataOf(rvRow'.label)
    /\ rvAt' = "start" /\ rvBroken' = FALSE /\ rvQuotes' = <<>> /\ rvResult' = "none"
    /\ UNCHANGED <<rvWorld, rvDone>>

RvNext == StartRow \/ FindBlock \/ ReadThrows \/ ReadDecimals \/ Resolve \/ BlockMined \/ NextRow

-----------------------------------------------------------------------------
RvTypeOK ==
    /\ rvHead \in RvBlocks /\ DOMAIN rvCache = DOMAIN rvAsked
    /\ \A t \in DOMAIN rvCache : rvCache[t] \in 1..rvAsked[t]
    /\ rvRow \in RvRows /\ Len(rvQuotes) <= 2
    /\ rvAt \in {"start", "blocks", "read", "done"}
    /\ rvResult \in {"none", "true", "false", "unresolvable", "na", "thrown"}

\* An answer is mined at or before the time, or is the first block; and the last such
\* block of the chain is within what MaxIters halvings leave, for a time after the
\* first block's.
Near(block, t, head) ==
    LET at == {b \in 1..head : RvTimes[b] <= t}
    IN  /\ IF at = {} THEN block = 1 ELSE block \in at
        /\ t > RvTimes[1] => Max(at) - block <= LeftOf(head, MaxIters)

\* The last price at the horizon or, if it is later, the end of the reference window,
\* or a quote there, is a fifth of some price of that window.
DrawdownFounded ==
    LET traded == {b \in 1..horizonBlock \cup 1..refEnd : Price(b) > 0}
        price  == IF rvQuotes # <<>> THEN rvQuotes[1].out ELSE Price(Max(traded))
    IN  rvResult = "true" <=>
            \E b \in refStart..refEnd : Price(b) > 0 /\ Dropped(price, Price(b))

\* A sell of the notional loses three tenths against a small one.
SellFounded ==
    IF rvResult = "true" THEN 10 * rvQuotes[2].out <= 7 * QuoteUnit
    ELSE rvQuotes[2].out > 0

\* Four fifths of some depth are gone.
LiqFounded ==
    LET depth(b) == SumFunctionOnSet(rvData.deltas, rvRow.launchBlock..b)
    IN  rvResult = "true" <=>
            \E p \in rvRow.launchBlock..horizonBlock :
                depth(p) > 0 /\ 5 * depth(horizonBlock) <= depth(p)

\* The cluster has sold something by the horizon.
InsiderFounded ==
    rvResult = "true" =>
        \E i \in Replayed :
            rvData.moves[i].from \in RvCluster /\ rvData.moves[i].to = "pool"

\* The pool traded in the window.
AliveFounded ==
    rvResult = "true" <=>
        \E b \in RvBlocks : horizonBlock - b \in 0..AliveBlocks /\ Price(b) > 0

\* blockAtTime and the resolvers: what the cache answers is near the time asked for,
\* and a verdict never comes of a failed read and is the label's rule; of SELL_IMPAIRED
\* if the decimals were read, of TRADING_ALIVE if the pool can be scanned.
VerdictsFounded ==
    /\ \A t \in DOMAIN rvCache : Near(rvCache[t], t, rvAsked[t])
    /\ rvAt = "done" /\ rvResult \in {"true", "false"} =>
           /\ ~rvBroken
           /\ rvRow.label = "DRAWDOWN_80" => DrawdownFounded
           /\ rvRow.label = "SELL_IMPAIRED" /\ rvDecimals = {QuoteUnit} => SellFounded
           /\ rvRow.label = "LIQ_IMPAIRED" => LiqFounded
           /\ rvRow.label = "INSIDER_EXIT" => InsiderFounded
           /\ rvRow.label = "TRADING_ALIVE" /\ rvRow.pool => AliveFounded
=============================================================================
