----------------------------- MODULE MCServices -----------------------------
(***************************************************************************)
(* A small instance of each of the services.                               *)
(***************************************************************************)
EXTENDS Services

Labels2 == <<"weights", "featureCode">>
SixBatches == {<<1>>, <<2, 1>>, <<3, 1, 2>>, <<4, 2, 1, 3>>, <<5, 4, 3, 2, 1>>,
               <<7, 6, 5, 4, 3, 2, 1>>}
\* The hash of report n is the n-fold singleton.
NestedHash[n \in 0..8] == IF n = 0 THEN {} ELSE {NestedHash[n - 1]}
ThreeReports == <<0, 0, 1>>
TwoChunks == <<<<2>>, <<3, 4>>>>

\* Two rows of det_v0 for launch 3, commits before, at and after the replay limit and
\* the horizon, and none.
Scored(f, l, p) == [fc |-> f, launch |-> l, prob |-> p]
EightReports ==
    <<Scored("heuristic_v1", 1, 9), Scored("det_v0", 1, 9), Scored("det_v0", 2, 3),
      Scored("heuristic_v1", 2, 9), Scored("det_v0", 3, 8), Scored("det_v0", 3, 7),
      Scored("det_v0", 4, 2), Scored("heuristic_v1", 4, 1)>>
FourAnchors == <<0, 0, 1, 1>>
FourTruths == <<TRUE, FALSE, TRUE, FALSE>>
EightCommits == <<{1}, {1}, {1, -1}, {1}, {2, 3}, {2}, {2, -1}, {3}>>
FourFetches == <<{-1}, {0}, {2, 3}, {-1}>>

NineTimes == <<1, 1, 2, 2, 3, 4, 4, 5, 6>>
Row(l, tr, h, k, q, lk) ==
    [label |-> l, trigger |-> tr, anchorTime |-> 2, horizonAt |-> h, kind |-> k,
     pool |-> TRUE, quotable |-> q, locked |-> lk, launchBlock |-> 3]
ElevenRows ==
    {Unlinked,
     Row("DRAWDOWN_80", "launch", 4, "v4", TRUE, TRUE),
     Row("DRAWDOWN_80", "manual", 4, "v2", FALSE, FALSE),
     Row("DRAWDOWN_80", "launch", 6, "v4", TRUE, TRUE),
     Row("SELL_IMPAIRED", "launch", 4, "v4", TRUE, FALSE),
     Row("SELL_IMPAIRED", "manual", 4, "v2", FALSE, FALSE),
     Row("LIQ_IMPAIRED", "launch", 6, "v4", TRUE, FALSE),
     Row("LIQ_IMPAIRED", "launch", 6, "v3", TRUE, FALSE),
     Row("LIQ_IMPAIRED", "launch", 4, "v2", TRUE, TRUE),
     Row("INSIDER_EXIT", "launch", 4, "v4", TRUE, FALSE),
     Row("TRADING_ALIVE", "launch", 6, "v4", TRUE, FALSE)}
ThreeTrades == {<<0, 0, 0, 5, 0, 1, 0, 0, 0>>, <<0, 2, 0, 5, 0, 0, 0, 0, 1>>,
                <<5, 0, 0, 0, 0, 2, 0, 0, 0>>}
TwoDeltas == {<<0, 0, 5, 0, 0, -4, 0, 0, 0>>, <<0, 0, 5, 0, -3, 0, 0, 1, -1>>}
Move(b, f, t, v) == [block |-> b, from |-> f, to |-> t, value |-> v]
TwoMoves ==
    {<<Move(3, "pool", "c1", 4), Move(4, "c1", "c2", 2), Move(5, "c2", "pool", 2)>>,
     <<Move(3, "pool", "c1", 4), Move(4, "c1", "pool", 1), Move(4, "c1", "pool", 1),
       Move(5, "c1", "x", 2)>>}

\* Three pools alike but for their swaps beside one in an unknown quote; and a
\* suspect pool taken at ingest with a creator who never sent a transaction; and the
\* first again, launched on v3.
Pool(i, k, su, st, sw) ==
    [init |-> i, known |-> k, suspect |-> su, standard |-> st, swaps |-> sw]
ThreeWorlds ==
    {[v4 |-> v,
      pools |-> <<Pool(5, FALSE, FALSE, TRUE, 9), Pool(5, TRUE, FALSE, TRUE, 1),
                  Pool(6, TRUE, FALSE, TRUE, 3), Pool(7, TRUE, FALSE, TRUE, 5)>>,
      moves |-> <<Move(5, "zero", "creator", 10), Move(5, "creator", "pool", 6),
                  Move(5, "pool", "a", 2), Move(6, "pool", "b", 1),
                  Move(7, "creator", "c", 2), Move(8, "a", "b", 1)>>,
      deploy |-> 3, firstTx |-> 1, decimals |-> 6] : v \in BOOLEAN}
    \cup
    {[v4 |-> TRUE,
      pools |-> <<Pool(5, TRUE, TRUE, FALSE, 9), Pool(6, TRUE, FALSE, FALSE, 1)>>,
      moves |-> <<Move(5, "zero", "pool", 10), Move(6, "pool", "creator", 3),
                  Move(7, "creator", "pool", 1), Move(7, "pool", "a", 1)>>,
      deploy |-> 1, firstTx |-> -1, decimals |-> 18]}
Heads == {6, 9}
=============================================================================
