---------------------------- MODULE Notifications ----------------------------
(***************************************************************************)
(* What the worker says on Telegram: the free feed of qualified launches   *)
(* (telegram/poster.ts) and the operational alerts (alerts.ts).  The feed  *)
(* sends and then marks the report; an alert loop keeps what it last found *)
(* in memory.  During a deploy the old and the new worker run both.        *)
(***************************************************************************)
EXTENDS Ascending, Sequences, SequencesExt

CONSTANTS
    Containers,     \* the workers that may run at once
    Anchors,        \* the reportTime of report n, in createdAt order
    MaxCommitLag,   \* MAX_COMMIT_LAG_MS
    CandidateWindow,\* CANDIDATE_WINDOW_MS
    PostLimit,      \* the sweep's limit
    ReadLimit,      \* what it reads: limit * 10
    CommitLagMax, StalledMax,   \* commitLagSec, watcherStalledSec
    NtMaxTime, NtMaxFaults, NtMaxTroubles   \* bounds

ASSUME NotificationsAssumption ==
    /\ Anchors \in Seq(Nat) /\ IsFiniteSet(Containers)
    /\ {MaxCommitLag, CandidateWindow, PostLimit, ReadLimit, CommitLagMax,
        StalledMax, NtMaxTime, NtMaxFaults, NtMaxTroubles} \subseteq Nat

VARIABLES
    ntNow,
    ntCommitted,    \* when the report's commit was recorded, -1 before
    ntMarked,       \* reports with a telegramPostedAt
    ntSweep,        \* each container: the rows of its sweep, and whether the
                    \* first of them has been sent
    ntPosts,        \* history: how often a report was sent
    ntUnmarked,     \* history: how often that was not marked afterwards
    ntFaults,
    ntTrouble,      \* the keys evaluateAlerts finds bad now
    ntEpisodes,     \* history: how often each key turned bad
    ntChecks,       \* what the tick of a container's alert loop found bad
    ntLastBad,      \* the lastBad of a container's alert loop
    ntSaid,         \* history: how often it sent of a key that it is bad, recovered
    ntForgotten     \* history: how often a restart forgot that it was bad

ntFeed == <<ntNow, ntCommitted, ntMarked, ntSweep, ntPosts, ntUnmarked>>
ntAlerts == <<ntTrouble, ntEpisodes, ntChecks, ntLastBad, ntSaid, ntForgotten>>
ntVars == <<ntFeed, ntAlerts, ntFaults>>

Posted == DOMAIN Anchors
Keys == {"starved", "ids_trip", "commit_lag", "watcher_stalled"}
NoSweep == [rows |-> <<>>, sent |-> FALSE]

NtInit ==
    /\ ntNow = 0
    /\ ntCommitted = [r \in Posted |-> -1]
    /\ ntMarked = {}
    /\ ntSweep = [c \in Containers |-> NoSweep]
    /\ ntPosts = [r \in Posted |-> 0]
    /\ ntUnmarked = [r \in Posted |-> 0]
    /\ ntFaults = 0
    /\ ntTrouble = {}
    /\ ntEpisodes = [k \in Keys |-> 0]
    /\ ntChecks = [c \in Containers |-> {}]
    /\ ntLastBad = [c \in Containers |-> {}]
    /\ ntSaid = [c \in Containers |-> [k \in Keys |-> [bad |-> 0, recovered |-> 0]]]
    /\ ntForgotten = [c \in Containers |-> [k \in Keys |-> 0]]

Fault ==
    /\ ntFaults < NtMaxFaults
    /\ ntFaults' = ntFaults + 1

Minute ==
    /\ ntNow < NtMaxTime
    /\ ntNow' = ntNow + 1
    /\ UNCHANGED <<ntCommitted, ntMarked, ntSweep, ntPosts, ntUnmarked, ntAlerts,
                   ntFaults>>

\* The commit job (CommitJob.tla) records the report's batch.
BatchRecorded ==
    /\ \E r \in Posted :
          /\ ntCommitted[r] = -1 /\ ntNow >= Anchors[r]
          /\ ntCommitted' = [ntCommitted EXCEPT ![r] = ntNow]
    /\ UNCHANGED <<ntNow, ntMarked, ntSweep, ntPosts, ntUnmarked, ntAlerts, ntFaults>>

-----------------------------------------------------------------------------
(***************************************************************************)
(* The feed.                                                               *)
(***************************************************************************)

\* Mutant of candidate: reports that were posted before are read again.
CandidateAgain(r) == ntCommitted[r] # -1 /\ Anchors[r] >= ntNow - CandidateWindow

candidate(r) ==
    /\ ntCommitted[r] # -1
    /\ r \notin ntMarked
    /\ Anchors[r] >= ntNow - CandidateWindow

isFresh(r) == ntCommitted[r] - Anchors[r] <= MaxCommitLag

UpTo(s, n) == SubSeq(s, 1, IF Len(s) < n THEN Len(s) ELSE n)

\* postQualifiedLaunches: a stale report takes a place of the read, not of the
\* sweep.
SweepReads(c) ==
    /\ ntSweep[c].rows = <<>>
    /\ LET all == UpTo(Ascending({r \in Posted : candidate(r)}), ReadLimit)
           rows == UpTo(Ascending({r \in ToSet(all) : isFresh(r)}), PostLimit)
       IN  rows # <<>> /\ ntSweep' = [ntSweep EXCEPT ![c].rows = rows]
    /\ UNCHANGED <<ntNow, ntCommitted, ntMarked, ntPosts, ntUnmarked, ntAlerts, ntFaults>>

Next1(c) == [NoSweep EXCEPT !.rows = Tail(ntSweep[c].rows)]

\* The message is sent, or the peers cannot be read or the send fails: on to
\* the next row, this one unmarked.
SendRow(c) ==
    LET r == Head(ntSweep[c].rows)
    IN  /\ ntSweep[c].rows # <<>> /\ ~ntSweep[c].sent
        /\ \/ /\ ntSweep' = [ntSweep EXCEPT ![c].sent = TRUE]
              /\ ntPosts' = [ntPosts EXCEPT ![r] = @ + 1]
              /\ UNCHANGED ntFaults
           \/ /\ Fault
              /\ ntSweep' = [ntSweep EXCEPT ![c] = Next1(c)]
              /\ UNCHANGED ntPosts
        /\ UNCHANGED <<ntNow, ntCommitted, ntMarked, ntUnmarked, ntAlerts>>

\* markPosted, which may fail like the send.
MarkPosted(c) ==
    LET r == Head(ntSweep[c].rows)
    IN  /\ ntSweep[c].sent
        /\ ntSweep' = [ntSweep EXCEPT ![c] = Next1(c)]
        /\ \/ /\ ntMarked' = ntMarked \cup {r}
              /\ UNCHANGED <<ntUnmarked, ntFaults>>
           \/ /\ Fault
              /\ ntUnmarked' = [ntUnmarked EXCEPT ![r] = @ + 1]
              /\ UNCHANGED ntMarked
        /\ UNCHANGED <<ntNow, ntCommitted, ntPosts, ntAlerts>>

FeedRestarts(c) ==
    /\ Fault
    /\ ntUnmarked' = IF ntSweep[c].sent
                     THEN [ntUnmarked EXCEPT ![Head(ntSweep[c].rows)] = @ + 1]
                     ELSE ntUnmarked
    /\ ntSweep' = [ntSweep EXCEPT ![c] = NoSweep]
    /\ UNCHANGED <<ntNow, ntCommitted, ntMarked, ntPosts, ntAlerts>>

FeedNext ==
    \/ Minute \/ BatchRecorded
    \/ \E c \in Containers :
          SweepReads(c) \/ SendRow(c) \/ MarkPosted(c) \/ FeedRestarts(c)

-----------------------------------------------------------------------------
(***************************************************************************)
(* The alerts.  What the four readers answer is arbitrary; an age of -1    *)
(* is that of a row that does not exist.                                   *)
(***************************************************************************)

Readings == [state : {"ACTIVE", "STARVED"}, idsMismatch : BOOLEAN,
             phantom : BOOLEAN, commitAge : {-1, 0, CommitLagMax + 1},
             watcherAge : {-1, StalledMax, StalledMax + 1}]

\* evaluateAlerts: the keys that are bad.
evaluateAlerts(r) ==
    {k \in Keys :
        CASE k = "starved" -> r.state = "STARVED"
          [] k = "ids_trip" -> r.idsMismatch \/ r.phantom
          [] k = "commit_lag" -> r.commitAge # -1 /\ r.commitAge > CommitLagMax
          [] k = "watcher_stalled" -> r.watcherAge # -1 /\ r.watcherAge > StalledMax}

BadSets == {evaluateAlerts(r) : r \in Readings}

\* One key turns bad or recovers (external).
TroubleMoves ==
    /\ \E bad \in BadSets, k \in Keys :
          \/ /\ k \notin ntTrouble /\ bad = ntTrouble \cup {k}
             /\ SumFunctionOnSet(ntEpisodes, Keys) < NtMaxTroubles
             /\ ntEpisodes' = [ntEpisodes EXCEPT ![k] = @ + 1]
             /\ ntTrouble' = bad
          \/ /\ k \in ntTrouble /\ bad = ntTrouble \ {k}
             /\ ntTrouble' = bad /\ UNCHANGED ntEpisodes
    /\ UNCHANGED <<ntFeed, ntFaults, ntChecks, ntLastBad, ntSaid, ntForgotten>>

\* The tick of runAlertLoop evaluates all four; a reader that throws ends it.
AlertsEvaluate(c) ==
    /\ ntChecks[c] = ntLastBad[c]
    /\ ntChecks' = [ntChecks EXCEPT ![c] = ntTrouble]
    /\ UNCHANGED <<ntFeed, ntFaults, ntTrouble, ntEpisodes, ntLastBad, ntSaid, ntForgotten>>

\* Mutant of Settled: a recovery leaves lastBad as it was.
SettledBad(c, k) == ntLastBad[c] \cup {k}

\* lastBad with the key's own answer.
Settled(c, k) == IF k \in ntChecks[c] THEN ntLastBad[c] \cup {k} ELSE ntLastBad[c] \ {k}

\* applyAlertTransitions, one key that differs: its message is awaited before the next
\* key's, and lastBad is set after it, whether it could be sent or not.
ApplyAlertTransitions(c) ==
    /\ \E k \in Keys :
          /\ (k \in ntChecks[c]) # (k \in ntLastBad[c])
          /\ ntSaid' = IF k \in ntChecks[c]
                       THEN [ntSaid EXCEPT ![c][k].bad = @ + 1]
                       ELSE [ntSaid EXCEPT ![c][k].recovered = @ + 1]
          /\ ntLastBad' = [ntLastBad EXCEPT ![c] = Settled(c, k)]
    /\ UNCHANGED <<ntFeed, ntFaults, ntTrouble, ntEpisodes, ntChecks, ntForgotten>>

\* The successor of a container starts with nothing in memory.
AlertsRestart(c) ==
    /\ Fault
    /\ ntChecks' = [ntChecks EXCEPT ![c] = {}]
    /\ ntLastBad' = [ntLastBad EXCEPT ![c] = {}]
    /\ ntForgotten' = [ntForgotten EXCEPT ![c] =
           [k \in Keys |-> ntForgotten[c][k] + (IF k \in ntLastBad[c] THEN 1 ELSE 0)]]
    /\ UNCHANGED <<ntFeed, ntTrouble, ntEpisodes, ntSaid>>

AlertsNext ==
    \/ TroubleMoves
    \/ \E c \in Containers :
          AlertsEvaluate(c) \/ ApplyAlertTransitions(c) \/ AlertsRestart(c)

NtTypeOK ==
    /\ ntMarked \subseteq Posted
    /\ \A c \in Containers :
          /\ ToSet(ntSweep[c].rows) \subseteq Posted
          /\ ntSweep[c].sent => ntSweep[c].rows # <<>>
          /\ ntChecks[c] \cup ntLastBad[c] \subseteq Keys

\* postQualifiedLaunches: a report is sent once per container running, plus once for
\* each send that was never marked, and only if its commit was in time.
SaidOnce ==
    \A r \in Posted :
        /\ ntPosts[r] <= Cardinality(Containers) + ntUnmarked[r]
        /\ ntPosts[r] > 0 => isFresh(r)

\* "Message only on ok->bad or bad->ok" (applyAlertTransitions): a container sends at
\* most one 'bad' for each time the key really turned bad, and one more when a restart
\* forgot that it was; and each 'bad' is answered by one 'recovered', still held in
\* lastBad, or was forgotten by a restart: there is no 'recovered' beside those.
AlertsOnEdge ==
    \A c \in Containers, k \in Keys :
        /\ ntSaid[c][k].bad <= ntEpisodes[k] + ntForgotten[c][k]
        /\ ntSaid[c][k].bad = ntSaid[c][k].recovered + ntForgotten[c][k]
                               + (IF k \in ntLastBad[c] THEN 1 ELSE 0)
=============================================================================
