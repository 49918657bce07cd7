--------------------------- MODULE ForecastProofs ---------------------------
(***************************************************************************)
(* A launch's features and what becomes of its reports: the backfill that  *)
(* looks for launches and resolves them, the scorer that counts the        *)
(* forecasts, and the feed and the alerts that tell of them.  Each         *)
(* component is proved about on its own, for every value of the constants, *)
(* and the last section carries the results over to Services.              *)
(***************************************************************************)
EXTENDS Services, EvidenceProofs

-----------------------------------------------------------------------------
(***************************************************************************)
(* Notifications: any number of containers, reports and faults.            *)
(***************************************************************************)

NtSpec == NtInit /\ [][FeedNext \/ AlertsNext]_ntVars

-----------------------------------------------------------------------------
(***************************************************************************)
(* Who is about to send a report, and who has sent and not marked it.      *)
(***************************************************************************)

Sweep == [rows : Seq(Posted), sent : BOOLEAN]
Distinct(s) == \A i, j \in DOMAIN s : s[i] = s[j] => i = j

\* For a container's sweep w.
Sends(w, r) == w.sent /\ Head(w.rows) = r
Waits(w, r) == \E i \in DOMAIN w.rows : w.rows[i] = r /\ (i > 1 \/ ~w.sent)

SentBy(r) == {c \in Containers : Sends(ntSweep[c], r)}
LeftTo(r) == {c \in Containers : Waits(ntSweep[c], r)}

InTime(r) == ntCommitted[r] # -1 /\ isFresh(r)

NtTypes ==
    /\ ntNow \in Nat
    /\ ntCommitted \in [Posted -> Int]
    /\ ntMarked \subseteq Posted
    /\ ntSweep \in [Containers -> Sweep]
    /\ ntPosts \in [Posted -> Nat]
    /\ ntUnmarked \in [Posted -> Nat]

\* A sweep's rows were committed in time, and each is one report.
Fits(w) ==
    /\ Distinct(w.rows)
    /\ w.sent => w.rows # <<>>
    /\ \A i \in DOMAIN w.rows : InTime(w.rows[i])

\* A report nobody has marked was sent once for each that has yet to mark it; one
\* that is marked may still be sent by those who read it before.
Counted(r) ==
    /\ r \notin ntMarked => ntPosts[r] <= ntUnmarked[r] + Cardinality(SentBy(r))
    /\ r \in ntMarked => ntPosts[r] + Cardinality(LeftTo(r))
                             <= ntUnmarked[r] + Cardinality(Containers)

FeedInv ==
    /\ NtTypes
    /\ \A c \in Containers : Fits(ntSweep[c])
    /\ \A r \in Posted : /\ ntPosts[r] > 0 => InTime(r)
                         /\ Counted(r)

-----------------------------------------------------------------------------
bit(b) == IF b THEN 1 ELSE 0

\* The containers that are sending a report, or have it left, can be counted.
LEMMA FiniteCounts ==
    ASSUME NEW r
    PROVE  /\ IsFiniteSet(SentBy(r)) /\ Cardinality(SentBy(r)) \in Nat
           /\ IsFiniteSet(LeftTo(r)) /\ Cardinality(LeftTo(r)) \in Nat
           /\ Cardinality(Containers) \in Nat
  <1>1. IsFiniteSet(Containers)
    BY NotificationsAssumption
  <1>2. SentBy(r) \in SUBSET Containers /\ LeftTo(r) \in SUBSET Containers
    BY DEF SentBy, LeftTo
  <1>3. IsFiniteSet(SentBy(r)) /\ IsFiniteSet(LeftTo(r))
    BY <1>1, <1>2, FS_Subset
  <1> QED  BY <1>1, <1>3, FS_CardinalityType

\* One member changes, and the count with it.
LEMMA OneMember ==
    ASSUME NEW S, IsFiniteSet(S), NEW T, NEW c, NEW was \in BOOLEAN, NEW is \in BOOLEAN,
           was <=> c \in S, is <=> c \in T, T \ {c} = S \ {c}
    PROVE  Cardinality(T) = Cardinality(S) - bit(was) + bit(is)
  <1>1. /\ IsFiniteSet(S \ {c})
        /\ Cardinality(S \ {c}) = IF was THEN Cardinality(S) - 1 ELSE Cardinality(S)
    BY FS_RemoveElement
  <1> DEFINE U == S \ {c}
  <1>2. c \notin U /\ T = IF is THEN U \cup {c} ELSE U
    OBVIOUS
  <1>3. Cardinality(U \cup {c}) = Cardinality(U) + 1
    <2> HIDE DEF U
    <2> QED  BY <1>1, <1>2, FS_AddElement DEF U
  <1>4. Cardinality(T) = IF is THEN Cardinality(U) + 1 ELSE Cardinality(U)
    BY <1>2, <1>3
  <1>5. Cardinality(S) \in Nat
    BY FS_CardinalityType
  <1> DEFINE n == Cardinality(S)
             m == Cardinality(T)
             k == Cardinality(U)
  <1>6. n \in Nat /\ k = (IF was THEN n - 1 ELSE n) /\ m = IF is THEN k + 1 ELSE k
    BY <1>1, <1>4, <1>5
  <1> HIDE DEF n, m, k
  <1>7. m = n - bit(was) + bit(is)
    BY <1>6 DEF bit
  <1> QED  BY <1>7 DEF n, m

\* One container's sweep changes, and the counts with it.
LEMMA SweepCounts ==
    ASSUME NtTypes, NEW c \in Containers, NEW v \in Sweep,
           ntSweep' = [ntSweep EXCEPT ![c] = v], NEW r
    PROVE  /\ Cardinality(SentBy(r)') =
                  Cardinality(SentBy(r)) - bit(Sends(ntSweep[c], r)) + bit(Sends(v, r))
           /\ Cardinality(LeftTo(r)') =
                  Cardinality(LeftTo(r)) - bit(Waits(ntSweep[c], r)) + bit(Waits(v, r))
  <1>1. ntSweep'[c] = v /\ \A d \in Containers : d # c => ntSweep'[d] = ntSweep[d]
    BY DEF NtTypes
  <1>2. /\ Sends(ntSweep[c], r) <=> c \in SentBy(r)
        /\ Sends(v, r) <=> c \in SentBy(r)'
        /\ SentBy(r)' \ {c} = SentBy(r) \ {c}
    BY <1>1 DEF SentBy
  <1>3. /\ Waits(ntSweep[c], r) <=> c \in LeftTo(r)
        /\ Waits(v, r) <=> c \in LeftTo(r)'
        /\ LeftTo(r)' \ {c} = LeftTo(r) \ {c}
    BY <1>1 DEF LeftTo
  <1>4. Sends(v, r) \in BOOLEAN /\ Sends(ntSweep[c], r) \in BOOLEAN
    BY DEF Sends, Sweep, NtTypes
  <1>5. Waits(v, r) \in BOOLEAN /\ Waits(ntSweep[c], r) \in BOOLEAN
    BY DEF Waits
  <1>6. IsFiniteSet(SentBy(r)) /\ IsFiniteSet(LeftTo(r))
    BY FiniteCounts
  <1>7. Cardinality(SentBy(r)') =
            Cardinality(SentBy(r)) - bit(Sends(ntSweep[c], r)) + bit(Sends(v, r))
    BY <1>2, <1>4, <1>6, OneMember
  <1>8. Cardinality(LeftTo(r)') =
            Cardinality(LeftTo(r)) - bit(Waits(ntSweep[c], r)) + bit(Waits(v, r))
    BY <1>3, <1>5, <1>6, OneMember
  <1> QED  BY <1>7, <1>8

\* No container both waits to send a report and has sent it.
LEMMA OneOrTheOther ==
    ASSUME FeedInv, NEW r \in Posted
    PROVE  ntPosts[r] + Cardinality(LeftTo(r))
               <= ntUnmarked[r] + Cardinality(Containers)
  <1> DEFINE S == SentBy(r)
             L == LeftTo(r)
  <1>1. S \cap L = {}
    <2> SUFFICES ASSUME NEW c \in Containers, Sends(ntSweep[c], r), Waits(ntSweep[c], r)
                 PROVE  FALSE
      BY DEF SentBy, LeftTo
    <2> DEFINE w == ntSweep[c]
    <2>1. w \in Sweep /\ Fits(w)
      BY DEF FeedInv, NtTypes
    <2> HIDE DEF w
    <2>2. Sends(w, r) /\ Waits(w, r)
      BY DEF w
    <2>3. w.rows \in Seq(Posted) /\ w.rows # <<>> /\ w.sent /\ Head(w.rows) = r
      BY <2>1, <2>2 DEF Sweep, Fits, Sends
    <2>4. PICK i \in DOMAIN w.rows : w.rows[i] = r /\ i > 1
      BY <2>2, <2>3 DEF Waits
    <2>5. 1 \in DOMAIN w.rows /\ w.rows[1] = r
      BY <2>3
    <2> QED  BY <2>1, <2>4, <2>5 DEF Fits, Distinct
  <1>2. IsFiniteSet(S) /\ IsFiniteSet(L) /\ Cardinality(S) \in Nat /\ Cardinality(L) \in Nat
        /\ Cardinality(Containers) \in Nat
    BY FiniteCounts
  <1>3. S \cup L \in SUBSET Containers /\ IsFiniteSet(Containers)
    BY NotificationsAssumption DEF SentBy, LeftTo
  <1>4. ntPosts[r] \in Nat /\ ntUnmarked[r] \in Nat /\ Counted(r)
    BY DEF FeedInv, NtTypes
  <1>5. /\ r \notin ntMarked => ntPosts[r] <= ntUnmarked[r] + Cardinality(S)
        /\ r \in ntMarked => ntPosts[r] + Cardinality(L)
                                 <= ntUnmarked[r] + Cardinality(Containers)
    BY <1>4 DEF Counted
  <1> HIDE DEF S, L
  <1>6. Cardinality(S \cup L) = Cardinality(S) + Cardinality(L)
    <2>1. Cardinality(S \cup L) = Cardinality(S) + Cardinality(L) - Cardinality(S \cap L)
      BY <1>2, FS_Union
    <2>2. Cardinality(S \cap L) = 0
      BY <1>1, FS_EmptySet
    <2> QED  BY <1>2, <2>1, <2>2
  <1>7. Cardinality(S \cup L) <= Cardinality(Containers)
    BY <1>3, FS_Subset
  <1>8. ntPosts[r] + Cardinality(L) <= ntUnmarked[r] + Cardinality(Containers)
    BY <1>2, <1>4, <1>5, <1>6, <1>7
  <1> QED  BY <1>8 DEF L

-----------------------------------------------------------------------------
\* The rest of a sweep after its first row.
Rest(w) == [rows |-> Tail(w.rows), sent |-> FALSE]

\* A sweep is its rows and whether the first has been sent.
LEMMA SweepFields ==
    ASSUME NEW w \in Sweep, NEW x
    PROVE  /\ [w EXCEPT !.rows = x] = [rows |-> x, sent |-> w.sent]
           /\ [w EXCEPT !.sent = x] = [rows |-> w.rows, sent |-> x]
  BY DEF Sweep

\* Once its row is marked, or is not, a container goes on with the rest.
LEMMA NextIsRest ==
    ASSUME NEW c
    PROVE  Next1(c) = Rest(ntSweep[c])
  <1> DEFINE t == Tail(ntSweep[c].rows)
  <1>1. NoSweep \in Sweep /\ NoSweep.sent = FALSE
    BY DEF NoSweep, Sweep
  <1>2. [NoSweep EXCEPT !.rows = t] = [rows |-> t, sent |-> NoSweep.sent]
    BY <1>1, SweepFields
  <1> QED  BY <1>1, <1>2 DEF Next1, Rest

\* The rest of the rows is as distinct and as timely, and the first is not among them.
LEMMA RestIs ==
    ASSUME NEW w \in Sweep, Fits(w), w.rows # <<>>
    PROVE  /\ Rest(w) \in Sweep /\ Fits(Rest(w))
           /\ Head(w.rows) \in Posted /\ InTime(Head(w.rows))
           /\ \A r : /\ ~Sends(Rest(w), r)
                     /\ w.sent => (Waits(w, r) <=> Waits(Rest(w), r))
                     /\ ~w.sent => (Waits(w, r) <=>
                                        r = Head(w.rows) \/ Waits(Rest(w), r))
           /\ ~Waits(Rest(w), Head(w.rows))
  <1> DEFINE s == w.rows
             t == Tail(s)
             n == Len(s)
             v == Rest(w)
  <1>1. /\ s \in Seq(Posted) /\ n \in Nat /\ n > 0 /\ DOMAIN s = 1..n
        /\ t \in Seq(Posted) /\ Len(t) = n - 1 /\ DOMAIN t = 1..(n - 1)
        /\ \A i \in 1..(n - 1) : t[i] = s[i + 1]
        /\ Head(s) = s[1] /\ s[1] \in Posted
    BY DEF Sweep
  <1>2. v.rows = t /\ v.sent = FALSE /\ v \in Sweep
    BY <1>1 DEF Rest, Sweep
  <1>3. /\ \A i, j \in 1..n : s[i] = s[j] => i = j
        /\ \A i \in 1..n : InTime(s[i])
    BY <1>1 DEF Fits, Distinct
  <1> HIDE DEF s, t, n, v
  <1>4. Fits(v)
    <2>1. Distinct(t)
      <3> SUFFICES ASSUME NEW i \in 1..(n - 1), NEW j \in 1..(n - 1), t[i] = t[j]
                   PROVE  i = j
        BY <1>1 DEF Distinct
      <3>1. i + 1 \in 1..n /\ j + 1 \in 1..n /\ s[i + 1] = s[j + 1]
        BY <1>1
      <3>2. i + 1 = j + 1
        BY <1>3, <3>1
      <3> QED  BY <1>1, <3>2
    <2>2. \A i \in DOMAIN t : InTime(t[i])
      <3>1. \A i \in 1..(n - 1) : i + 1 \in 1..n
        BY <1>1
      <3> QED  BY <1>1, <1>3, <3>1
    <2> QED  BY <1>2, <2>1, <2>2 DEF Fits
  <1>5. InTime(s[1])
    <2>1. 1 \in 1..n
      BY <1>1
    <2> QED  BY <1>3, <2>1
  <1>6. ASSUME NEW r
        PROVE  Waits(v, r) <=> \E i \in 2..n : s[i] = r
    <2>1. Waits(v, r) <=> \E i \in 1..(n - 1) : t[i] = r
      BY <1>1, <1>2 DEF Waits
    <2>2. ASSUME NEW i \in 1..(n - 1), t[i] = r PROVE \E j \in 2..n : s[j] = r
      <3>1. i + 1 \in 2..n /\ s[i + 1] = r
        BY <1>1, <2>2
      <3> QED  BY <3>1
    <2>3. ASSUME NEW j \in 2..n, s[j] = r PROVE \E i \in 1..(n - 1) : t[i] = r
      <3>1. j - 1 \in 1..(n - 1) /\ (j - 1) + 1 = j
        BY <1>1
      <3>2. t[j - 1] = r
        BY <1>1, <2>3, <3>1
      <3> QED  BY <3>1, <3>2
    <2> QED  BY <2>1, <2>2, <2>3
  <1>7. ASSUME NEW r
        PROVE  Waits(w, r) <=> (\E i \in 2..n : s[i] = r) \/ (~w.sent /\ s[1] = r)
    <2>1. Waits(w, r) <=> \E i \in 1..n : s[i] = r /\ (i > 1 \/ ~w.sent)
      BY <1>1 DEF Waits, s
    <2>2. \A i \in 1..n : i = 1 \/ (i \in 2..n /\ i > 1)
      BY <1>1
    <2>3. \A i \in 2..n : i \in 1..n /\ i > 1
      BY <1>1
    <2>4. 1 \in 1..n /\ ~(1 > 1)
      BY <1>1
    <2> QED  BY <2>1, <2>2, <2>3, <2>4
  <1>8. ~(\E i \in 2..n : s[i] = s[1])
    <2>1. \A i \in 2..n : i \in 1..n /\ i # 1 /\ 1 \in 1..n
      BY <1>1
    <2> QED  BY <1>3, <2>1
  <1>9. \A r : ~Sends(v, r)
    BY <1>2 DEF Sends
  <1>10. ASSUME NEW r
         PROVE  /\ w.sent => (Waits(w, r) <=> Waits(v, r))
                /\ ~w.sent => (Waits(w, r) <=> r = s[1] \/ Waits(v, r))
    BY <1>6, <1>7
  <1>11. ~Waits(v, s[1])
    BY <1>6, <1>8
  <1> QED  BY <1>1, <1>2, <1>4, <1>5, <1>9, <1>10, <1>11 DEF s, v

\* A container without a sweep sends nothing and has nothing left.
LEMMA NoSweepIs ==
    NoSweep \in Sweep /\ Fits(NoSweep) /\ \A r : ~Sends(NoSweep, r) /\ ~Waits(NoSweep, r)
  BY DEF NoSweep, Sweep, Fits, Distinct, Sends, Waits

\* A step of one container, that leaves what was committed alone: what it has to
\* show for each report.
LEMMA OneSweep ==
    ASSUME FeedInv, NtTypes', NEW c \in Containers, NEW v \in Sweep,
           ntSweep' = [ntSweep EXCEPT ![c] = v], Fits(v), UNCHANGED ntCommitted,
           \A r \in Posted :
               /\ ntPosts'[r] > 0 => ntPosts[r] > 0 \/ InTime(r)
               /\ r \notin ntMarked' =>
                      /\ r \notin ntMarked
                      /\ ntPosts'[r] + bit(Sends(ntSweep[c], r)) + ntUnmarked[r] <=
                             ntPosts[r] + bit(Sends(v, r)) + ntUnmarked'[r]
               /\ r \in ntMarked' =>
                      ntPosts'[r] + bit(Waits(v, r)) + ntUnmarked[r] <=
                          ntPosts[r] + bit(Waits(ntSweep[c], r)) + ntUnmarked'[r]
    PROVE  FeedInv'
  <1>1. NtTypes
    BY DEF FeedInv
  <1>2. \A r : InTime(r)' <=> InTime(r)
    BY DEF InTime, isFresh
  <1>3. ASSUME NEW d \in Containers PROVE Fits(ntSweep[d])'
    <2>1. ntSweep'[d] = v \/ ntSweep'[d] = ntSweep[d]
      BY <1>1 DEF NtTypes
    <2>2. Fits(ntSweep'[d])
      BY <2>1 DEF FeedInv
    <2> QED  BY <1>2, <2>2 DEF Fits, InTime, isFresh
  <1>4. ASSUME NEW r \in Posted PROVE (ntPosts[r] > 0 => InTime(r))'
    BY <1>2 DEF FeedInv
  <1>5. ASSUME NEW r \in Posted PROVE Counted(r)'
    <2> DEFINE p == ntPosts[r]
               u == ntUnmarked[r]
               q == ntPosts'[r]
               x == ntUnmarked'[r]
               a == Cardinality(SentBy(r))
               b == Cardinality(SentBy(r)')
               k == Cardinality(LeftTo(r))
               m == Cardinality(LeftTo(r)')
               n == Cardinality(Containers)
               sw == bit(Sends(ntSweep[c], r))
               sv == bit(Sends(v, r))
               ww == bit(Waits(ntSweep[c], r))
               wv == bit(Waits(v, r))
    <2>1. b = a - sw + sv /\ m = k - ww + wv
      BY <1>1, SweepCounts
    <2>2. p \in Nat /\ u \in Nat /\ q \in Nat /\ x \in Nat
      BY <1>1 DEF NtTypes
    <2>3. a \in Nat /\ k \in Nat /\ n \in Nat
      BY FiniteCounts
    <2>4. sw \in Nat /\ sv \in Nat /\ ww \in Nat /\ wv \in Nat
      BY DEF bit
    <2>5. p + k <= u + n
      BY OneOrTheOther
    <2>6. r \notin ntMarked => p <= u + a
      BY DEF FeedInv, Counted
    <2>7. /\ r \notin ntMarked' => r \notin ntMarked /\ q + sw + u <= p + sv + x
          /\ r \in ntMarked' => q + wv + u <= p + ww + x
      OBVIOUS
    <2>8. Counted(r)' <=> /\ r \notin ntMarked' => q <= x + b
                          /\ r \in ntMarked' => q + m <= x + n
      BY DEF Counted
    <2> HIDE DEF p, u, q, x, a, b, k, m, n, sw, sv, ww, wv
    <2>9. CASE r \notin ntMarked'
      <3>1. q <= x + b
        BY <2>1, <2>2, <2>3, <2>4, <2>6, <2>7, <2>9
      <3> QED  BY <2>8, <2>9, <3>1
    <2>10. CASE r \in ntMarked'
      <3>1. q + m <= x + n
        BY <2>1, <2>2, <2>3, <2>4, <2>5, <2>7, <2>10
      <3> QED  BY <2>8, <2>10, <3>1
    <2> QED  BY <2>9, <2>10
  <1> QED  BY <1>3, <1>4, <1>5 DEF FeedInv

-----------------------------------------------------------------------------
(***************************************************************************)
(* What a sweep reads.                                                     *)
(***************************************************************************)

LEMMA UpToIs ==
    ASSUME NEW S, NEW s \in Seq(S), Distinct(s), NEW n \in Nat
    PROVE  /\ UpTo(s, n) \in Seq(S) /\ Distinct(UpTo(s, n))
           /\ \A i \in DOMAIN UpTo(s, n) : \E j \in DOMAIN s : UpTo(s, n)[i] = s[j]
  <1> DEFINE m == IF Len(s) < n THEN Len(s) ELSE n
             t == SubSeq(s, 1, m)
  <1>1. m \in Nat /\ m <= Len(s) /\ Len(s) \in Nat /\ DOMAIN s = 1..Len(s)
    OBVIOUS
  <1>2. \A i \in 1..m : s[i] \in S
    BY <1>1
  <1> HIDE DEF m
  <1>3. 1 \in Int /\ m \in Int
    BY <1>1
  <1>4. /\ t \in Seq(S) /\ Len(t) = IF 1 <= m THEN m - 1 + 1 ELSE 0
        /\ \A i \in 1..(m - 1 + 1) : t[i] = s[1 + i - 1]
    BY <1>2, <1>3, SubSeqProperties
  <1> HIDE DEF t
  <1>5. DOMAIN t = 1..m /\ \A i \in 1..m : t[i] = s[i] /\ i \in DOMAIN s
    BY <1>1, <1>4
  <1>6. Distinct(t)
    BY <1>5 DEF Distinct
  <1>7. t = UpTo(s, n)
    BY DEF UpTo, t, m
  <1> QED  BY <1>4, <1>5, <1>6, <1>7

\* The first n of a set of reports, in createdAt order.
LEMMA FirstRows ==
    ASSUME NEW S \in SUBSET Posted, NEW n \in Nat
    PROVE  LET s == UpTo(Ascending(S), n)
           IN  s \in Seq(S) /\ Distinct(s) /\ ToSet(s) \subseteq S
  <1> DEFINE a == Ascending(S)
             s == UpTo(a, n)
  <1>1. Posted = 1..Len(Anchors) /\ Len(Anchors) \in Nat
    BY NotificationsAssumption DEF Posted
  <1>2. S \in SUBSET Int /\ IsFiniteSet(S)
    <2>1. IsFiniteSet(1..Len(Anchors))
      BY <1>1, FS_Interval
    <2>2. IsFiniteSet(S)
      BY <1>1, <2>1, FS_Subset
    <2> QED  BY <1>1, <2>2
  <1>3. a \in Seq(S)
    BY <1>2, AscendingSeq
  <1>4. Distinct(a)
    <2>1. /\ a \in [1..Cardinality(S) -> S]
          /\ \A i, j \in 1..Cardinality(S) : a[i] = a[j] => i = j
      BY <1>2, AscendingIs
    <2>2. DOMAIN a = 1..Cardinality(S)
      BY <2>1
    <2> QED  BY <2>1, <2>2 DEF Distinct
  <1> HIDE DEF a
  <1>5. s \in Seq(S) /\ Distinct(s)
    BY <1>3, <1>4, UpToIs
  <1> HIDE DEF s
  <1>6. ToSet(s) \subseteq S
    <2>1. \A i \in DOMAIN s : s[i] \in S
      BY <1>5
    <2> QED  BY <2>1 DEF ToSet
  <1> QED  BY <1>5, <1>6 DEF s, a

\* findMany: a sweep reads what is unmarked, fresh and committed.
LEMMA SweepReadsKeepsInv ==
    ASSUME FeedInv, NEW c \in Containers, SweepReads(c)
    PROVE  FeedInv'
  <1> DEFINE cand == {r \in Posted : candidate(r)}
             all == UpTo(Ascending(cand), ReadLimit)
             fresh == {r \in ToSet(all) : isFresh(r)}
             found == UpTo(Ascending(fresh), PostLimit)
             v == [rows |-> found, sent |-> ntSweep[c].sent]
  <1>1. ReadLimit \in Nat /\ PostLimit \in Nat
    BY NotificationsAssumption
  <1>2. ToSet(all) \subseteq cand
    <2>1. cand \in SUBSET Posted
      OBVIOUS
    <2> QED  BY <1>1, <2>1, FirstRows
  <1>3. fresh \in SUBSET Posted /\ \A r \in fresh : candidate(r) /\ isFresh(r)
    BY <1>2
  <1> HIDE DEF fresh
  <1>4. found \in Seq(fresh) /\ Distinct(found)
    BY <1>1, <1>3, FirstRows
  <1>5. found # <<>> /\ ntSweep' = [ntSweep EXCEPT ![c].rows = found]
    BY DEF SweepReads, fresh
  <1> HIDE DEF found
  <1>6. ntSweep \in [Containers -> Sweep] /\ ntSweep[c].rows = <<>> /\ ~ntSweep[c].sent
        /\ Fits(ntSweep[c])
    BY DEF SweepReads, FeedInv, NtTypes, Fits
  <1>7. ntSweep' = [ntSweep EXCEPT ![c] = v]
    <2>1. ntSweep[c] \in Sweep
      BY <1>6
    <2>2. [ntSweep[c] EXCEPT !.rows = found] = v
      BY <2>1, SweepFields
    <2>3. ntSweep' = [ntSweep EXCEPT ![c] = [ntSweep[c] EXCEPT !.rows = found]]
      BY <1>5
    <2> QED  BY <2>2, <2>3
  <1>8. /\ found \in Seq(Posted)
        /\ \A i \in DOMAIN found : candidate(found[i]) /\ isFresh(found[i])
    BY <1>3, <1>4
  <1>9. ntSweep[c].sent = FALSE
    BY <1>6 DEF Sweep
  <1>10. v \in Sweep /\ v.rows = found /\ v.sent = FALSE
    BY <1>8, <1>9 DEF Sweep
  <1>11. Fits(v)
    BY <1>4, <1>8, <1>10 DEF Fits, InTime, candidate
  <1>12. /\ UNCHANGED <<ntNow, ntCommitted, ntMarked, ntPosts, ntUnmarked>>
    BY DEF SweepReads
  <1>13. NtTypes'
    BY <1>6, <1>7, <1>10, <1>12 DEF FeedInv, NtTypes
  <1>14. ASSUME NEW r \in Posted
         PROVE  /\ ~Sends(ntSweep[c], r) /\ ~Sends(v, r) /\ ~Waits(ntSweep[c], r)
                /\ r \in ntMarked => ~Waits(v, r)
    <2>1. ~Sends(ntSweep[c], r) /\ ~Sends(v, r)
      BY <1>9, <1>10 DEF Sends
    <2>2. ~Waits(ntSweep[c], r)
      BY <1>6 DEF Waits
    <2>3. r \in ntMarked => ~Waits(v, r)
      BY <1>8, <1>10 DEF Waits, candidate
    <2> QED  BY <2>1, <2>2, <2>3
  <1> HIDE DEF v
  <1>15. ASSUME NEW r \in Posted
         PROVE  /\ ntPosts'[r] > 0 => ntPosts[r] > 0 \/ InTime(r)
                /\ r \notin ntMarked' =>
                       /\ r \notin ntMarked
                       /\ ntPosts'[r] + bit(Sends(ntSweep[c], r)) + ntUnmarked[r] <=
                              ntPosts[r] + bit(Sends(v, r)) + ntUnmarked'[r]
                /\ r \in ntMarked' =>
                       ntPosts'[r] + bit(Waits(v, r)) + ntUnmarked[r] <=
                           ntPosts[r] + bit(Waits(ntSweep[c], r)) + ntUnmarked'[r]
    <2>1. ntPosts[r] \in Nat /\ ntUnmarked[r] \in Nat
      BY DEF FeedInv, NtTypes
    <2>2. ntPosts'[r] = ntPosts[r] /\ ntUnmarked'[r] = ntUnmarked[r] /\ ntMarked' = ntMarked
      BY <1>12
    <2>3. bit(Sends(ntSweep[c], r)) = 0 /\ bit(Sends(v, r)) = 0
          /\ bit(Waits(ntSweep[c], r)) = 0 /\ (r \in ntMarked => bit(Waits(v, r)) = 0)
      BY <1>14 DEF bit
    <2> QED  BY <2>1, <2>2, <2>3
  <1> QED  BY <1>7, <1>10, <1>11, <1>12, <1>13, <1>15, OneSweep DEF v

-----------------------------------------------------------------------------
(***************************************************************************)
(* The steps of a sweep.                                                   *)
(***************************************************************************)

LEMMA SendRowKeepsInv ==
    ASSUME FeedInv, NEW c \in Containers, SendRow(c)
    PROVE  FeedInv'
  <1> DEFINE w == ntSweep[c]
             h == Head(w.rows)
  <1>1. w \in Sweep /\ Fits(w) /\ w.rows # <<>> /\ ~w.sent
        /\ ntSweep \in [Containers -> Sweep]
    BY DEF SendRow, FeedInv, NtTypes
  <1>2. UNCHANGED <<ntNow, ntCommitted, ntMarked, ntUnmarked>>
    BY DEF SendRow
  <1>3. w.sent = FALSE
    BY <1>1 DEF Sweep
  <1>4. /\ Rest(w) \in Sweep /\ Fits(Rest(w)) /\ h \in Posted /\ InTime(h)
        /\ ~Waits(Rest(w), h)
        /\ \A r : /\ ~Sends(Rest(w), r)
                  /\ Waits(w, r) <=> (r = h \/ Waits(Rest(w), r))
    BY <1>1, RestIs
  <1>5. \A r : ~Sends(w, r)
    BY <1>3 DEF Sends
  <1>6. \A r \in Posted : ntPosts[r] \in Nat /\ ntUnmarked[r] \in Nat
    BY DEF FeedInv, NtTypes
  <1>7. CASE /\ ntSweep' = [ntSweep EXCEPT ![c].sent = TRUE]
             /\ ntPosts' = [ntPosts EXCEPT ![h] = @ + 1]
    <2> DEFINE v == [rows |-> w.rows, sent |-> TRUE]
    <2>1. v \in Sweep /\ v.rows = w.rows /\ v.sent = TRUE
      BY <1>1 DEF Sweep
    <2>2. ntSweep' = [ntSweep EXCEPT ![c] = v]
      <3>1. [w EXCEPT !.sent = TRUE] = v
        BY <1>1, SweepFields
      <3>2. ntSweep' = [ntSweep EXCEPT ![c] = [ntSweep[c] EXCEPT !.sent = TRUE]]
        BY <1>7
      <3> QED  BY <3>1, <3>2
    <2>3. Fits(v)
      BY <1>1, <2>1 DEF Fits
    <2>4. \A r : /\ Sends(v, r) <=> r = h
                 /\ Waits(v, r) <=> Waits(Rest(w), r)
      <3>1. \A r : Sends(v, r) <=> r = h
        BY <2>1 DEF Sends
      <3>2. /\ Rest(v) = Rest(w) /\ v.rows # <<>>
        BY <1>1, <2>1 DEF Rest
      <3>3. \A r : Waits(v, r) <=> Waits(Rest(v), r)
        BY <2>1, <2>3, <3>2, RestIs
      <3> QED  BY <3>1, <3>2, <3>3
    <2>5. ntPosts' \in [Posted -> Nat] /\ ntPosts'[h] = ntPosts[h] + 1
          /\ \A r \in Posted : r # h => ntPosts'[r] = ntPosts[r]
      BY <1>4, <1>7 DEF FeedInv, NtTypes
    <2>6. NtTypes'
      BY <1>1, <1>2, <2>1, <2>2, <2>5 DEF FeedInv, NtTypes
    <2> HIDE DEF v
    <2>7. ASSUME NEW r \in Posted
          PROVE  /\ ntPosts'[r] > 0 => ntPosts[r] > 0 \/ InTime(r)
                 /\ r \notin ntMarked' =>
                        /\ r \notin ntMarked
                        /\ ntPosts'[r] + bit(Sends(ntSweep[c], r)) + ntUnmarked[r] <=
                               ntPosts[r] + bit(Sends(v, r)) + ntUnmarked'[r]
                 /\ r \in ntMarked' =>
                        ntPosts'[r] + bit(Waits(v, r)) + ntUnmarked[r] <=
                            ntPosts[r] + bit(Waits(ntSweep[c], r)) + ntUnmarked'[r]
      <3>1. ntPosts[r] \in Nat /\ ntUnmarked[r] \in Nat
            /\ ntUnmarked'[r] = ntUnmarked[r] /\ ntMarked' = ntMarked
        BY <1>2, <1>6
      <3>2. bit(Sends(w, r)) = 0
        BY <1>5 DEF bit
      <3>3. CASE r = h
        <4>1. ntPosts'[r] = ntPosts[r] + 1 /\ InTime(r)
          BY <1>4, <2>5, <3>3
        <4>2. bit(Sends(v, r)) = 1 /\ bit(Waits(v, r)) = 0 /\ bit(Waits(w, r)) = 1
          BY <1>4, <2>4, <3>3 DEF bit
        <4> QED  BY <3>1, <3>2, <4>1, <4>2
      <3>4. CASE r # h
        <4>1. ntPosts'[r] = ntPosts[r]
          BY <2>5, <3>4
        <4>2. bit(Sends(v, r)) = 0 /\ bit(Waits(v, r)) = bit(Waits(w, r))
          BY <1>4, <2>4, <3>4 DEF bit
        <4>3. bit(Waits(w, r)) \in Nat
          BY DEF bit
        <4> QED  BY <3>1, <3>2, <4>1, <4>2, <4>3
      <3> QED  BY <3>3, <3>4
    <2> QED  BY <1>2, <2>1, <2>2, <2>3, <2>6, <2>7, OneSweep DEF v
  <1>8. CASE ntSweep' = [ntSweep EXCEPT ![c] = Next1(c)] /\ UNCHANGED ntPosts
    <2> DEFINE v == Rest(w)
    <2>1. ntSweep' = [ntSweep EXCEPT ![c] = v]
      BY <1>8, NextIsRest DEF v
    <2> HIDE DEF v
    <2>2. v \in Sweep /\ Fits(v)
      BY <1>4 DEF v
    <2>3. NtTypes'
      BY <1>1, <1>2, <1>8, <2>1, <2>2 DEF FeedInv, NtTypes
    <2>4. ASSUME NEW r \in Posted
          PROVE  /\ ntPosts'[r] > 0 => ntPosts[r] > 0 \/ InTime(r)
                 /\ r \notin ntMarked' =>
                        /\ r \notin ntMarked
                        /\ ntPosts'[r] + bit(Sends(ntSweep[c], r)) + ntUnmarked[r] <=
                               ntPosts[r] + bit(Sends(v, r)) + ntUnmarked'[r]
                 /\ r \in ntMarked' =>
                        ntPosts'[r] + bit(Waits(v, r)) + ntUnmarked[r] <=
                            ntPosts[r] + bit(Waits(ntSweep[c], r)) + ntUnmarked'[r]
      <3>1. ntPosts[r] \in Nat /\ ntUnmarked[r] \in Nat /\ ntPosts' = ntPosts
            /\ ntUnmarked'[r] = ntUnmarked[r] /\ ntMarked' = ntMarked
        BY <1>2, <1>6, <1>8
      <3>2. bit(Sends(w, r)) = 0 /\ bit(Sends(v, r)) = 0
        BY <1>4, <1>5 DEF bit, v
      <3>3. /\ bit(Waits(w, r)) \in Nat /\ bit(Waits(v, r)) \in Nat
            /\ bit(Waits(v, r)) <= bit(Waits(w, r))
        BY <1>4 DEF bit, v
      <3> QED  BY <3>1, <3>2, <3>3
    <2> QED  BY <1>2, <2>1, <2>2, <2>3, <2>4, OneSweep
  <1> QED  BY <1>7, <1>8 DEF SendRow

\* The row is marked, or the mark is lost: the next of the sweep.
LEMMA MarkPostedKeepsInv ==
    ASSUME FeedInv, NEW c \in Containers, MarkPosted(c)
    PROVE  FeedInv'
  <1> DEFINE w == ntSweep[c]
             h == Head(w.rows)
             v == Rest(w)
  <1>1. w \in Sweep /\ Fits(w) /\ w.rows # <<>> /\ w.sent
        /\ ntSweep \in [Containers -> Sweep]
    BY DEF MarkPosted, FeedInv, NtTypes, Fits
  <1>2. UNCHANGED <<ntNow, ntCommitted, ntPosts>>
    BY DEF MarkPosted
  <1>3. /\ v \in Sweep /\ Fits(v) /\ h \in Posted
        /\ \A r : ~Sends(v, r) /\ (Waits(w, r) <=> Waits(v, r))
    BY <1>1, RestIs
  <1>4. \A r : Sends(w, r) <=> r = h
    BY <1>1 DEF Sends
  <1>5. ntSweep' = [ntSweep EXCEPT ![c] = v]
    BY NextIsRest DEF MarkPosted
  <1>6. ASSUME NEW r \in Posted
        PROVE  /\ ntPosts[r] \in Nat /\ ntUnmarked[r] \in Nat /\ ntPosts' = ntPosts
               /\ bit(Sends(w, r)) = (IF r = h THEN 1 ELSE 0) /\ bit(Sends(v, r)) = 0
               /\ bit(Waits(w, r)) \in Nat /\ bit(Waits(v, r)) = bit(Waits(w, r))
    <2>1. ntPosts[r] \in Nat /\ ntUnmarked[r] \in Nat
      BY DEF FeedInv, NtTypes
    <2> QED  BY <1>2, <1>3, <1>4, <2>1 DEF bit
  <1> HIDE DEF v
  <1>7. CASE ntMarked' = ntMarked \cup {h} /\ UNCHANGED ntUnmarked
    <2>1. NtTypes'
      BY <1>1, <1>2, <1>3, <1>5, <1>7 DEF FeedInv, NtTypes
    <2>2. ASSUME NEW r \in Posted
          PROVE  /\ ntPosts'[r] > 0 => ntPosts[r] > 0 \/ InTime(r)
                 /\ r \notin ntMarked' =>
                        /\ r \notin ntMarked
                        /\ ntPosts'[r] + bit(Sends(ntSweep[c], r)) + ntUnmarked[r] <=
                               ntPosts[r] + bit(Sends(v, r)) + ntUnmarked'[r]
                 /\ r \in ntMarked' =>
                        ntPosts'[r] + bit(Waits(v, r)) + ntUnmarked[r] <=
                            ntPosts[r] + bit(Waits(ntSweep[c], r)) + ntUnmarked'[r]
      <3>1. r \notin ntMarked' => r # h /\ r \notin ntMarked
        BY <1>7
      <3>2. ntUnmarked'[r] = ntUnmarked[r]
        BY <1>7
      <3> QED  BY <1>6, <3>1, <3>2
    <2> QED  BY <1>2, <1>3, <1>5, <2>1, <2>2, OneSweep
  <1>8. CASE ntUnmarked' = [ntUnmarked EXCEPT ![h] = @ + 1] /\ UNCHANGED ntMarked
    <2>1. ntUnmarked' \in [Posted -> Nat]
          /\ \A r \in Posted : ntUnmarked'[r] = ntUnmarked[r] + IF r = h THEN 1 ELSE 0
      BY <1>3, <1>8 DEF FeedInv, NtTypes
    <2>2. NtTypes'
      BY <1>1, <1>2, <1>3, <1>5, <1>8, <2>1 DEF FeedInv, NtTypes
    <2>3. ASSUME NEW r \in Posted
          PROVE  /\ ntPosts'[r] > 0 => ntPosts[r] > 0 \/ InTime(r)
                 /\ r \notin ntMarked' =>
                        /\ r \notin ntMarked
                        /\ ntPosts'[r] + bit(Sends(ntSweep[c], r)) + ntUnmarked[r] <=
                               ntPosts[r] + bit(Sends(v, r)) + ntUnmarked'[r]
                 /\ r \in ntMarked' =>
                        ntPosts'[r] + bit(Waits(v, r)) + ntUnmarked[r] <=
                            ntPosts[r] + bit(Waits(ntSweep[c], r)) + ntUnmarked'[r]
      BY <1>6, <1>8, <2>1
    <2> QED  BY <1>2, <1>3, <1>5, <2>2, <2>3, OneSweep
  <1> QED  BY <1>7, <1>8 DEF MarkPosted

\* A container that dies forgets its sweep, and that it has sent the first row.
LEMMA FeedRestartsKeepsInv ==
    ASSUME FeedInv, NEW c \in Containers, FeedRestarts(c)
    PROVE  FeedInv'
  <1> DEFINE w == ntSweep[c]
             h == Head(w.rows)
             v == NoSweep
             forgot(r) == IF w.sent /\ r = h THEN 1 ELSE 0
  <1>1. w \in Sweep /\ Fits(w) /\ ntSweep \in [Containers -> Sweep]
    BY DEF FeedInv, NtTypes
  <1>2. UNCHANGED <<ntNow, ntCommitted, ntMarked, ntPosts>>
        /\ ntSweep' = [ntSweep EXCEPT ![c] = v]
    BY DEF FeedRestarts
  <1>3. v \in Sweep /\ Fits(v) /\ \A r : ~Sends(v, r) /\ ~Waits(v, r)
    BY NoSweepIs
  <1>4. w.sent => h \in Posted
    BY <1>1, RestIs DEF Fits
  <1>5. ntUnmarked' \in [Posted -> Nat]
        /\ \A r \in Posted : ntUnmarked'[r] = ntUnmarked[r] + forgot(r)
    BY <1>4 DEF FeedRestarts, FeedInv, NtTypes
  <1> HIDE DEF v
  <1>6. NtTypes'
    BY <1>1, <1>2, <1>3, <1>5 DEF FeedInv, NtTypes
  <1>7. ASSUME NEW r \in Posted
        PROVE  /\ ntPosts'[r] > 0 => ntPosts[r] > 0 \/ InTime(r)
               /\ r \notin ntMarked' =>
                      /\ r \notin ntMarked
                      /\ ntPosts'[r] + bit(Sends(ntSweep[c], r)) + ntUnmarked[r] <=
                             ntPosts[r] + bit(Sends(v, r)) + ntUnmarked'[r]
               /\ r \in ntMarked' =>
                      ntPosts'[r] + bit(Waits(v, r)) + ntUnmarked[r] <=
                          ntPosts[r] + bit(Waits(ntSweep[c], r)) + ntUnmarked'[r]
    <2>1. ntPosts[r] \in Nat /\ ntUnmarked[r] \in Nat
      BY DEF FeedInv, NtTypes
    <2>2. bit(Sends(w, r)) = forgot(r) /\ bit(Sends(v, r)) = 0 /\ bit(Waits(v, r)) = 0
      BY <1>3 DEF bit, Sends
    <2>3. bit(Waits(w, r)) \in Nat /\ forgot(r) \in Nat
      BY DEF bit
    <2>4. ntUnmarked'[r] = ntUnmarked[r] + forgot(r)
      BY <1>5
    <2> HIDE DEF forgot
    <2> QED  BY <1>2, <2>1, <2>2, <2>3, <2>4
  <1> QED  BY <1>2, <1>3, <1>6, <1>7, OneSweep

\* A batch that is recorded dates reports that had no commit.
LEMMA BatchKeepsInv ==
    ASSUME FeedInv, BatchRecorded
    PROVE  FeedInv'
  <1>1. PICK s \in Posted : ntCommitted[s] = -1
                            /\ ntCommitted' = [ntCommitted EXCEPT ![s] = ntNow]
    BY DEF BatchRecorded
  <1>2. UNCHANGED <<ntNow, ntMarked, ntSweep, ntPosts, ntUnmarked>>
    BY DEF BatchRecorded
  <1>3. ntCommitted \in [Posted -> Int] /\ ntNow \in Nat
    BY DEF FeedInv, NtTypes
  <1>4. ASSUME NEW r \in Posted, InTime(r) PROVE InTime(r)'
    <2>1. r # s
      BY <1>1, <1>4 DEF InTime
    <2>2. ntCommitted'[r] = ntCommitted[r]
      BY <1>1, <1>3, <2>1
    <2> QED  BY <1>4, <2>2 DEF InTime, isFresh
  <1>5. NtTypes'
    BY <1>1, <1>2, <1>3 DEF FeedInv, NtTypes
  <1>6. ASSUME NEW c \in Containers PROVE Fits(ntSweep[c])'
    <2> DEFINE w == ntSweep[c]
    <2>1. Fits(w) /\ w \in Sweep /\ ntSweep'[c] = w
      BY <1>2 DEF FeedInv, NtTypes
    <2> HIDE DEF w
    <2>2. \A i \in DOMAIN w.rows : w.rows[i] \in Posted /\ InTime(w.rows[i])
      BY <2>1 DEF Fits, Sweep
    <2>3. \A i \in DOMAIN w.rows : InTime(w.rows[i])'
      BY <1>2, <1>4, <2>1, <2>2 DEF w
    <2> QED  BY <1>2, <2>1, <2>3 DEF Fits, w
  <1>7. ASSUME NEW r \in Posted
        PROVE  (ntPosts[r] > 0 => InTime(r))' /\ Counted(r)'
    BY <1>2, <1>4 DEF FeedInv, Counted, SentBy, LeftTo
  <1> QED  BY <1>5, <1>6, <1>7 DEF FeedInv

\* The alerts leave the feed alone.
LEMMA FeedRests ==
    ASSUME FeedInv, UNCHANGED <<ntCommitted, ntMarked, ntSweep, ntPosts, ntUnmarked>>,
           ntNow' \in Nat
    PROVE  FeedInv'
  <1>1. NtTypes'
    BY DEF FeedInv, NtTypes
  <1>2. \A c \in Containers : Fits(ntSweep[c])'
    BY DEF FeedInv, Fits, InTime, isFresh
  <1>3. \A r \in Posted : (ntPosts[r] > 0 => InTime(r))' /\ Counted(r)'
    BY DEF FeedInv, Counted, SentBy, LeftTo, InTime, isFresh
  <1> QED  BY <1>1, <1>2, <1>3 DEF FeedInv

-----------------------------------------------------------------------------
(***************************************************************************)
(* What the alert loops have said, and what is still to be said.           *)
(***************************************************************************)

AlertTypes ==
    /\ ntTrouble \subseteq Keys
    /\ ntEpisodes \in [Keys -> Nat]
    /\ ntChecks \in [Containers -> SUBSET Keys]
    /\ ntLastBad \in [Containers -> SUBSET Keys]
    /\ ntSaid \in [Containers -> [Keys -> [bad : Nat, recovered : Nat]]]
    /\ ntForgotten \in [Containers -> [Keys -> Nat]]

\* Of one key of one loop: a 'bad' is answered, held in lastBad or forgotten; and of
\* the times the key turned bad, one is kept for what the tick found and has not said
\* yet, and one for what the next tick will find.
SaidIs(said, forgotten, held) == said.bad = said.recovered + forgotten + bit(held)
ToSay(said, forgotten, found, held, troubled, episodes) ==
    said.bad + bit(found /\ ~held) + bit(troubled /\ ~found) <= episodes + forgotten

KeyInv(c, k) ==
    /\ SaidIs(ntSaid[c][k], ntForgotten[c][k], k \in ntLastBad[c])
    /\ ToSay(ntSaid[c][k], ntForgotten[c][k], k \in ntChecks[c], k \in ntLastBad[c],
           k \in ntTrouble, ntEpisodes[k])

AlertsInv == AlertTypes /\ \A c \in Containers, k \in Keys : KeyInv(c, k)

\* What can be bad is one of the keys.
LEMMA BadSetsAreKeys ==
    \A bad \in BadSets : bad \subseteq Keys
  BY DEF BadSets, evaluateAlerts

\* Nothing has been said, and nothing is bad.
LEMMA AlertsInitially ==
    ASSUME NtInit
    PROVE  AlertsInv
  <1>1. AlertTypes
    BY DEF NtInit, AlertTypes
  <1>2. ASSUME NEW c \in Containers, NEW k \in Keys PROVE KeyInv(c, k)
    <2>1. /\ ntSaid[c][k] = [bad |-> 0, recovered |-> 0] /\ ntForgotten[c][k] = 0
          /\ k \notin ntChecks[c] /\ k \notin ntLastBad[c] /\ k \notin ntTrouble
          /\ ntEpisodes[k] = 0
      BY DEF NtInit
    <2> QED  BY <2>1 DEF KeyInv, SaidIs, ToSay, bit
  <1> QED  BY <1>1, <1>2 DEF AlertsInv

\* One key turns bad, or recovers.
LEMMA TroubleKeepsInv ==
    ASSUME AlertsInv, TroubleMoves
    PROVE  AlertsInv'
  <1>1. AlertTypes /\ UNCHANGED <<ntChecks, ntLastBad, ntSaid, ntForgotten>>
    BY DEF AlertsInv, TroubleMoves
  <1>2. PICK bad \in BadSets, key \in Keys :
            \/ /\ key \notin ntTrouble /\ bad = ntTrouble \cup {key}
               /\ ntEpisodes' = [ntEpisodes EXCEPT ![key] = @ + 1]
               /\ ntTrouble' = bad
            \/ /\ key \in ntTrouble /\ bad = ntTrouble \ {key}
               /\ ntTrouble' = bad /\ UNCHANGED ntEpisodes
    BY DEF TroubleMoves
  <1>3. ntTrouble' \subseteq Keys /\ ntEpisodes' \in [Keys -> Nat]
    BY <1>1, <1>2, BadSetsAreKeys DEF AlertTypes
  <1>4. AlertTypes'
    BY <1>1, <1>3 DEF AlertTypes
  <1>5. ASSUME NEW c \in Containers, NEW k \in Keys PROVE KeyInv(c, k)'
    <2> DEFINE said == ntSaid[c][k]
               forgotten == ntForgotten[c][k]
               found == k \in ntChecks[c]
               held == k \in ntLastBad[c]
               times == ntEpisodes[k]
               more == ntEpisodes'[k]
               was == k \in ntTrouble
               is == k \in ntTrouble'
    <2>1. /\ said.bad \in Nat /\ forgotten \in Nat /\ times \in Nat
          /\ ToSay(said, forgotten, found, held, was, times)
          /\ SaidIs(said, forgotten, held)
      BY <1>1 DEF AlertsInv, AlertTypes, KeyInv
    <2>2. \/ more = times /\ (is => was)
          \/ more = times + 1
      BY <1>1, <1>2 DEF AlertTypes
    <2>3. KeyInv(c, k)' <=> /\ SaidIs(said, forgotten, held)
                            /\ ToSay(said, forgotten, found, held, is, more)
      BY <1>1 DEF KeyInv
    <2> HIDE DEF said, forgotten, found, held, times, more, was, is
    <2>4. ToSay(said, forgotten, found, held, is, more)
      BY <2>1, <2>2 DEF ToSay, bit
    <2> QED  BY <2>1, <2>3, <2>4
  <1> QED  BY <1>4, <1>5 DEF AlertsInv

\* A tick takes what is bad, when it has said all of the one before.
LEMMA EvaluateKeepsInv ==
    ASSUME AlertsInv, NEW c \in Containers, AlertsEvaluate(c)
    PROVE  AlertsInv'
  <1>1. /\ AlertTypes /\ ntChecks[c] = ntLastBad[c]
        /\ ntChecks' = [ntChecks EXCEPT ![c] = ntTrouble]
        /\ UNCHANGED <<ntTrouble, ntEpisodes, ntLastBad, ntSaid, ntForgotten>>
    BY DEF AlertsInv, AlertsEvaluate
  <1>2. AlertTypes'
    BY <1>1 DEF AlertTypes
  <1>3. ASSUME NEW d \in Containers, NEW k \in Keys PROVE KeyInv(d, k)'
    <2>1. KeyInv(d, k)
      BY DEF AlertsInv
    <2>2. CASE d # c
      BY <1>1, <2>1, <2>2 DEF AlertTypes, KeyInv
    <2>3. CASE d = c
      <3> DEFINE said == ntSaid[c][k]
                 forgotten == ntForgotten[c][k]
                 held == k \in ntLastBad[c]
                 was == k \in ntTrouble
      <3>1. ntChecks'[c] = ntTrouble
        BY <1>1 DEF AlertTypes
      <3>2. /\ SaidIs(said, forgotten, held)
            /\ ToSay(said, forgotten, held, held, was, ntEpisodes[k])
            /\ said.bad \in Nat /\ forgotten \in Nat /\ ntEpisodes[k] \in Nat
        BY <1>1, <2>1, <2>3 DEF KeyInv, AlertTypes
      <3>3. KeyInv(d, k)' <=> /\ SaidIs(said, forgotten, held)
                              /\ ToSay(said, forgotten, was, held, was, ntEpisodes[k])
        <4>1. k \in ntChecks'[c] <=> was
          BY <3>1
        <4> QED  BY <1>1, <2>3, <4>1 DEF KeyInv, ToSay, bit
      <3> HIDE DEF said, forgotten, held, was
      <3>4. ToSay(said, forgotten, was, held, was, ntEpisodes[k])
        BY <3>2 DEF ToSay, bit
      <3> QED  BY <3>2, <3>3, <3>4
    <2> QED  BY <2>2, <2>3
  <1> QED  BY <1>2, <1>3 DEF AlertsInv

\* A key's message is sent, and lastBad follows.
LEMMA ApplyKeepsInv ==
    ASSUME AlertsInv, NEW c \in Containers, ApplyAlertTransitions(c)
    PROVE  AlertsInv'
  <1>1. AlertTypes /\ UNCHANGED <<ntTrouble, ntEpisodes, ntChecks, ntForgotten>>
    BY DEF AlertsInv, ApplyAlertTransitions
  <1>2. PICK key \in Keys :
            /\ (key \in ntChecks[c]) # (key \in ntLastBad[c])
            /\ ntSaid' = IF key \in ntChecks[c]
                         THEN [ntSaid EXCEPT ![c][key].bad = @ + 1]
                         ELSE [ntSaid EXCEPT ![c][key].recovered = @ + 1]
            /\ ntLastBad' = [ntLastBad EXCEPT ![c] = Settled(c, key)]
    BY DEF ApplyAlertTransitions
  <1> DEFINE was == ntSaid[c][key]
             is == IF key \in ntChecks[c]
                   THEN [bad |-> was.bad + 1, recovered |-> was.recovered]
                   ELSE [bad |-> was.bad, recovered |-> was.recovered + 1]
  <1>3. was \in [bad : Nat, recovered : Nat] /\ is \in [bad : Nat, recovered : Nat]
    BY <1>1 DEF AlertTypes
  <1>4. ntSaid' = [ntSaid EXCEPT ![c] = [ntSaid[c] EXCEPT ![key] = is]]
    <2>1. [was EXCEPT !.bad = was.bad + 1] = [bad |-> was.bad + 1, recovered |-> was.recovered]
          /\ [was EXCEPT !.recovered = was.recovered + 1]
                 = [bad |-> was.bad, recovered |-> was.recovered + 1]
      BY <1>3
    <2>2. CASE key \in ntChecks[c]
      <3>1. ntSaid' = [ntSaid EXCEPT ![c] = [ntSaid[c] EXCEPT ![key] =
                                                 [was EXCEPT !.bad = was.bad + 1]]]
        BY <1>2, <2>2
      <3> QED  BY <2>1, <2>2, <3>1
    <2>3. CASE key \notin ntChecks[c]
      <3>1. ntSaid' = [ntSaid EXCEPT ![c] = [ntSaid[c] EXCEPT ![key] =
                                                 [was EXCEPT !.recovered = was.recovered + 1]]]
        BY <1>2, <2>3
      <3> QED  BY <2>1, <2>3, <3>1
    <2> QED  BY <2>2, <2>3
  <1> DEFINE row == [ntSaid[c] EXCEPT ![key] = is]
  <1>5. /\ row \in [Keys -> [bad : Nat, recovered : Nat]]
        /\ row[key] = is /\ \A k \in Keys \ {key} : row[k] = ntSaid[c][k]
    <2> HIDE DEF is, was
    <2> QED  BY <1>1, <1>3 DEF AlertTypes
  <1> HIDE DEF row
  <1>6. /\ ntSaid' \in [Containers -> [Keys -> [bad : Nat, recovered : Nat]]]
        /\ ntSaid'[c] = row /\ \A d \in Containers \ {c} : ntSaid'[d] = ntSaid[d]
    <2>1. ntSaid' = [ntSaid EXCEPT ![c] = row]
      BY <1>4 DEF row
    <2> QED  BY <1>1, <1>5, <2>1 DEF AlertTypes
  <1>7. /\ ntLastBad' \in [Containers -> SUBSET Keys]
        /\ \A d \in Containers \ {c} : ntLastBad'[d] = ntLastBad[d]
        /\ key \in ntLastBad'[c] <=> key \in ntChecks[c]
        /\ \A k \in Keys \ {key} : k \in ntLastBad'[c] <=> k \in ntLastBad[c]
    <2>1. /\ Settled(c, key) \in SUBSET Keys
          /\ key \in Settled(c, key) <=> key \in ntChecks[c]
          /\ \A k \in Keys \ {key} : k \in Settled(c, key) <=> k \in ntLastBad[c]
      BY <1>1 DEF AlertTypes, Settled
    <2> HIDE DEF Settled
    <2> QED  BY <1>1, <1>2, <2>1 DEF AlertTypes
  <1>8. AlertTypes'
    BY <1>1, <1>6, <1>7 DEF AlertTypes
  <1>9. ASSUME NEW d \in Containers, NEW k \in Keys PROVE KeyInv(d, k)'
    <2>1. KeyInv(d, k)
      BY DEF AlertsInv
    <2>2. CASE d # c
      BY <1>1, <1>6, <1>7, <2>1, <2>2 DEF KeyInv
    <2>3. CASE d = c /\ k # key
      <3>1. /\ ntSaid'[d][k] = ntSaid[d][k]
            /\ k \in ntLastBad'[d] <=> k \in ntLastBad[d]
        BY <1>5, <1>6, <1>7, <2>3
      <3> QED  BY <1>1, <2>1, <3>1 DEF KeyInv, SaidIs, ToSay, bit
    <2>4. CASE d = c /\ k = key
      <3> DEFINE forgotten == ntForgotten[c][key]
                 found == key \in ntChecks[c]
                 held == key \in ntLastBad[c]
                 troubled == key \in ntTrouble
                 episodes == ntEpisodes[key]
      <3>1. /\ SaidIs(was, forgotten, held)
            /\ ToSay(was, forgotten, found, held, troubled, episodes)
            /\ forgotten \in Nat /\ episodes \in Nat /\ found # held
        BY <1>1, <1>2, <2>1, <2>4 DEF KeyInv, AlertTypes
      <3>2. KeyInv(d, k)' <=> /\ SaidIs(is, forgotten, found)
                              /\ ToSay(is, forgotten, found, found, troubled, episodes)
        BY <1>1, <1>5, <1>6, <1>7, <2>4 DEF KeyInv, SaidIs, ToSay, bit
      <3>3. is = IF found THEN [bad |-> was.bad + 1, recovered |-> was.recovered]
                 ELSE [bad |-> was.bad, recovered |-> was.recovered + 1]
        OBVIOUS
      <3>4. found \in BOOLEAN /\ held \in BOOLEAN /\ troubled \in BOOLEAN
        OBVIOUS
      <3> HIDE DEF forgotten, found, held, troubled, episodes, was, is
      <3>5. CASE found
        <4>1. ~held /\ is.bad = was.bad + 1 /\ is.recovered = was.recovered
          BY <3>1, <3>3, <3>5
        <4> QED  BY <1>3, <3>1, <3>2, <3>5, <4>1 DEF SaidIs, ToSay, bit
      <3>6. CASE ~found
        <4>1. held /\ is.bad = was.bad /\ is.recovered = was.recovered + 1
          BY <3>1, <3>3, <3>4, <3>6
        <4> QED  BY <1>3, <3>1, <3>2, <3>6, <4>1 DEF SaidIs, ToSay, bit
      <3> QED  BY <3>5, <3>6
    <2> QED  BY <2>2, <2>3, <2>4
  <1> QED  BY <1>8, <1>9 DEF AlertsInv

\* A loop that starts again has nothing in lastBad, and forgets what it had.
LEMMA AlertsRestartKeepsInv ==
    ASSUME AlertsInv, NEW c \in Containers, AlertsRestart(c)
    PROVE  AlertsInv'
  <1> DEFINE row == [k \in Keys |-> ntForgotten[c][k] + (IF k \in ntLastBad[c] THEN 1 ELSE 0)]
  <1>1. /\ AlertTypes
        /\ ntChecks' = [ntChecks EXCEPT ![c] = {}]
        /\ ntLastBad' = [ntLastBad EXCEPT ![c] = {}]
        /\ ntForgotten' = [ntForgotten EXCEPT ![c] = row]
        /\ UNCHANGED <<ntTrouble, ntEpisodes, ntSaid>>
    BY DEF AlertsInv, AlertsRestart
  <1>2. /\ row \in [Keys -> Nat]
        /\ \A k \in Keys : row[k] = ntForgotten[c][k] + bit(k \in ntLastBad[c])
    BY <1>1 DEF AlertTypes, bit
  <1> HIDE DEF row
  <1>3. /\ ntForgotten' \in [Containers -> [Keys -> Nat]]
        /\ ntChecks' \in [Containers -> SUBSET Keys] /\ ntLastBad' \in [Containers -> SUBSET Keys]
        /\ ntForgotten'[c] = row /\ ntChecks'[c] = {} /\ ntLastBad'[c] = {}
        /\ \A d \in Containers \ {c} : /\ ntForgotten'[d] = ntForgotten[d]
                                       /\ ntChecks'[d] = ntChecks[d]
                                       /\ ntLastBad'[d] = ntLastBad[d]
    BY <1>1, <1>2 DEF AlertTypes
  <1>4. AlertTypes'
    BY <1>1, <1>3 DEF AlertTypes
  <1>5. ASSUME NEW d \in Containers, NEW k \in Keys PROVE KeyInv(d, k)'
    <2>1. KeyInv(d, k)
      BY DEF AlertsInv
    <2>2. CASE d # c
      BY <1>1, <1>3, <2>1, <2>2 DEF KeyInv
    <2>3. CASE d = c
      <3> DEFINE said == ntSaid[c][k]
                 forgotten == ntForgotten[c][k]
                 after == ntForgotten'[c][k]
                 found == k \in ntChecks[c]
                 held == k \in ntLastBad[c]
                 troubled == k \in ntTrouble
                 episodes == ntEpisodes[k]
      <3>1. /\ SaidIs(said, forgotten, held)
            /\ ToSay(said, forgotten, found, held, troubled, episodes)
            /\ said.bad \in Nat /\ said.recovered \in Nat
            /\ forgotten \in Nat /\ episodes \in Nat
        BY <1>1, <2>1, <2>3 DEF KeyInv, AlertTypes
      <3>2. after = forgotten + bit(held)
        BY <1>2, <1>3
      <3>3. KeyInv(d, k)' <=> /\ SaidIs(said, after, FALSE)
                              /\ ToSay(said, after, FALSE, FALSE, troubled, episodes)
        BY <1>1, <1>3, <2>3 DEF KeyInv, SaidIs, ToSay, bit
      <3> HIDE DEF said, forgotten, after, found, held, troubled, episodes
      <3>4. SaidIs(said, after, FALSE)
        BY <3>1, <3>2 DEF SaidIs, bit
      <3>5. ToSay(said, after, FALSE, FALSE, troubled, episodes)
        BY <3>1, <3>2 DEF ToSay, bit
      <3> QED  BY <3>3, <3>4, <3>5
    <2> QED  BY <2>2, <2>3
  <1> QED  BY <1>4, <1>5 DEF AlertsInv

\* Every step of the alerts.
LEMMA AlertsKeepInv ==
    ASSUME AlertsInv, AlertsNext
    PROVE  AlertsInv'
  BY TroubleKeepsInv, EvaluateKeepsInv, ApplyKeepsInv, AlertsRestartKeepsInv DEF AlertsNext

-----------------------------------------------------------------------------
\* Nothing has been sent.
LEMMA FeedInitially ==
    ASSUME NtInit
    PROVE  FeedInv
  <1>1. NtTypes
    BY NoSweepIs DEF NtInit, NtTypes
  <1>2. ASSUME NEW c \in Containers PROVE Fits(ntSweep[c])
    BY NoSweepIs DEF NtInit
  <1>3. ASSUME NEW r \in Posted PROVE (ntPosts[r] > 0 => InTime(r)) /\ Counted(r)
    <2>1. ntPosts[r] = 0 /\ ntUnmarked[r] = 0 /\ r \notin ntMarked
      BY DEF NtInit
    <2>2. Cardinality(SentBy(r)) \in Nat
      BY FiniteCounts
    <2> QED  BY <2>1, <2>2 DEF Counted
  <1> QED  BY <1>1, <1>2, <1>3 DEF FeedInv

\* Each of the two leaves the other's state alone.
LEMMA FeedAndAlerts ==
    /\ FeedNext => UNCHANGED ntAlerts
    /\ AlertsNext => UNCHANGED ntFeed
    /\ UNCHANGED ntVars => UNCHANGED ntFeed /\ UNCHANGED ntAlerts
  <1>1. FeedNext => UNCHANGED ntAlerts
    BY DEF FeedNext, Minute, BatchRecorded, SweepReads, SendRow, MarkPosted, FeedRestarts
  <1>2. AlertsNext => UNCHANGED ntFeed
    BY DEF AlertsNext, TroubleMoves, AlertsEvaluate, ApplyAlertTransitions, AlertsRestart
  <1>3. UNCHANGED ntVars => UNCHANGED ntFeed /\ UNCHANGED ntAlerts
    BY DEF ntVars
  <1> QED  BY <1>1, <1>2, <1>3

\* Every step of the feed and of the alerts.
LEMMA FeedStep ==
    ASSUME FeedInv, [FeedNext \/ AlertsNext]_ntVars
    PROVE  FeedInv'
  <1>1. ntNow \in Nat
    BY DEF FeedInv, NtTypes
  <1>2. CASE UNCHANGED ntFeed
    <2>1. UNCHANGED <<ntCommitted, ntMarked, ntSweep, ntPosts, ntUnmarked>> /\ ntNow' \in Nat
      BY <1>1, <1>2 DEF ntFeed
    <2> QED  BY <2>1, FeedRests
  <1>3. CASE Minute
    <2>1. UNCHANGED <<ntCommitted, ntMarked, ntSweep, ntPosts, ntUnmarked>> /\ ntNow' \in Nat
      BY <1>1, <1>3 DEF Minute
    <2> QED  BY <2>1, FeedRests
  <1>4. CASE BatchRecorded
    BY <1>4, BatchKeepsInv
  <1>5. ASSUME NEW c \in Containers,
               SweepReads(c) \/ SendRow(c) \/ MarkPosted(c) \/ FeedRestarts(c)
        PROVE  FeedInv'
    BY <1>5, SweepReadsKeepsInv, SendRowKeepsInv, MarkPostedKeepsInv, FeedRestartsKeepsInv
  <1>6. CASE FeedNext
    BY <1>3, <1>4, <1>5, <1>6, Zenon DEF FeedNext
  <1> QED  BY <1>2, <1>6, FeedAndAlerts

\* Every step of the alerts and of the feed.
LEMMA AlertsStep ==
    ASSUME AlertsInv, [FeedNext \/ AlertsNext]_ntVars
    PROVE  AlertsInv'
  <1>1. CASE UNCHANGED ntAlerts
    <2>1. UNCHANGED <<ntTrouble, ntEpisodes, ntChecks, ntLastBad, ntSaid, ntForgotten>>
      BY <1>1 DEF ntAlerts
    <2> QED  BY <2>1 DEF AlertsInv, AlertTypes, KeyInv
  <1>2. CASE AlertsNext
    BY <1>2, AlertsKeepInv
  <1> QED  BY <1>1, <1>2, FeedAndAlerts

\* The invariants give the properties.
LEMMA FeedImplies ==
    ASSUME FeedInv, AlertsInv
    PROVE  NtTypeOK /\ SaidOnce
  <1>1. ASSUME NEW c \in Containers
        PROVE  /\ ToSet(ntSweep[c].rows) \subseteq Posted
               /\ ntSweep[c].sent => ntSweep[c].rows # <<>>
               /\ ntChecks[c] \cup ntLastBad[c] \subseteq Keys
    <2> DEFINE w == ntSweep[c]
    <2>1. w \in Sweep /\ Fits(w)
      BY DEF FeedInv, NtTypes
    <2> HIDE DEF w
    <2>2. w.rows \in Seq(Posted)
      BY <2>1 DEF Sweep
    <2>3. ToSet(w.rows) \subseteq Posted
      BY <2>2 DEF ToSet
    <2>4. ntChecks[c] \cup ntLastBad[c] \subseteq Keys
      BY DEF AlertsInv, AlertTypes
    <2> QED  BY <2>1, <2>3, <2>4 DEF Fits, w
  <1>2. NtTypeOK
    BY <1>1 DEF NtTypeOK, FeedInv, NtTypes
  <1>3. ASSUME NEW r \in Posted
        PROVE  ntPosts[r] <= Cardinality(Containers) + ntUnmarked[r]
    <2>1. ntPosts[r] + Cardinality(LeftTo(r)) <= ntUnmarked[r] + Cardinality(Containers)
      BY OneOrTheOther
    <2>2. ntPosts[r] \in Nat /\ ntUnmarked[r] \in Nat
      BY DEF FeedInv, NtTypes
    <2> QED  BY <2>1, <2>2, FiniteCounts
  <1>4. \A r \in Posted : ntPosts[r] > 0 => isFresh(r)
    BY DEF FeedInv, InTime
  <1>5. SaidOnce
    BY <1>3, <1>4 DEF SaidOnce
  <1> QED  BY <1>2, <1>5

\* What is due and what is answered leave no message off its edge.
LEMMA AlertsImply == AlertsInv => AlertsOnEdge
  <1> SUFFICES ASSUME AlertsInv, NEW c \in Containers, NEW k \in Keys
               PROVE  /\ ntSaid[c][k].bad <= ntEpisodes[k] + ntForgotten[c][k]
                      /\ ntSaid[c][k].bad = ntSaid[c][k].recovered + ntForgotten[c][k]
                                             + (IF k \in ntLastBad[c] THEN 1 ELSE 0)
    BY DEF AlertsOnEdge
  <1> DEFINE said == ntSaid[c][k]
             forgotten == ntForgotten[c][k]
             held == k \in ntLastBad[c]
             found == k \in ntChecks[c]
             troubled == k \in ntTrouble
             episodes == ntEpisodes[k]
  <1>1. /\ said.bad \in Nat /\ forgotten \in Nat /\ episodes \in Nat
        /\ SaidIs(said, forgotten, held)
        /\ ToSay(said, forgotten, found, held, troubled, episodes)
    BY DEF AlertsInv, AlertTypes, KeyInv
  <1> HIDE DEF said, forgotten, found, troubled, episodes, held
  <1>2. /\ said.bad <= episodes + forgotten
        /\ said.bad = said.recovered + forgotten + (IF held THEN 1 ELSE 0)
    BY <1>1 DEF SaidIs, ToSay, bit
  <1> QED  BY <1>2 DEF said, forgotten, held, episodes

\* postQualifiedLaunches, for any number of workers that run at once, reports, times and
\* failures: a report is sent once by each, and once more for a mark that was lost.
THEOREM MessagesSaidOnce == NtSpec => [](NtTypeOK /\ SaidOnce)
  <1>1. NtInit => FeedInv /\ AlertsInv
    BY FeedInitially, AlertsInitially
  <1>2. (FeedInv /\ AlertsInv) /\ [FeedNext \/ AlertsNext]_ntVars => (FeedInv /\ AlertsInv)'
    BY FeedStep, AlertsStep
  <1>3. FeedInv /\ AlertsInv => NtTypeOK /\ SaidOnce
    BY FeedImplies
  <1> QED  BY <1>1, <1>2, <1>3, PTL DEF NtSpec

\* runAlertLoop, for any number of workers, troubles and restarts: one 'bad' for each time
\* a key turned bad or was forgotten, one 'recovered' for each 'bad' that was not.
THEOREM AlertsOnlyOnEdges == NtSpec => []AlertsOnEdge
  <1>1. NtInit => AlertsInv
    BY AlertsInitially
  <1>2. AlertsInv /\ [FeedNext \/ AlertsNext]_ntVars => AlertsInv'
    BY AlertsStep
  <1> QED  BY <1>1, <1>2, AlertsImply, PTL DEF NtSpec

-----------------------------------------------------------------------------
(***************************************************************************)
(* Backfill: any chunks, launches, budget, options and number of runs.     *)
(***************************************************************************)

BfSpec == BfInit /\ [][BfNext]_bfVars

-----------------------------------------------------------------------------
Phases == {"idle", "repool", "discover", "ingest", "features", "outcomes", "report", "done"}

BfTypes ==
    /\ bfOpts \in BfOptions
    /\ bfPhase \in Phases
    /\ bfWork \in Seq(Nat) /\ bfIds \in Seq(Nat)
    /\ bfChunk \in 1..(Len(ChunkPools) + 1)
    /\ bfUsed \in Nat /\ bfStopped \in BOOLEAN
    /\ bfDone = [scanned |-> bfDone.scanned, holes |-> bfDone.holes, tried |-> bfDone.tried]
    /\ bfLaunches \subseteq Nat /\ IsFiniteSet(bfLaunches)
    /\ BfTypeOK

\* The chunks looked at are those before the next, and afterwards all of them, or
\* something ended the search.
looked == bfDone.scanned \cup bfDone.holes
Searched ==
    /\ bfPhase \in {"idle", "repool", "discover", "ingest"} => looked = 1..(bfChunk - 1)
    /\ bfPhase \in {"features", "outcomes", "report"} =>
           bfOpts.resolveOnly \/ capped \/ overBudget \/ looked = DOMAIN ChunkPools
    /\ bfPhase = "done" =>
           bfOpts.resolveOnly \/ capped \/ bfStopped \/ looked = DOMAIN ChunkPools

\* A launch that is owed its features was tried or is among those left.
Owed == IF bfOpts.resolveOnly THEN bfLaunches \ bfFeatured ELSE ToSet(bfIds)
Tried ==
    /\ bfOpts.resolveOnly => bfIds = <<>> /\ bfPhase # "ingest"
    /\ bfPhase = "features" =>
           /\ ToSet(bfWork) \subseteq bfLaunches
           /\ bfOpts.skipFeatures \/ Owed \subseteq bfDone.tried \cup ToSet(bfWork)
    /\ bfPhase \in {"outcomes", "report", "done"} =>
           bfOpts.skipFeatures \/ bfStopped \/ Owed \subseteq bfDone.tried

\* The sweeps ended because nothing was due.
Swept ==
    /\ bfPhase = "report" => bfOpts.featuresOnly \/ overBudget \/ bfQuiet = 2
    /\ bfPhase = "done" => bfOpts.featuresOnly \/ bfStopped \/ bfQuiet = 2

BackfillInv == BfTypes /\ Searched /\ Tried /\ Swept

-----------------------------------------------------------------------------
\* A sequence's members are the first and those of the rest.
LEMMA FirstAndRest ==
    ASSUME NEW s \in Seq(Nat), s # <<>>
    PROVE  /\ Head(s) \in Nat /\ Tail(s) \in Seq(Nat)
           /\ ToSet(s) = {Head(s)} \cup ToSet(Tail(s))
  <1> DEFINE n == Len(s)
             t == Tail(s)
  <1>1. /\ n \in Nat /\ n > 0 /\ DOMAIN s = 1..n /\ s[1] \in Nat /\ Head(s) = s[1]
        /\ t \in Seq(Nat) /\ DOMAIN t = 1..(n - 1) /\ \A i \in 1..(n - 1) : t[i] = s[i + 1]
    OBVIOUS
  <1> HIDE DEF n, t
  <1>2. ASSUME NEW x \in ToSet(s) PROVE x = s[1] \/ x \in ToSet(t)
    <2>1. PICK i \in 1..n : x = s[i]
      BY <1>1, <1>2 DEF ToSet
    <2>2. CASE i # 1
      <3>1. i - 1 \in 1..(n - 1) /\ (i - 1) + 1 = i
        BY <1>1, <2>2
      <3>2. t[i - 1] = x
        BY <1>1, <2>1, <3>1
      <3> QED  BY <1>1, <3>1, <3>2 DEF ToSet
    <2> QED  BY <2>1, <2>2
  <1>3. ASSUME NEW x \in ToSet(t) PROVE x \in ToSet(s)
    <2>1. PICK i \in 1..(n - 1) : x = t[i]
      BY <1>1, <1>3 DEF ToSet
    <2>2. i + 1 \in 1..n /\ s[i + 1] = x
      BY <1>1, <2>1
    <2> QED  BY <1>1, <2>2 DEF ToSet
  <1>4. s[1] \in ToSet(s)
    <2>1. 1 \in 1..n
      BY <1>1
    <2> QED  BY <1>1, <2>1 DEF ToSet
  <1>5. ToSet(s) = {s[1]} \cup ToSet(t)
    BY <1>2, <1>3, <1>4
  <1> QED  BY <1>1, <1>5 DEF t

\* Appending adds one member.
LEMMA AppendedSet ==
    ASSUME NEW s \in Seq(Nat), NEW x \in Nat
    PROVE  ToSet(Append(s, x)) \subseteq ToSet(s) \cup {x}
  <1>1. /\ DOMAIN Append(s, x) = 1..(Len(s) + 1) /\ DOMAIN s = 1..Len(s) /\ Len(s) \in Nat
        /\ \A i \in 1..Len(s) : Append(s, x)[i] = s[i]
        /\ Append(s, x)[Len(s) + 1] = x
    OBVIOUS
  <1>2. \A i \in 1..(Len(s) + 1) : i \in 1..Len(s) \/ i = Len(s) + 1
    BY <1>1
  <1> QED  BY <1>1, <1>2 DEF ToSet

\* The empty sequence has no members.
LEMMA NothingInIt ==
    <<>> \in Seq(Nat) /\ ToSet(<<>>) = {}
  BY DEF ToSet

\* The launches a phase takes up, in their order.
LEMMA LaunchesInOrder ==
    ASSUME NEW S \in SUBSET Nat, IsFiniteSet(S)
    PROVE  Ascending(S) \in Seq(Nat) /\ ToSet(Ascending(S)) = S
  <1>1. S \in SUBSET Int
    OBVIOUS
  <1>2. Ascending(S) \in Seq(S) /\ ToSet(Ascending(S)) = S
    BY <1>1, AscendingSeq
  <1> DEFINE s == Ascending(S)
             n == Len(s)
  <1>3. s \in [1..n -> S] /\ n \in Nat
    BY <1>2
  <1> HIDE DEF s, n
  <1>4. s \in [1..n -> Nat]
    BY <1>3
  <1>5. s \in Seq(Nat)
    BY <1>3, <1>4
  <1> QED  BY <1>2, <1>5 DEF s

\* A run that is over its budget stays so.
LEMMA BudgetStaysSpent ==
    ASSUME BfTypes, bfOpts' = bfOpts, bfUsed' \in Nat, bfUsed' >= bfUsed, overBudget
    PROVE  overBudget'
  <1>1. bfOpts.maxCalls \in CallCaps
    BY DEF BfTypes, BfOptions
  <1>2. bfOpts.maxCalls \in Nat /\ bfUsed \in Nat
    BY <1>1, BackfillAssumption DEF BfTypes
  <1> QED  BY <1>2 DEF overBudget

\* Calls are counted.
LEMMA CallsAdd ==
    ASSUME BfTypes, Calls
    PROVE  bfUsed' \in Nat /\ bfUsed' >= bfUsed
  BY BackfillAssumption DEF BfTypes, Calls

-----------------------------------------------------------------------------
\* A run starts with its options.
LEMMA StartKeeps ==
    ASSUME BackfillInv, RunStarts
    PROVE  BackfillInv'
  <1>1. Ascending(bfLaunches) \in Seq(Nat)
    BY LaunchesInOrder DEF BackfillInv, BfTypes
  <1> QED  BY <1>1, NothingInIt DEF BackfillInv, BfTypes, BfTypeOK, Searched, Tried, Swept,
              looked, Owed, capped, overBudget, RunStarts, Phases

\* The repool phase gives way to discovery.
LEMMA RepoolKeeps ==
    ASSUME BackfillInv, Repool
    PROVE  BackfillInv'
  <1>1. UNCHANGED <<bfOpts, bfChunk, bfIds, bfQuiet, bfDone, bfLaunches, bfFeatured>>
        /\ bfPhase' \in {"repool", "discover"} /\ bfPhase = "repool"
    BY DEF Repool
  <1>2. bfWork' \in Seq(Nat) /\ bfUsed' \in Nat /\ bfStopped' \in BOOLEAN
    BY NothingInIt, FirstAndRest, CallsAdd DEF Repool, BackfillInv, BfTypes
  <1> QED  BY <1>1, <1>2 DEF BackfillInv, BfTypes, BfTypeOK, Searched, Tried, Swept,
              looked, Owed, Phases

\* A chunk is scanned, or its failure leaves a hole.
LEMMA DiscoverKeeps ==
    ASSUME BackfillInv, Discover
    PROVE  BackfillInv'
  <1>1. UNCHANGED <<bfOpts, bfIds, bfStopped, bfQuiet, bfLaunches, bfFeatured>>
        /\ bfPhase = "discover"
    BY DEF Discover
  <1>2. bfUsed' \in Nat /\ bfUsed' >= bfUsed
    BY CallsAdd DEF Discover, BackfillInv, BfTypes
  <1>3. ChunkPools \in Seq(Seq(Nat)) /\ DOMAIN ChunkPools = 1..Len(ChunkPools)
        /\ Len(ChunkPools) \in Nat
    BY BackfillAssumption
  <1>4. looked = 1..(bfChunk - 1) /\ bfChunk \in 1..(Len(ChunkPools) + 1)
    BY <1>1 DEF BackfillInv, BfTypes, Searched
  <1>5. CASE bfOpts.resolveOnly \/ bfChunk > Len(ChunkPools) \/ overBudget \/ capped
    <2>1. /\ bfPhase' = "features"
          /\ bfWork' = CASE bfOpts.skipFeatures -> <<>>
                         [] ~bfOpts.skipFeatures /\ bfOpts.resolveOnly ->
                                Ascending(IF bfOpts.refeature THEN bfLaunches
                                          ELSE bfLaunches \ bfFeatured)
                         [] OTHER -> bfIds
          /\ UNCHANGED <<bfUsed, bfChunk, bfDone>>
      BY <1>5 DEF Discover, Features
    <2>2. bfLaunches \in SUBSET Nat /\ IsFiniteSet(bfLaunches)
          /\ (bfLaunches \ bfFeatured) \in SUBSET Nat /\ IsFiniteSet(bfLaunches \ bfFeatured)
      BY FS_Subset DEF BackfillInv, BfTypes
    <2>3. /\ Ascending(bfLaunches) \in Seq(Nat)
          /\ ToSet(Ascending(bfLaunches)) = bfLaunches
          /\ Ascending(bfLaunches \ bfFeatured) \in Seq(Nat)
          /\ ToSet(Ascending(bfLaunches \ bfFeatured)) = bfLaunches \ bfFeatured
      BY <2>2, LaunchesInOrder
    <2>4. bfWork' \in Seq(Nat) /\ ToSet(bfWork') \subseteq bfLaunches
          /\ (bfOpts.skipFeatures \/ Owed \subseteq ToSet(bfWork'))
      <3>1. bfIds \in Seq(Nat) /\ ToSet(bfIds) \subseteq bfLaunches
        BY DEF BackfillInv, BfTypes, BfTypeOK
      <3>2. CASE bfOpts.skipFeatures
        <4>1. bfWork' = <<>>
          BY <2>1, <3>2
        <4> QED  BY <4>1, <3>2, NothingInIt
      <3>3. CASE ~bfOpts.skipFeatures /\ bfOpts.resolveOnly
        <4>1. bfWork' = IF bfOpts.refeature THEN Ascending(bfLaunches)
                        ELSE Ascending(bfLaunches \ bfFeatured)
          BY <2>1, <3>3
        <4> QED  BY <4>1, <2>3, <3>3 DEF Owed
      <3>4. CASE ~bfOpts.skipFeatures /\ ~bfOpts.resolveOnly
        <4>1. bfWork' = bfIds
          BY <2>1, <3>4
        <4> QED  BY <4>1, <3>1, <3>4 DEF Owed
      <3> QED  BY <3>2, <3>3, <3>4
    <2>5. Searched'
      <3>1. looked' = looked /\ capped' = capped /\ overBudget' = overBudget
        BY <1>1, <2>1 DEF looked, capped, overBudget
      <3>2. bfChunk > Len(ChunkPools) => looked = DOMAIN ChunkPools
        BY <1>3, <1>4
      <3> QED  BY <1>1, <1>5, <2>1, <3>1, <3>2 DEF Searched
    <2>6. Tried'
      <3>1. Owed' = Owed
        BY <1>1 DEF Owed
      <3> QED  BY <1>1, <2>1, <2>4, <3>1 DEF Tried, BackfillInv
    <2> QED  BY <1>1, <1>2, <2>1, <2>4, <2>5, <2>6 DEF BackfillInv, BfTypes, BfTypeOK, Swept,
                Phases
  <1>6. CASE ~(bfOpts.resolveOnly \/ bfChunk > Len(ChunkPools) \/ overBudget \/ capped)
    <2>1. bfChunk' = bfChunk + 1 /\ bfChunk \in 1..Len(ChunkPools)
      BY <1>3, <1>4, <1>6 DEF Discover
    <2>2. /\ bfPhase' \in {"discover", "ingest"}
          /\ bfWork' \in {bfWork, ChunkPools[bfChunk]}
          /\ \/ bfDone' = [bfDone EXCEPT !.scanned = @ \cup {bfChunk}]
             \/ bfDone' = [bfDone EXCEPT !.holes = @ \cup {bfChunk}]
      BY <1>1, <1>6 DEF Discover
    <2>3. bfWork' \in Seq(Nat)
      BY <1>3, <2>1, <2>2 DEF BackfillInv, BfTypes
    <2> DEFINE d == bfDone
    <2>4. d = [scanned |-> d.scanned, holes |-> d.holes, tried |-> d.tried]
      BY DEF BackfillInv, BfTypes
    <2>5. /\ bfDone' = [scanned |-> bfDone'.scanned, holes |-> bfDone'.holes,
                        tried |-> bfDone'.tried]
          /\ bfDone'.tried = bfDone.tried
          /\ bfDone'.scanned \cup bfDone'.holes
                 = (bfDone.scanned \cup bfDone.holes) \cup {bfChunk}
      <3>1. CASE bfDone' = [d EXCEPT !.scanned = @ \cup {bfChunk}]
        BY <2>4, <3>1
      <3>2. CASE bfDone' = [d EXCEPT !.holes = @ \cup {bfChunk}]
        BY <2>4, <3>2
      <3> QED  BY <2>2, <3>1, <3>2
    <2>6. looked' = 1..(bfChunk' - 1)
      <3>1. looked' = looked \cup {bfChunk}
        BY <2>5 DEF looked
      <3>2. 1..((bfChunk + 1) - 1) = 1..(bfChunk - 1) \cup {bfChunk}
        BY <2>1, <1>3
      <3> QED  BY <1>4, <2>1, <3>1, <3>2
    <2>7. bfChunk' \in 1..(Len(ChunkPools) + 1)
      BY <1>3, <2>1
    <2>8. ~bfOpts.resolveOnly
      BY <1>6
    <2> QED  BY <1>1, <1>2, <2>2, <2>3, <2>5, <2>6, <2>7, <2>8
             DEF BackfillInv, BfTypes, BfTypeOK, Searched, Tried, Swept, Phases
  <1> QED  BY <1>5, <1>6

\* A pool of the chunk is ingested.
LEMMA IngestKeeps ==
    ASSUME BackfillInv, Ingest
    PROVE  BackfillInv'
  <1>1. UNCHANGED <<bfOpts, bfChunk, bfStopped, bfQuiet, bfDone, bfFeatured>>
        /\ bfPhase = "ingest" /\ bfPhase' \in {"ingest", "discover"}
    BY DEF Ingest
  <1>2. bfUsed' \in Nat
    BY CallsAdd DEF Ingest, BackfillInv, BfTypes
  <1>3. looked' = looked
    BY <1>1 DEF looked
  <1>4. CASE bfWork' = <<>> /\ UNCHANGED <<bfIds, bfLaunches>>
    BY <1>1, <1>2, <1>3, <1>4, NothingInIt
       DEF BackfillInv, BfTypes, BfTypeOK, Searched, Tried, Swept, Phases
  <1>5. CASE ~(bfWork = <<>> \/ overBudget \/ capped)
    <2> DEFINE l == Head(bfWork)
    <2>1. l \in Nat /\ Tail(bfWork) \in Seq(Nat) /\ bfWork' = Tail(bfWork)
      BY <1>5, FirstAndRest DEF Ingest, BackfillInv, BfTypes
    <2>3. bfIds \in Seq(Nat) /\ ToSet(bfIds) \subseteq bfLaunches
          /\ bfLaunches \subseteq Nat /\ IsFiniteSet(bfLaunches)
      BY DEF BackfillInv, BfTypes, BfTypeOK
    <2>4. \/ UNCHANGED <<bfIds, bfLaunches>>
          \/ bfLaunches' = bfLaunches \cup {l} /\ bfIds' \in {bfIds, Append(bfIds, l)}
      BY <1>5 DEF Ingest
    <2>5. /\ bfIds' \in Seq(Nat) /\ ToSet(bfIds') \subseteq bfLaunches'
          /\ bfLaunches' \subseteq Nat /\ IsFiniteSet(bfLaunches')
          /\ bfLaunches \subseteq bfLaunches'
      <3>1. Append(bfIds, l) \in Seq(Nat) /\ ToSet(Append(bfIds, l)) \subseteq bfLaunches \cup {l}
        BY <2>1, <2>3, AppendedSet
      <3>2. IsFiniteSet(bfLaunches \cup {l})
        BY <2>3, FS_AddElement
      <3> HIDE DEF l
      <3>3. l \in Nat
        BY <2>1 DEF l
      <3> QED  BY <2>3, <2>4, <3>1, <3>2, <3>3
    <2>6. ~bfOpts.resolveOnly
      BY <1>1 DEF BackfillInv, Tried
    <2> QED  BY <1>1, <1>2, <1>3, <2>1, <2>5, <2>6
             DEF BackfillInv, BfTypes, BfTypeOK, Searched, Tried, Swept, Phases
  <1> QED  BY <1>4, <1>5 DEF Ingest

\* A launch's features are tried.
LEMMA FeatureKeeps ==
    ASSUME BackfillInv, Feature
    PROVE  BackfillInv'
  <1>1. UNCHANGED <<bfOpts, bfChunk, bfIds, bfQuiet, bfLaunches>> /\ bfPhase = "features"
    BY DEF Feature
  <1>2. bfUsed' \in Nat /\ bfUsed' >= bfUsed
    BY CallsAdd DEF Feature, BackfillInv, BfTypes
  <1>3. /\ bfOpts.resolveOnly \/ capped \/ overBudget \/ looked = DOMAIN ChunkPools
        /\ bfOpts.resolveOnly => bfIds = <<>>
        /\ ToSet(bfWork) \subseteq bfLaunches
        /\ bfOpts.skipFeatures \/ Owed \subseteq bfDone.tried \cup ToSet(bfWork)
    BY <1>1 DEF BackfillInv, Searched, Tried
  <1>4. capped' = capped /\ (overBudget => overBudget')
    BY <1>1, <1>2, BudgetStaysSpent DEF capped, BackfillInv
  <1>5. CASE bfWork = <<>> \/ overBudget
    <2>1. /\ bfStopped' = (bfStopped \/ bfWork # <<>>)
          /\ bfPhase' = IF bfOpts.featuresOnly THEN "report" ELSE "outcomes"
          /\ bfWork' = <<>>
          /\ UNCHANGED <<bfDone, bfFeatured>>
      BY <1>5 DEF Feature
    <2>2. Owed' = Owed /\ looked' = looked
      BY <1>1, <2>1 DEF Owed, looked
    <2>3. bfOpts.skipFeatures \/ bfStopped' \/ Owed \subseteq bfDone.tried
      BY <1>3, <2>1, NothingInIt
    <2>4. bfPhase' \in {"report", "outcomes"} /\ (bfPhase' = "report" => bfOpts.featuresOnly)
      BY <2>1
    <2>5. bfStopped' \in BOOLEAN
      BY <2>1 DEF BackfillInv, BfTypes
    <2>6. BfTypes'
      BY <1>1, <1>2, <2>1, <2>4, <2>5, NothingInIt DEF BackfillInv, BfTypes, BfTypeOK, Phases
    <2>7. Searched' /\ Tried' /\ Swept'
      BY <1>1, <1>3, <1>4, <2>1, <2>2, <2>3, <2>4 DEF Searched, Tried, Swept
    <2> QED  BY <2>6, <2>7 DEF BackfillInv
  <1>6. CASE ~(bfWork = <<>> \/ overBudget)
    <2> DEFINE l == Head(bfWork)
               t == Tail(bfWork)
               d == bfDone
    <2>1. l \in Nat /\ t \in Seq(Nat) /\ ToSet(bfWork) = {l} \cup ToSet(t)
      BY <1>6, FirstAndRest DEF BackfillInv, BfTypes
    <2>2. /\ bfWork' = t /\ bfPhase' = bfPhase /\ bfStopped' = bfStopped
          /\ bfFeatured' \in {bfFeatured, bfFeatured \cup {l}}
          /\ bfDone' = [d EXCEPT !.tried = @ \cup {l}]
      BY <1>6 DEF Feature
    <2> HIDE DEF l, t
    <2>3. d = [scanned |-> d.scanned, holes |-> d.holes, tried |-> d.tried]
      BY DEF BackfillInv, BfTypes
    <2>4. /\ bfDone' = [scanned |-> bfDone'.scanned, holes |-> bfDone'.holes,
                        tried |-> bfDone'.tried]
          /\ bfDone'.tried = bfDone.tried \cup {l}
          /\ bfDone'.scanned = bfDone.scanned /\ bfDone'.holes = bfDone.holes
      BY <2>2, <2>3
    <2>5. looked' = looked
      BY <2>4 DEF looked
    <2>6. Owed' \subseteq Owed
      BY <1>1, <2>2 DEF Owed
    <2>7. BfTypes'
      BY <1>1, <1>2, <1>3, <2>1, <2>2, <2>4 DEF BackfillInv, BfTypes, BfTypeOK, Phases
    <2>8. bfOpts.skipFeatures \/ Owed' \subseteq bfDone'.tried \cup ToSet(bfWork')
      BY <1>3, <2>1, <2>2, <2>4, <2>6
    <2>9. Searched' /\ Tried' /\ Swept'
      BY <1>1, <1>3, <1>4, <2>1, <2>2, <2>5, <2>8 DEF Searched, Tried, Swept
    <2> QED  BY <2>7, <2>9 DEF BackfillInv
  <1> QED  BY <1>5, <1>6

\* A call that is not part of a phase, or a sweep: what it may change.
LEMMA CallsKeep ==
    ASSUME BackfillInv, bfUsed' \in Nat, bfUsed' >= bfUsed,
           UNCHANGED <<bfOpts, bfPhase, bfWork, bfChunk, bfIds, bfStopped, bfDone,
                       bfLaunches, bfFeatured>>,
           bfPhase \in {"report", "done"} => bfQuiet' = bfQuiet
    PROVE  BackfillInv'
  <1>1. capped' = capped /\ (overBudget => overBudget') /\ looked' = looked /\ Owed' = Owed
    BY BudgetStaysSpent DEF capped, BackfillInv, looked, Owed
  <1>2. BfTypes'
    BY DEF BackfillInv, BfTypes, BfTypeOK
  <1>3. Searched' /\ Tried' /\ Swept'
    BY <1>1 DEF BackfillInv, Searched, Tried, Swept
  <1> QED  BY <1>2, <1>3 DEF BackfillInv

\* A sweep of the outcomes, until two find nothing due.
LEMMA OutcomesKeep ==
    ASSUME BackfillInv, Outcomes
    PROVE  BackfillInv'
  <1>1. /\ bfPhase = "outcomes"
        /\ UNCHANGED <<bfOpts, bfWork, bfChunk, bfIds, bfStopped, bfDone, bfLaunches,
                       bfFeatured>>
    BY DEF Outcomes
  <1>2. bfUsed \in Nat
    BY DEF BackfillInv, BfTypes
  <1>3. CASE overBudget \/ bfQuiet = 2
    <2>1. bfPhase' = "report" /\ UNCHANGED <<bfUsed, bfQuiet>>
      BY <1>3 DEF Outcomes
    <2>2. capped' = capped /\ overBudget' = overBudget /\ looked' = looked /\ Owed' = Owed
      BY <1>1, <2>1 DEF capped, overBudget, looked, Owed
    <2>3. BfTypes'
      BY <1>1, <2>1 DEF BackfillInv, BfTypes, BfTypeOK, Phases
    <2>4. Searched' /\ Tried' /\ Swept'
      BY <1>1, <1>3, <2>1, <2>2 DEF BackfillInv, Searched, Tried, Swept
    <2> QED  BY <2>3, <2>4 DEF BackfillInv
  <1>4. CASE ~(overBudget \/ bfQuiet = 2)
    <2>1. bfPhase' = bfPhase
      BY <1>4 DEF Outcomes
    <2>2. bfUsed' \in Nat /\ bfUsed' >= bfUsed
      BY <1>2, <1>4, BackfillAssumption DEF Outcomes
    <2> QED  BY <1>1, <2>1, <2>2, CallsKeep
  <1> QED  BY <1>3, <1>4

\* The report ends the run.
LEMMA ReportKeeps ==
    ASSUME BackfillInv, Report
    PROVE  BackfillInv'
  <1>1. /\ bfPhase = "report" /\ bfPhase' = "done" /\ bfStopped' = (bfStopped \/ overBudget)
        /\ UNCHANGED <<bfOpts, bfWork, bfChunk, bfIds, bfUsed, bfQuiet, bfDone,
                       bfLaunches, bfFeatured>>
    BY DEF Report
  <1>2. capped' = capped /\ overBudget' = overBudget /\ looked' = looked /\ Owed' = Owed
    BY <1>1 DEF capped, overBudget, looked, Owed
  <1>3. bfStopped' \in BOOLEAN
    BY <1>1 DEF BackfillInv, BfTypes, overBudget
  <1>4. BfTypes'
    BY <1>1, <1>3 DEF BackfillInv, BfTypes, BfTypeOK, Phases
  <1>5. Searched' /\ Tried' /\ Swept'
    BY <1>1, <1>2 DEF BackfillInv, Searched, Tried, Swept
  <1> QED  BY <1>4, <1>5 DEF BackfillInv

\* A run starts with nothing searched, tried or found.
Blank ==
    /\ bfOpts \in BfOptions /\ bfPhase = "idle"
    /\ bfWork = <<>> /\ bfChunk = 1 /\ bfIds = <<>>
    /\ bfUsed = 0 /\ bfStopped = FALSE /\ bfDone = Nothing
    /\ bfLaunches \subseteq Nat /\ IsFiniteSet(bfLaunches) /\ bfFeatured \subseteq bfLaunches

\* A blank run is within the invariant.
LEMMA BlankIsIn == Blank => BackfillInv
  <1> SUFFICES ASSUME Blank PROVE BackfillInv
    OBVIOUS
  <1>1. bfDone.scanned = {} /\ bfDone.holes = {} /\ bfDone.tried = {}
        /\ bfDone = [scanned |-> bfDone.scanned, holes |-> bfDone.holes,
                     tried |-> bfDone.tried]
    BY DEF Blank, Nothing
  <1>2. Len(ChunkPools) \in Nat /\ 1..(1 - 1) = {}
    BY BackfillAssumption
  <1>3. bfChunk \in 1..(Len(ChunkPools) + 1)
    BY <1>2 DEF Blank
  <1>4. bfPhase \in Phases
    BY DEF Blank, Phases
  <1>5. BfTypes
    BY <1>1, <1>3, <1>4, NothingInIt DEF Blank, BfTypes, BfTypeOK
  <1>6. Searched /\ Tried /\ Swept
    BY <1>1, <1>2 DEF Blank, Searched, Tried, Swept, looked
  <1> QED  BY <1>5, <1>6 DEF BackfillInv

\* The process ends, or dies.
LEMMA EndKeeps ==
    ASSUME BackfillInv, RunEnds
    PROVE  BackfillInv'
  <1>1. Blank'
    BY DEF RunEnds, Blank, BackfillInv, BfTypes, BfTypeOK
  <1>2. Blank' => BackfillInv'
    BY BlankIsIn, PTL
  <1> QED  BY <1>1, <1>2

-----------------------------------------------------------------------------
\* Every step of a run.
LEMMA BackfillStep ==
    ASSUME BackfillInv, [BfNext]_bfVars
    PROVE  BackfillInv'
  <1>1. bfUsed \in Nat
    BY DEF BackfillInv, BfTypes
  <1>2. CASE OrphanCalls
    <2>1. /\ bfUsed' = bfUsed + 1
          /\ UNCHANGED <<bfOpts, bfPhase, bfWork, bfChunk, bfIds, bfStopped, bfQuiet, bfDone,
                         bfLaunches, bfFeatured>>
      BY <1>2 DEF OrphanCalls
    <2> QED  BY <1>1, <2>1, CallsKeep
  <1>3. CASE UNCHANGED bfVars
    <2>1. /\ bfUsed' = bfUsed
          /\ UNCHANGED <<bfOpts, bfPhase, bfWork, bfChunk, bfIds, bfStopped, bfQuiet, bfDone,
                         bfLaunches, bfFeatured>>
      BY <1>3 DEF bfVars, bfRun
    <2> QED  BY <1>1, <2>1, CallsKeep
  <1> QED  BY <1>2, <1>3, StartKeeps, RepoolKeeps, DiscoverKeeps, IngestKeeps, FeatureKeeps,
              OutcomesKeep, ReportKeeps, EndKeeps DEF BfNext

\* The invariant gives the property.
LEMMA BackfillImplies ==
    ASSUME BackfillInv
    PROVE  BfTypeOK /\ NothingLeftOut
  <1>1. ASSUME bfPhase = "done", ~bfStopped
        PROVE  /\ bfOpts.resolveOnly \/ capped \/ looked = DOMAIN ChunkPools
               /\ bfOpts.skipFeatures \/ Owed \subseteq bfDone.tried
               /\ bfOpts.resolveOnly => bfIds = <<>>
               /\ bfOpts.featuresOnly \/ bfQuiet = 2
    BY <1>1 DEF BackfillInv, Searched, Tried, Swept
  <1>2. NothingLeftOut
    BY <1>1, NothingInIt DEF NothingLeftOut, Owed, looked
  <1> QED  BY <1>2 DEF BackfillInv, BfTypes

\* runBackfill, for any window, flags, caps, costs, failures and number of runs.
THEOREM BackfillOmitsNothing == BfSpec => [](BfTypeOK /\ NothingLeftOut)
  <1>1. BfInit => BackfillInv
    BY BlankIsIn, BackfillAssumption DEF BfInit, Blank
  <1>2. BackfillInv /\ [BfNext]_bfVars => BackfillInv'
    BY BackfillStep
  <1>3. BackfillInv => BfTypeOK /\ NothingLeftOut
    BY BackfillImplies
  <1> QED  BY <1>1, <1>2, <1>3, PTL DEF BfSpec

-----------------------------------------------------------------------------
(***************************************************************************)
(* Scorer: any reports, outcomes, commits and fetches.                     *)
(***************************************************************************)

ScSpec == ScInit /\ [][ScNext]_scVars

-----------------------------------------------------------------------------
Times == Nat \cup {-1}

\* A row is of an outcome that is resolved, and an eligible one has been earned.
Earned(p) ==
    /\ p.launch \in scResolved /\ p.label = ScTruth[p.launch]
    /\ p.class \in Eligibilities
    /\ p.class = "eligible" =>
           /\ Anchored(IF p.fc \in Computed THEN Reference ELSE p.fc, p.launch)
           /\ p.fc = "scanhood" =>
                  scFetched[p.launch] \in 0..(ScAnchor[p.launch] + ReplayAfter)

\* The rows a pass has made.
Table(live, T) ==
    /\ IsFiniteSet(T)
    /\ \A p \in T : Earned(p) /\ (live => p.launch \notin ScRetro)
    /\ \A p \in rows(T) : p.fc \in Computed =>
           \E q \in rows(T) : q.fc = Reference /\ q.launch = p.launch

PassOf(at, seen, commits, times, pairs) ==
    [at |-> at, seen |-> seen, commits |-> commits, times |-> times, pairs |-> pairs]

\* What a pass has read still holds: an outcome stays resolved, a commit recorded.
PassInv(live, p) ==
    /\ p = PassOf(p.at, p.seen, p.commits, p.times, p.pairs)
    /\ p.at \in {"idle", "outcomes", "reports", "times", "done"}
    /\ p.seen \subseteq scResolved /\ (live => p.seen \cap ScRetro = {})
    /\ p.at = "times" =>
           /\ p.commits \in [DOMAIN ScReports -> Times]
           /\ \A r \in DOMAIN ScReports :
                  p.commits[r] # -1 => scCommit[r] = p.commits[r]
           /\ \A b \in DOMAIN p.times : p.times[b] \in {b, -1}
    /\ Table(live, p.pairs)

Founded(T, c) ==
    LET of(fc) == {p.launch : p \in {q \in rows(T) : q.fc = fc}}
        shared == of(c[1]) \cap of(c[2])
    IN  {ScTruth[l] : l \in shared} = BOOLEAN

ScTypes ==
    /\ scCommit \in [DOMAIN ScReports -> Times]
    /\ \A r \in DOMAIN ScReports : scCommit[r] \in ScCommits[r]
    /\ scFetched \in [ScLaunches -> Times]
    /\ scResolved \subseteq ScLaunches
    /\ scCache \in [BlockTimes -> {"none", "asked", "known"}]
    /\ scPass = [s \in Scopes |-> scPass[s]]

ScoreInv ==
    /\ ScTypes
    /\ \A s \in Scopes : PassInv(s = "live", scPass[s])
    /\ Table(FALSE, scSnapshot.all) /\ Table(TRUE, scSnapshot.live)
    /\ \A c \in scSnapshot.claims : Founded(scSnapshot.all, c)

-----------------------------------------------------------------------------
(***************************************************************************)
(* classifyEligibility, and what an eligible class says of a pass.         *)
(***************************************************************************)

LEMMA ClassIs ==
    ASSUME NEW t, NEW onTime \in BOOLEAN, NEW b, NEW h
    PROVE  /\ classifyEligibility(t, onTime, b, h) \in Eligibilities
           /\ classifyEligibility(t, onTime, b, h) = "eligible" =>
                  onTime /\ b # -1 /\ ~(b >= h) /\ ~(b - t > ReplayAfter)
  BY DEF classifyEligibility, Eligibilities

\* A stored report has a forecaster that is not computed.
LEMMA ReportsAre ==
    ASSUME NEW r \in DOMAIN ScReports
    PROVE  /\ ScReports[r].launch \in ScLaunches
           /\ ScReports[r].fc \notin Computed
           /\ r \in Nat
  <1> DEFINE R == [fc : STRING \ Computed, launch : ScLaunches, prob : 0..ProbUnit]
  <1>1. ScReports \in Seq(R)
    BY ScorerAssumption
  <1> HIDE DEF R
  <1>2. ScReports[r] \in R /\ r \in Nat
    BY <1>1
  <1> QED  BY <1>2 DEF R

\* A report a pass calls eligible was anchored in time, the block's time being the chain's.
LEMMA CountReads ==
    ASSUME ScTypes, NEW live, NEW pass, PassInv(live, pass), pass.at = "times",
           Waiting(pass) = {}, NEW r \in DOMAIN ScReports, ScReports[r].launch \in pass.seen,
           reportClass(pass, r) = "eligible"
    PROVE  Anchored(ScReports[r].fc, ScReports[r].launch)
  <1> DEFINE l == ScReports[r].launch
             b == pass.commits[r]
             t == pass.times[b]
  <1>1. b \in Times /\ (b # -1 => scCommit[r] = b)
    BY DEF PassInv
  <1>2. (b # -1) \in BOOLEAN
    OBVIOUS
  <1>3. reportClass(pass, r) =
            classifyEligibility(ScAnchor[l], b # -1, IF b = -1 THEN -1 ELSE t,
                                ScAnchor[l] + ScHorizon)
    BY DEF reportClass
  <1>4. /\ b # -1 /\ t # -1 /\ ~(t >= ScAnchor[l] + ScHorizon)
        /\ ~(t - ScAnchor[l] > ReplayAfter)
    <2> HIDE DEF l, b, t
    <2>1. /\ b # -1
          /\ (IF b = -1 THEN -1 ELSE t) # -1
          /\ ~((IF b = -1 THEN -1 ELSE t) >= ScAnchor[l] + ScHorizon)
          /\ ~((IF b = -1 THEN -1 ELSE t) - ScAnchor[l] > ReplayAfter)
      BY <1>2, <1>3, ClassIs
    <2> QED  BY <2>1
  <1>5. b \in DOMAIN pass.times
    BY <1>4 DEF Waiting, Blocks
  <1>6. t = b
    BY <1>4, <1>5 DEF PassInv
  <1>7. b \in Nat /\ scCommit[r] = b
    BY <1>1, <1>4 DEF Times
  <1>8. ScAnchor[l] \in Nat /\ ScHorizon \in Nat /\ ReplayAfter \in Nat
    BY ReportsAre, ScorerAssumption, EligibilityAssumption
  <1>9. /\ scCommit[r] \in 0..(ScAnchor[l] + ScHorizon - 1)
        /\ scCommit[r] - ScAnchor[l] <= ReplayAfter
    <2> HIDE DEF l, b, t
    <2> QED  BY <1>4, <1>6, <1>7, <1>8
  <1> QED  BY <1>9 DEF Anchored

\* refClass is that of a det_v0 report the pass has a row of.
LEMMA ReferenceIs ==
    ASSUME NEW pass, NEW l \in pass.seen, refClass(pass, l) = "eligible"
    PROVE  \E r \in DOMAIN ScReports :
               /\ ScReports[r].fc = Reference /\ ScReports[r].launch = l
               /\ reportClass(pass, r) = "eligible"
  <1> DEFINE refs == {r \in DOMAIN ScReports :
                          ScReports[r].fc = Reference /\ ScReports[r].launch = l}
             first == CHOOSE r \in refs : \A q \in refs : r <= q
  <1>1. refs # {}
    BY DEF refClass
  <1>2. refs \in SUBSET Nat
    BY ReportsAre
  <1>3. first \in refs
    <2>1. \E r \in refs : \A q \in refs : r <= q
      BY <1>1, <1>2, LeastNat
    <2> QED  BY <2>1
  <1>4. refClass(pass, l) = reportClass(pass, first)
    BY <1>1 DEF refClass
  <1> QED  BY <1>3, <1>4

-----------------------------------------------------------------------------
(***************************************************************************)
(* What collectScoreRows makes of a pass.                                  *)
(***************************************************************************)

LEMMA PairFields ==
    ASSUME NEW fc, NEW l, NEW r, NEW prob, NEW class
    PROVE  /\ Pair(fc, l, r, prob, class).fc = fc
           /\ Pair(fc, l, r, prob, class).launch = l
           /\ Pair(fc, l, r, prob, class).label = ScTruth[l]
           /\ Pair(fc, l, r, prob, class).class = class
  BY DEF Pair

\* Every class a pass gives is one of the five.
LEMMA ClassTypes ==
    ASSUME NEW pass
    PROVE  /\ \A r \in DOMAIN ScReports : reportClass(pass, r) \in Eligibilities
           /\ \A l \in ScLaunches : refClass(pass, l) \in Eligibilities
           /\ \A l \in ScLaunches : scannerClass(pass, l) \in Eligibilities
  <1>1. ASSUME NEW r \in DOMAIN ScReports PROVE reportClass(pass, r) \in Eligibilities
    <2> DEFINE b == pass.commits[r]
    <2>1. (b # -1) \in BOOLEAN
      OBVIOUS
    <2> HIDE DEF b
    <2>2. reportClass(pass, r) =
              classifyEligibility(ScAnchor[ScReports[r].launch], b # -1,
                  IF b = -1 THEN -1 ELSE pass.times[b],
                  ScAnchor[ScReports[r].launch] + ScHorizon)
      BY DEF reportClass, b
    <2> QED  BY <2>1, <2>2, ClassIs
  <1>2. ASSUME NEW l \in ScLaunches PROVE refClass(pass, l) \in Eligibilities
    <2> DEFINE refs == {r \in DOMAIN ScReports :
                            ScReports[r].fc = Reference /\ ScReports[r].launch = l}
               first == CHOOSE r \in refs : \A q \in refs : r <= q
    <2>1. CASE refs = {}
      BY <2>1 DEF refClass, Eligibilities
    <2>2. CASE refs # {}
      <3>1. refs \in SUBSET Nat
        BY ReportsAre
      <3>2. first \in refs
        <4>1. \E r \in refs : \A q \in refs : r <= q
          BY <2>2, <3>1, LeastNat
        <4> QED  BY <4>1
      <3>3. refClass(pass, l) = reportClass(pass, first)
        BY <2>2 DEF refClass
      <3> QED  BY <1>1, <3>2, <3>3
    <2> QED  BY <2>1, <2>2
  <1>3. ASSUME NEW l \in ScLaunches PROVE scannerClass(pass, l) \in Eligibilities
    BY <1>2 DEF scannerClass, Eligibilities
  <1> QED  BY <1>1, <1>2, <1>3

\* The reports are finitely many.
LEMMA FiniteReports ==
    /\ IsFiniteSet(DOMAIN ScReports) /\ IsFiniteSet(ScLaunches)
  <1>1. DOMAIN ScReports = 1..Len(ScReports) /\ Len(ScReports) \in Nat
    BY ScorerAssumption
  <1>2. IsFiniteSet(1..Len(ScReports))
    BY <1>1, FS_Interval
  <1> QED  BY <1>1, <1>2, ScorerAssumption

\* The rows made of them are finitely many.
LEMMA FinitePairs ==
    ASSUME NEW pass, pass.seen \subseteq ScLaunches
    PROVE  IsFiniteSet(reportPairs(pass) \cup basePairs(pass) \cup scannerPairs(pass))
  <1> DEFINE J == {j \in DOMAIN ScReports : ScReports[j].launch \in pass.seen}
             S == pass.seen
             K == {l \in pass.seen :
                      /\ scFetched[l] # -1
                      /\ \E r \in DOMAIN ScReports : ScReports[r].launch = l}
             f == [i \in J |-> LET r == ScReports[i]
                               IN  Pair(r.fc, r.launch, i, r.prob, reportClass(pass, i))]
             g == [l \in S |-> Pair("base_rate", l, 0, trailingBaseRate(pass.seen, l),
                                    refClass(pass, l))]
             h == [l \in S |-> Pair("base_rate_fixed", l, 0, Rate(pass.seen),
                                    refClass(pass, l))]
             k == [l \in K |-> Pair("scanhood", l, 0, ProbUnit, scannerClass(pass, l))]
  <1>1. IsFiniteSet(J) /\ IsFiniteSet(S) /\ IsFiniteSet(K)
    <2>1. IsFiniteSet(S)
      BY FiniteReports, FS_Subset
    <2> QED  BY <2>1, FiniteReports, FS_Subset
  <1>2. reportPairs(pass) = {f[i] : i \in J}
    BY DEF reportPairs
  <1>3. basePairs(pass) = {g[l] : l \in S} \cup {h[l] : l \in S}
    BY DEF basePairs
  <1>4. scannerPairs(pass) = {k[l] : l \in K}
    BY DEF scannerPairs
  <1> HIDE DEF J, S, K, f, g, h, k
  <1>5. /\ IsFiniteSet({f[i] : i \in J})
        /\ IsFiniteSet({g[l] : l \in S}) /\ IsFiniteSet({h[l] : l \in S})
        /\ IsFiniteSet({k[l] : l \in K})
    BY <1>1, FiniteImage
  <1> DEFINE A == {f[i] : i \in J}
             B == {g[l] : l \in S}
             C == {h[l] : l \in S}
             D == {k[l] : l \in K}
  <1>6. IsFiniteSet(A) /\ IsFiniteSet(B) /\ IsFiniteSet(C) /\ IsFiniteSet(D)
    BY <1>5
  <1> HIDE DEF A, B, C, D
  <1>7. IsFiniteSet(A \cup (B \cup C))
    BY <1>6, FS_Union
  <1>8. IsFiniteSet((A \cup (B \cup C)) \cup D)
    BY <1>6, <1>7, FS_Union
  <1> QED  BY <1>2, <1>3, <1>4, <1>8 DEF A, B, C, D

\* A row of each of the three kinds.
LEMMA ReportRow ==
    ASSUME NEW pass, NEW p \in reportPairs(pass)
    PROVE  \E r \in DOMAIN ScReports :
               /\ ScReports[r].launch \in pass.seen
               /\ p.fc = ScReports[r].fc /\ p.launch = ScReports[r].launch
               /\ p.label = ScTruth[p.launch] /\ p.class = reportClass(pass, r)
  <1>1. PICK r \in DOMAIN ScReports :
            /\ ScReports[r].launch \in pass.seen
            /\ p = Pair(ScReports[r].fc, ScReports[r].launch, r, ScReports[r].prob,
                        reportClass(pass, r))
    BY DEF reportPairs
  <1> QED  BY <1>1, PairFields

\* Every report of an outcome that was seen has its row.
LEMMA RowOfReport ==
    ASSUME NEW pass, NEW r \in DOMAIN ScReports, ScReports[r].launch \in pass.seen
    PROVE  \E q \in reportPairs(pass) :
               /\ q.fc = ScReports[r].fc /\ q.launch = ScReports[r].launch
               /\ q.class = reportClass(pass, r)
  <1> DEFINE q == Pair(ScReports[r].fc, ScReports[r].launch, r, ScReports[r].prob,
                       reportClass(pass, r))
  <1>1. q \in reportPairs(pass)
    BY DEF reportPairs
  <1>2. /\ q.fc = ScReports[r].fc /\ q.launch = ScReports[r].launch
        /\ q.class = reportClass(pass, r)
    BY PairFields
  <1> QED  BY <1>1, <1>2

\* The base rates' rows take the class of the reference's report.
LEMMA BaseRow ==
    ASSUME NEW pass, NEW p \in basePairs(pass)
    PROVE  /\ p.fc \in {"base_rate", "base_rate_fixed"} /\ p.launch \in pass.seen
           /\ p.label = ScTruth[p.launch] /\ p.class = refClass(pass, p.launch)
  <1>1. \/ \E l \in pass.seen : p = Pair("base_rate", l, 0, trailingBaseRate(pass.seen, l),
                                         refClass(pass, l))
        \/ \E l \in pass.seen : p = Pair("base_rate_fixed", l, 0, Rate(pass.seen),
                                         refClass(pass, l))
    BY DEF basePairs
  <1> QED  BY <1>1, PairFields

\* The scanner's row takes the class of its fetch.
LEMMA ScannerRow ==
    ASSUME NEW pass, NEW p \in scannerPairs(pass)
    PROVE  /\ p.fc = "scanhood" /\ p.launch \in pass.seen
           /\ p.label = ScTruth[p.launch] /\ p.class = scannerClass(pass, p.launch)
  <1>1. PICK l \in pass.seen : p = Pair("scanhood", l, 0, ProbUnit, scannerClass(pass, l))
    BY DEF scannerPairs
  <1> QED  BY <1>1, PairFields

\* The rows a pass makes are of resolved outcomes, and each is earned.
LEMMA CollectMakes ==
    ASSUME ScTypes, NEW live \in BOOLEAN, NEW pass, PassInv(live, pass), pass.at = "times",
           Waiting(pass) = {}
    PROVE  Table(live, reportPairs(pass) \cup basePairs(pass) \cup scannerPairs(pass))
  <1> DEFINE T == reportPairs(pass) \cup basePairs(pass) \cup scannerPairs(pass)
  <1>1. pass.seen \subseteq scResolved /\ pass.seen \subseteq ScLaunches
        /\ (live => pass.seen \cap ScRetro = {})
    BY DEF PassInv, ScTypes
  <1>2. Reference \notin Computed /\ "scanhood" \in Computed
        /\ "base_rate" \in Computed /\ "base_rate_fixed" \in Computed
    BY DEF Reference, Computed
  <1>3. ASSUME NEW l \in pass.seen, refClass(pass, l) = "eligible"
        PROVE  /\ Anchored(Reference, l)
               /\ \E q \in reportPairs(pass) :
                      q.fc = Reference /\ q.launch = l /\ q.class = "eligible"
    <2>1. PICK r \in DOMAIN ScReports :
              /\ ScReports[r].fc = Reference /\ ScReports[r].launch = l
              /\ reportClass(pass, r) = "eligible"
      BY <1>3, ReferenceIs
    <2>2. Anchored(Reference, l)
      BY <2>1, CountReads
    <2> QED  BY <2>1, <2>2, RowOfReport
  <1>4. ASSUME NEW l \in pass.seen, scannerClass(pass, l) = "eligible"
        PROVE  /\ refClass(pass, l) = "eligible"
               /\ scFetched[l] \in 0..(ScAnchor[l] + ReplayAfter)
    <2>1. refClass(pass, l) = "eligible" /\ scannerFetchIsTimely(ScAnchor[l], scFetched[l])
      BY <1>4 DEF scannerClass
    <2>2. scFetched[l] \in Times /\ ScAnchor[l] \in Nat /\ ReplayAfter \in Nat
      BY <1>1, ScorerAssumption, EligibilityAssumption DEF ScTypes
    <2> QED  BY <2>1, <2>2 DEF scannerFetchIsTimely, Times
  <1>5. ASSUME NEW p \in reportPairs(pass)
        PROVE  Earned(p) /\ (live => p.launch \notin ScRetro) /\ p.fc \notin Computed
    <2>1. PICK r \in DOMAIN ScReports :
               /\ ScReports[r].launch \in pass.seen
               /\ p.fc = ScReports[r].fc /\ p.launch = ScReports[r].launch
               /\ p.label = ScTruth[p.launch] /\ p.class = reportClass(pass, r)
      BY ReportRow
    <2>2. p.fc \notin Computed /\ p.class \in Eligibilities
      BY <2>1, ReportsAre, ClassTypes
    <2>3. p.class = "eligible" => Anchored(p.fc, p.launch)
      BY <2>1, CountReads
    <2> QED  BY <1>1, <1>2, <2>1, <2>2, <2>3 DEF Earned
  <1>6. ASSUME NEW p \in basePairs(pass)
        PROVE  /\ Earned(p) /\ (live => p.launch \notin ScRetro)
               /\ p.launch \in pass.seen
               /\ p.class = "eligible" => refClass(pass, p.launch) = "eligible"
    <2>1. /\ p.fc \in {"base_rate", "base_rate_fixed"} /\ p.launch \in pass.seen
          /\ p.label = ScTruth[p.launch] /\ p.class = refClass(pass, p.launch)
      BY BaseRow
    <2>2. p.class \in Eligibilities /\ p.fc \in Computed /\ p.fc # "scanhood"
      BY <1>1, <1>2, <2>1, ClassTypes
    <2>3. p.class = "eligible" => Anchored(Reference, p.launch)
      BY <1>3, <2>1
    <2> QED  BY <1>1, <2>1, <2>2, <2>3 DEF Earned
  <1>7. ASSUME NEW p \in scannerPairs(pass)
        PROVE  /\ Earned(p) /\ (live => p.launch \notin ScRetro)
               /\ p.launch \in pass.seen
               /\ p.class = "eligible" => refClass(pass, p.launch) = "eligible"
    <2>1. /\ p.fc = "scanhood" /\ p.launch \in pass.seen
          /\ p.label = ScTruth[p.launch] /\ p.class = scannerClass(pass, p.launch)
      BY ScannerRow
    <2>2. p.class \in Eligibilities /\ p.fc \in Computed
      BY <1>1, <1>2, <2>1, ClassTypes
    <2>3. p.class = "eligible" =>
              /\ refClass(pass, p.launch) = "eligible"
              /\ Anchored(Reference, p.launch)
              /\ scFetched[p.launch] \in 0..(ScAnchor[p.launch] + ReplayAfter)
      BY <1>3, <1>4, <2>1
    <2> QED  BY <1>1, <2>1, <2>2, <2>3 DEF Earned
  <1>8. IsFiniteSet(T)
    BY <1>1, FinitePairs
  <1>9. \A p \in T : Earned(p) /\ (live => p.launch \notin ScRetro)
    BY <1>5, <1>6, <1>7
  <1>10. ASSUME NEW p \in rows(T), p.fc \in Computed
         PROVE  \E q \in rows(T) : q.fc = Reference /\ q.launch = p.launch
    <2>1. p \in T /\ p.class = "eligible"
      BY DEF rows
    <2>2. p.launch \in pass.seen /\ refClass(pass, p.launch) = "eligible"
      BY <1>5, <1>6, <1>7, <1>10, <2>1
    <2>3. PICK q \in reportPairs(pass) :
              q.fc = Reference /\ q.launch = p.launch /\ q.class = "eligible"
      BY <1>3, <2>2
    <2> QED  BY <2>3 DEF rows
  <1> HIDE DEF T
  <1>11. Table(live, T)
    BY <1>8, <1>9, <1>10 DEF Table
  <1> QED  BY <1>11 DEF T

-----------------------------------------------------------------------------
(***************************************************************************)
(* A claim of the table.                                                   *)
(***************************************************************************)

LEMMA ClaimsFounded ==
    ASSUME ScTypes, NEW T, Table(FALSE, T), NEW c \in Claims(rows(T))
    PROVE  Founded(T, c)
  <1> DEFINE R == rows(T)
             A == {p \in R : p.fc = c[1]}
             B == {p \in R : p.fc = c[2]}
             pairs == alignByObs(A, B)
             own == {x[1] : x \in pairs}
             good == {p \in own : p.label}
             of(fc) == {p.launch : p \in {q \in rows(T) : q.fc = fc}}
             shared == of(c[1]) \cap of(c[2])
  <1>1. Positives(own) >= 2 /\ Negatives(own) >= 2
    BY DEF Claims, mayClaim
  <1>2. own \subseteq A /\ \A p \in own : \E q \in B : p.launch = q.launch
    BY DEF alignByObs
  <1>3. \A p \in own : p.launch \in shared
    BY <1>2
  <1>4. \A p \in own : p \in T /\ p.label = ScTruth[p.launch] /\ p.launch \in scResolved
    BY <1>2 DEF Table, Earned, rows
  <1>5. IsFiniteSet(own)
    <2>1. IsFiniteSet(T) /\ own \subseteq T
      BY <1>4 DEF Table
    <2> QED  BY <2>1, FS_Subset
  <1>6. IsFiniteSet(good) /\ Cardinality(good) \in Nat /\ Cardinality(own) \in Nat
    <2>1. good \subseteq own
      OBVIOUS
    <2> QED  BY <1>5, <2>1, FS_Subset, FS_CardinalityType
  <1>7. Cardinality(good) >= 2 /\ Cardinality(own) - Cardinality(good) >= 2
    BY <1>1 DEF Positives, Negatives
  <1>8. \E p \in own : p.label
    <2> SUFFICES ASSUME good = {} PROVE FALSE
      OBVIOUS
    <2>1. Cardinality(good) = 0
      <3> HIDE DEF good
      <3> QED  BY FS_EmptySet
    <2> HIDE DEF good
    <2> QED  BY <1>7, <2>1
  <1>9. \E p \in own : ~p.label
    <2> SUFFICES ASSUME good = own PROVE FALSE
      OBVIOUS
    <2> HIDE DEF good, own
    <2> QED  BY <1>6, <1>7
  <1> HIDE DEF own, shared
  <1>10. \E l \in shared : ScTruth[l]
    BY <1>3, <1>4, <1>8
  <1>11. \E l \in shared : ~ScTruth[l]
    BY <1>3, <1>4, <1>9
  <1>12. \A l \in shared : ScTruth[l] \in BOOLEAN
    <2>1. \A l \in shared : l \in scResolved
      BY DEF shared, Table, Earned, rows
    <2> QED  BY <2>1, ScorerAssumption DEF ScTypes
  <1>13. {ScTruth[l] : l \in shared} = BOOLEAN
    BY <1>10, <1>11, <1>12
  <1> QED  BY <1>13 DEF Founded, shared

-----------------------------------------------------------------------------
(***************************************************************************)
(* What was earned stays so: outcomes and commits are never taken back.    *)
(***************************************************************************)

Grows ==
    /\ scFetched' = scFetched
    /\ scResolved \subseteq scResolved'
    /\ \A r \in DOMAIN ScReports : scCommit[r] # -1 => scCommit'[r] = scCommit[r]

\* Rows stay earned while outcomes are resolved and commits are made,
LEMMA TableStays ==
    ASSUME Grows, NEW live, NEW T, Table(live, T)
    PROVE  Table(live, T)'
  <1>1. ASSUME NEW fc, NEW l, Anchored(fc, l) PROVE Anchored(fc, l)'
    <2>1. PICK r \in DOMAIN ScReports :
              /\ ScReports[r].fc = fc /\ ScReports[r].launch = l
              /\ scCommit[r] \in 0..(ScAnchor[l] + ScHorizon - 1)
              /\ scCommit[r] - ScAnchor[l] <= ReplayAfter
      BY <1>1 DEF Anchored
    <2>2. ScAnchor[l] \in Nat /\ ScHorizon \in Nat
      BY <2>1, ReportsAre, ScorerAssumption
    <2>3. scCommit[r] # -1
      BY <2>1, <2>2
    <2>4. scCommit'[r] = scCommit[r]
      BY <2>3 DEF Grows
    <2> QED  BY <2>1, <2>4 DEF Anchored
  <1>2. ASSUME NEW p \in T PROVE Earned(p)'
    <2>1. Earned(p)
      BY DEF Table
    <2> DEFINE fc == IF p.fc \in Computed THEN Reference ELSE p.fc
    <2>2. Anchored(fc, p.launch) => Anchored(fc, p.launch)'
      <3> HIDE DEF fc
      <3> QED  BY <1>1
    <2> QED  BY <2>1, <2>2 DEF Earned, Grows
  <1> QED  BY <1>2 DEF Table

\* What a pass has read still holds while outcomes are resolved and commits are made.
LEMMA PassStays ==
    ASSUME Grows, NEW live, NEW p, PassInv(live, p)
    PROVE  PassInv(live, p)'
  <1>1. Table(live, p.pairs)'
    BY TableStays DEF PassInv
  <1>2. p.at = "times" => \A r \in DOMAIN ScReports :
                              p.commits[r] # -1 => scCommit'[r] = p.commits[r]
    BY DEF PassInv, Grows
  <1> QED  BY <1>1, <1>2 DEF PassInv, Grows

\* What a step must show of the passes when the snapshot stays.
LEMMA SnapshotStays ==
    ASSUME ScoreInv, Grows, ScTypes', UNCHANGED scSnapshot,
           \A s \in Scopes : PassInv(s = "live", scPass[s])'
    PROVE  ScoreInv'
  <1>2. Table(FALSE, scSnapshot.all)' /\ Table(TRUE, scSnapshot.live)'
    <2>1. ASSUME NEW live, NEW T, Table(live, T) PROVE Table(live, T)'
      BY <2>1, TableStays
    <2>2. Table(FALSE, scSnapshot.all) /\ Table(TRUE, scSnapshot.live)
      BY DEF ScoreInv
    <2> QED  BY <2>1, <2>2
  <1>3. \A c \in scSnapshot'.claims : Founded(scSnapshot'.all, c)
    BY DEF ScoreInv
  <1> QED  BY <1>2, <1>3 DEF ScoreInv

\* A pass that is not touched.
LEMMA PassRests ==
    ASSUME ScoreInv, Grows, NEW s \in Scopes, scPass'[s] = scPass[s]
    PROVE  PassInv(s = "live", scPass[s])'
  <1>1. ASSUME NEW live, NEW p, PassInv(live, p) PROVE PassInv(live, p)'
    BY <1>1, PassStays
  <1>2. PassInv(s = "live", scPass[s])
    BY DEF ScoreInv
  <1> QED  BY <1>1, <1>2

\* A pass is its five parts.
LEMMA PassFields ==
    ASSUME NEW a, NEW s, NEW c, NEW t, NEW q
    PROVE  LET p == PassOf(a, s, c, t, q)
           IN  p.at = a /\ p.seen = s /\ p.commits = c /\ p.times = t /\ p.pairs = q
  BY DEF PassOf

\* A pass with one part changed.
LEMMA PassMoves ==
    ASSUME NEW a, NEW s, NEW c, NEW t, NEW q, NEW x
    PROVE  /\ [PassOf(a, s, c, t, q) EXCEPT !.at = x] = PassOf(x, s, c, t, q)
           /\ [PassOf(a, s, c, t, q) EXCEPT !.pairs = x] = PassOf(a, s, c, t, x)
  BY DEF PassOf

\* A pass with its blocks' times read.
LEMMA PassGetsTimes ==
    ASSUME NEW a, NEW s, NEW c, NEW t, NEW q, NEW z
    PROVE  [PassOf(a, s, c, t, q) EXCEPT !.times = z] = PassOf(a, s, c, z, q)
  BY DEF PassOf

\* An idle pass has read nothing.
LEMMA IdleFields ==
    ASSUME NEW x
    PROVE  /\ Idle = PassOf("idle", {}, <<>>, <<>>, {})
           /\ [Idle EXCEPT !.at = "outcomes"] = PassOf("outcomes", {}, <<>>, <<>>, {})
           /\ [Idle EXCEPT !.at = "done", !.pairs = x] = PassOf("done", {}, <<>>, <<>>, x)
  <1>1. Idle = PassOf("idle", {}, <<>>, <<>>, {})
    BY DEF Idle, PassOf
  <1>2. [Idle EXCEPT !.at = "outcomes"] = PassOf("outcomes", {}, <<>>, <<>>, {})
    BY <1>1, PassMoves
  <1>3. [Idle EXCEPT !.at = "done"] = PassOf("done", {}, <<>>, <<>>, {})
    BY <1>1, PassMoves
  <1>4. [PassOf("done", {}, <<>>, <<>>, {}) EXCEPT !.pairs = x]
            = PassOf("done", {}, <<>>, <<>>, x)
    <2> DEFINE none == {}
               nil == <<>>
    <2> HIDE DEF none, nil
    <2>1. [PassOf("done", none, nil, nil, none) EXCEPT !.pairs = x]
              = PassOf("done", none, nil, nil, x)
      BY DEF PassOf
    <2> QED  BY <2>1 DEF none, nil
  <1> QED  BY <1>1, <1>2, <1>3, <1>4

\* No rows.
LEMMA EmptyTable ==
    \A live : Table(live, {})
  BY FS_EmptySet DEF Table, rows

\* A pass that has read nothing it could have to give back.
LEMMA PassReads ==
    ASSUME NEW live, NEW a \in {"idle", "outcomes", "reports", "done"}, NEW s, NEW c, NEW t,
           NEW q, s \subseteq scResolved, live => s \cap ScRetro = {}, Table(live, q)
    PROVE  PassInv(live, PassOf(a, s, c, t, q))
  <1> DEFINE p == PassOf(a, s, c, t, q)
  <1>1. /\ p.at = a /\ p.seen = s /\ p.commits = c /\ p.times = t /\ p.pairs = q
        /\ p = PassOf(a, s, c, t, q)
    BY PassFields
  <1> HIDE DEF p
  <1>2. PassInv(live, p)
    BY <1>1 DEF PassInv
  <1> QED  BY <1>2 DEF p

-----------------------------------------------------------------------------
\* An outcome is resolved.
LEMMA ResolvesKeeps ==
    ASSUME ScoreInv, OutcomeResolves
    PROVE  ScoreInv'
  <1>1. PICK l \in ScLaunches \ scResolved : scResolved' = scResolved \cup {l}
    BY DEF OutcomeResolves
  <1>2. UNCHANGED <<scCommit, scFetched, scCache, scPass, scSnapshot>>
    BY DEF OutcomeResolves
  <1>3. Grows
    BY <1>1, <1>2 DEF Grows
  <1>4. ScTypes'
    BY <1>1, <1>2 DEF ScoreInv, ScTypes
  <1>5. \A s \in Scopes : PassInv(s = "live", scPass[s])'
    BY <1>2, <1>3, PassRests
  <1> QED  BY <1>2, <1>3, <1>4, <1>5, SnapshotStays

\* A report's batch is committed.
LEMMA CommitKeeps ==
    ASSUME ScoreInv, CommitLands
    PROVE  ScoreInv'
  <1>1. PICK r \in DOMAIN ScReports :
            /\ scCommit[r] = -1
            /\ \E t \in ScCommits[r] \ {-1} : scCommit' = [scCommit EXCEPT ![r] = t]
    BY DEF CommitLands
  <1>2. PICK t \in ScCommits[r] : scCommit' = [scCommit EXCEPT ![r] = t]
    BY <1>1
  <1>3. UNCHANGED <<scFetched, scResolved, scCache, scPass, scSnapshot>>
    BY DEF CommitLands
  <1>4. t \in Times
    BY ScorerAssumption DEF Times
  <1>5. Grows
    BY <1>1, <1>2, <1>3 DEF Grows, ScoreInv, ScTypes
  <1>6. ScTypes'
    BY <1>2, <1>3, <1>4 DEF ScoreInv, ScTypes
  <1>7. \A s \in Scopes : PassInv(s = "live", scPass[s])'
    BY <1>3, <1>5, PassRests
  <1> QED  BY <1>3, <1>5, <1>6, <1>7, SnapshotStays

\* The steps that leave the outcomes and the commits alone.
LEMMA StillGrows ==
    ASSUME UNCHANGED <<scCommit, scFetched, scResolved>>
    PROVE  Grows
  BY DEF Grows

\* A pass starts.
LEMMA StartsKeeps ==
    ASSUME ScoreInv, TickStarts
    PROVE  ScoreInv'
  <1> DEFINE p == PassOf("outcomes", {}, <<>>, <<>>, {})
  <1>1. UNCHANGED <<scCommit, scFetched, scResolved, scCache, scSnapshot>>
        /\ scPass' = [s \in Scopes |-> p]
    BY IdleFields DEF TickStarts
  <1>2. Grows
    BY <1>1, StillGrows
  <1>3. ScTypes'
    <2> HIDE DEF p
    <2> QED  BY <1>1 DEF ScoreInv, ScTypes
  <1>4. ASSUME NEW s \in Scopes PROVE PassInv(s = "live", scPass[s])'
    <2>1. PassInv(s = "live", p)
      BY EmptyTable, PassReads
    <2> HIDE DEF p
    <2>2. \A live, w : PassInv(live, w) => PassInv(live, w)'
      BY <1>2, PassStays
    <2>3. scPass'[s] = p
      BY <1>1
    <2> QED  BY <2>1, <2>2, <2>3
  <1> QED  BY <1>1, <1>2, <1>3, <1>4, SnapshotStays

\* It reads the outcomes that are resolved.
LEMMA OutcomesReadKeeps ==
    ASSUME ScoreInv, NEW s \in Scopes, ReadOutcomes(s)
    PROVE  ScoreInv'
  <1> DEFINE w == scPass[s]
             seen == IF s = "live" THEN scResolved \ ScRetro ELSE scResolved
             at == IF seen = {} THEN "done" ELSE "reports"
             p == PassOf(at, seen, w.commits, w.times, w.pairs)
  <1>1. PassInv(s = "live", w)
    BY DEF ScoreInv
  <1>2. w = PassOf(w.at, w.seen, w.commits, w.times, w.pairs) /\ Table(s = "live", w.pairs)
    BY <1>1 DEF PassInv
  <1>3. /\ scPass' = [scPass EXCEPT ![s] = [w EXCEPT !.seen = seen, !.at = at]]
        /\ UNCHANGED <<scCommit, scFetched, scResolved, scCache, scSnapshot>>
    BY DEF ReadOutcomes
  <1>4. [w EXCEPT !.seen = seen, !.at = at] = p
    <2> HIDE DEF w, seen, at
    <2>1. [PassOf(w.at, w.seen, w.commits, w.times, w.pairs) EXCEPT !.seen = seen, !.at = at]
              = p
      <3> DEFINE a == w.at
                 c == w.commits
                 t == w.times
                 q == w.pairs
                 o == w.seen
      <3> HIDE DEF a, c, t, q, o
      <3>1. [PassOf(a, o, c, t, q) EXCEPT !.seen = seen] = PassOf(a, seen, c, t, q)
        BY DEF PassOf
      <3>2. [PassOf(a, seen, c, t, q) EXCEPT !.at = at] = PassOf(at, seen, c, t, q)
        BY DEF PassOf
      <3> QED  BY <3>1, <3>2 DEF a, c, t, q, o
    <2> HIDE DEF p
    <2> QED  BY <1>2, <2>1, Zenon
  <1>5. Grows
    BY <1>3, StillGrows
  <1>6. ScTypes'
    <2> HIDE DEF w, seen, at
    <2> QED  BY <1>3 DEF ScoreInv, ScTypes
  <1>7. ASSUME NEW r \in Scopes PROVE PassInv(r = "live", scPass[r])'
    <2>1. CASE r # s
      <3>1. scPass'[r] = scPass[r]
        BY <1>3, <2>1 DEF ScoreInv, ScTypes
      <3> QED  BY <1>5, <3>1, PassRests
    <2>2. CASE r = s
      <3>1. seen \subseteq scResolved /\ (s = "live" => seen \cap ScRetro = {})
            /\ at \in {"idle", "outcomes", "reports", "done"}
        OBVIOUS
      <3> HIDE DEF seen, at
      <3>2. PassInv(s = "live", p)
        BY <1>2, <3>1, PassReads
      <3> HIDE DEF p
      <3>3. \A live, v : PassInv(live, v) => PassInv(live, v)'
        BY <1>5, PassStays
      <3>4. scPass'[r] = p
        BY <1>3, <1>4, <2>2 DEF ScoreInv, ScTypes
      <3> QED  BY <2>2, <3>2, <3>3, <3>4
    <2> QED  BY <2>1, <2>2
  <1> QED  BY <1>3, <1>5, <1>6, <1>7, SnapshotStays

\* It reads the reports and the blocks of their commits.
LEMMA ReportsReadKeeps ==
    ASSUME ScoreInv, NEW s \in Scopes, ReadReports(s)
    PROVE  ScoreInv'
  <1> DEFINE w == scPass[s]
             blocks == Blocks(w, scCommit)
             times == [b \in {b \in blocks : scCache[b] = "known"} |-> b]
             cache == [b \in BlockTimes |->
                          IF b \in blocks /\ scCache[b] = "none" THEN "asked" ELSE scCache[b]]
             p == PassOf("times", w.seen, scCommit, times, w.pairs)
  <1>1. PassInv(s = "live", w)
    BY DEF ScoreInv
  <1>2. w = PassOf(w.at, w.seen, w.commits, w.times, w.pairs) /\ Table(s = "live", w.pairs)
        /\ w.seen \subseteq scResolved /\ (s = "live" => w.seen \cap ScRetro = {})
    BY <1>1 DEF PassInv
  <1>3. /\ scPass' = [scPass EXCEPT ![s] =
                          [w EXCEPT !.commits = scCommit, !.at = "times", !.times = times]]
        /\ scCache' = cache
        /\ UNCHANGED <<scCommit, scFetched, scResolved, scSnapshot>>
    BY DEF ReadReports
  <1>4. [w EXCEPT !.commits = scCommit, !.at = "times", !.times = times] = p
    <2> HIDE DEF w, times
    <2>1. [PassOf(w.at, w.seen, w.commits, w.times, w.pairs)
              EXCEPT !.commits = scCommit, !.at = "times", !.times = times] = p
      <3> DEFINE a == w.at
                 c == w.commits
                 t == w.times
                 q == w.pairs
                 o == w.seen
      <3> HIDE DEF a, c, t, q, o
      <3>1. [PassOf(a, o, c, t, q) EXCEPT !.commits = scCommit] = PassOf(a, o, scCommit, t, q)
        BY DEF PassOf
      <3>2. [PassOf(a, o, scCommit, t, q) EXCEPT !.at = "times"]
                = PassOf("times", o, scCommit, t, q)
        BY DEF PassOf
      <3>3. [PassOf("times", o, scCommit, t, q) EXCEPT !.times = times]
                = PassOf("times", o, scCommit, times, q)
        BY DEF PassOf
      <3> QED  BY <3>1, <3>2, <3>3 DEF a, c, t, q, o
    <2> HIDE DEF p
    <2> QED  BY <1>2, <2>1, Zenon
  <1>5. Grows
    BY <1>3, StillGrows
  <1>6. cache \in [BlockTimes -> {"none", "asked", "known"}]
    <2> HIDE DEF blocks
    <2> QED  BY DEF ScoreInv, ScTypes
  <1>7. ScTypes'
    <2> HIDE DEF w, times, cache
    <2> QED  BY <1>3, <1>6 DEF ScoreInv, ScTypes
  <1>8. PassInv(s = "live", p)
    <2>1. \A b \in DOMAIN times : times[b] = b
      <3> HIDE DEF blocks
      <3> QED  OBVIOUS
    <2>2. scCommit \in [DOMAIN ScReports -> Times]
      BY DEF ScoreInv, ScTypes
    <2> HIDE DEF times, w
    <2>3. /\ p.at = "times" /\ p.seen = w.seen /\ p.commits = scCommit /\ p.times = times
          /\ p.pairs = w.pairs /\ p = PassOf(p.at, p.seen, p.commits, p.times, p.pairs)
      BY PassFields
    <2> HIDE DEF p
    <2> QED  BY <1>2, <2>1, <2>2, <2>3 DEF PassInv
  <1>9. ASSUME NEW r \in Scopes PROVE PassInv(r = "live", scPass[r])'
    <2>1. CASE r # s
      <3>1. scPass'[r] = scPass[r]
        BY <1>3, <2>1 DEF ScoreInv, ScTypes
      <3> QED  BY <1>5, <3>1, PassRests
    <2>2. CASE r = s
      <3> HIDE DEF p
      <3>1. \A live, v : PassInv(live, v) => PassInv(live, v)'
        BY <1>5, PassStays
      <3>2. scPass'[r] = p
        BY <1>3, <1>4, <2>2 DEF ScoreInv, ScTypes
      <3> QED  BY <1>8, <2>2, <3>1, <3>2
    <2> QED  BY <2>1, <2>2
  <1> QED  BY <1>3, <1>5, <1>7, <1>9, SnapshotStays

\* A block's time is answered, or is not.
LEMMA AnswerKeeps ==
    ASSUME ScoreInv, NEW b \in BlockTimes, NEW ok \in BOOLEAN, BlockAnswers(b, ok)
    PROVE  ScoreInv'
  <1>1. /\ scCache' = [scCache EXCEPT ![b] = IF ok THEN "known" ELSE "none"]
        /\ UNCHANGED <<scCommit, scFetched, scResolved, scSnapshot>>
    BY DEF BlockAnswers
  <1>2. Grows
    BY <1>1, StillGrows
  <1>3. ASSUME NEW s \in Scopes
        PROVE  \/ scPass'[s] = scPass[s]
               \/ /\ scPass[s].at = "times"
                  /\ scPass'[s] =
                         [scPass[s] EXCEPT !.times =
                             [c \in DOMAIN scPass[s].times \cup {b} |->
                                 IF c # b THEN scPass[s].times[c]
                                 ELSE IF ok THEN b ELSE -1]]
    BY DEF BlockAnswers
  <1>4. ScTypes'
    <2>1. scPass' = [s \in Scopes |-> scPass'[s]]
      BY DEF BlockAnswers
    <2>2. scCache' \in [BlockTimes -> {"none", "asked", "known"}]
      BY <1>1 DEF ScoreInv, ScTypes
    <2> QED  BY <1>1, <2>1, <2>2 DEF ScoreInv, ScTypes
  <1>5. ASSUME NEW s \in Scopes PROVE PassInv(s = "live", scPass[s])'
    <2>1. CASE scPass'[s] = scPass[s]
      BY <1>2, <2>1, PassRests
    <2>2. CASE scPass'[s] # scPass[s]
      <3> DEFINE w == scPass[s]
                 times == [c \in DOMAIN w.times \cup {b} |->
                              IF c # b THEN w.times[c] ELSE IF ok THEN b ELSE -1]
                 p == PassOf(w.at, w.seen, w.commits, times, w.pairs)
      <3>1. PassInv(s = "live", w) /\ w.at = "times" /\ scPass'[s] = [w EXCEPT !.times = times]
        BY <1>3, <2>2 DEF ScoreInv
      <3>2. w = PassOf(w.at, w.seen, w.commits, w.times, w.pairs)
            /\ \A c \in DOMAIN w.times : w.times[c] \in {c, -1}
        BY <3>1 DEF PassInv
      <3>3. \A c \in DOMAIN times : times[c] \in {c, -1}
        <4> HIDE DEF w
        <4> QED  BY <3>2
      <3> HIDE DEF times, w
      <3>4. [w EXCEPT !.times = times] = p
        BY <3>2, PassGetsTimes
      <3>5. /\ p.at = w.at /\ p.seen = w.seen /\ p.commits = w.commits /\ p.times = times
            /\ p.pairs = w.pairs /\ p = PassOf(p.at, p.seen, p.commits, p.times, p.pairs)
        BY PassFields
      <3> HIDE DEF p
      <3>6. PassInv(s = "live", p)
        BY <3>1, <3>3, <3>5 DEF PassInv
      <3>7. \A live, v : PassInv(live, v) => PassInv(live, v)'
        BY <1>2, PassStays
      <3>8. scPass'[s] = p
        BY <3>1, <3>4
      <3> QED  BY <3>6, <3>7, <3>8
    <2> QED  BY <2>1, <2>2
  <1> QED  BY <1>1, <1>2, <1>4, <1>5, SnapshotStays

\* The rows are made.
LEMMA CollectKeeps ==
    ASSUME ScoreInv, NEW s \in Scopes, Collect(s)
    PROVE  ScoreInv'
  <1> DEFINE w == scPass[s]
             T == reportPairs(w) \cup basePairs(w) \cup scannerPairs(w)
             p == PassOf("done", {}, <<>>, <<>>, T)
  <1>1. PassInv(s = "live", w) /\ ScTypes
    BY DEF ScoreInv
  <1>2. /\ w.at = "times" /\ Waiting(w) = {}
        /\ scPass' = [scPass EXCEPT ![s] = p]
        /\ UNCHANGED <<scCommit, scFetched, scResolved, scCache, scSnapshot>>
    BY IdleFields DEF Collect
  <1>3. Table(s = "live", T)
    <2> HIDE DEF w
    <2>1. (s = "live") \in BOOLEAN
      OBVIOUS
    <2> QED  BY <1>1, <1>2, <2>1, CollectMakes
  <1> HIDE DEF T
  <1>4. PassInv(s = "live", p)
    BY <1>3, PassReads
  <1> HIDE DEF p
  <1>5. Grows
    BY <1>2, StillGrows
  <1>6. ScTypes'
    BY <1>1, <1>2 DEF ScTypes
  <1>7. ASSUME NEW r \in Scopes PROVE PassInv(r = "live", scPass[r])'
    <2>1. CASE r # s
      <3>1. scPass'[r] = scPass[r]
        BY <1>1, <1>2, <2>1 DEF ScTypes
      <3> QED  BY <1>5, <3>1, PassRests
    <2>2. CASE r = s
      <3>1. \A live, v : PassInv(live, v) => PassInv(live, v)'
        BY <1>5, PassStays
      <3>2. scPass'[r] = p
        BY <1>1, <1>2, <2>2 DEF ScTypes
      <3> QED  BY <1>4, <2>2, <3>1, <3>2
    <2> QED  BY <2>1, <2>2
  <1> QED  BY <1>2, <1>5, <1>6, <1>7, SnapshotStays

\* The passes are over.
LEMMA IdlePasses ==
    ASSUME ScoreInv, UNCHANGED <<scCommit, scFetched, scResolved, scCache>>,
           scPass' = [s \in Scopes |-> Idle]
    PROVE  /\ Grows /\ ScTypes'
           /\ \A s \in Scopes : PassInv(s = "live", scPass[s])'
  <1>1. Grows
    BY StillGrows
  <1>2. ScTypes'
    BY DEF ScoreInv, ScTypes
  <1>3. ASSUME NEW s \in Scopes PROVE PassInv(s = "live", scPass[s])'
    <2> DEFINE p == PassOf("idle", {}, <<>>, <<>>, {})
    <2>1. PassInv(s = "live", p)
      BY EmptyTable, PassReads
    <2>2. scPass'[s] = p
      BY IdleFields
    <2> HIDE DEF p
    <2>3. \A live, v : PassInv(live, v) => PassInv(live, v)'
      BY <1>1, PassStays
    <2> QED  BY <2>1, <2>2, <2>3
  <1> QED  BY <1>1, <1>2, <1>3

\* The snapshot takes the pass's numbers and claims.
LEMMA PublishKeeps ==
    ASSUME ScoreInv, Publish
    PROVE  ScoreInv'
  <1> DEFINE all == scPass["both"].pairs
             live == scPass["live"].pairs
  <1>1. PICK claims \in SUBSET Claims(rows(all)) :
            scSnapshot' = [all |-> all, live |-> live, claims |-> claims]
    BY DEF Publish
  <1>2. /\ UNCHANGED <<scCommit, scFetched, scResolved, scCache>>
        /\ scPass' = [s \in Scopes |-> Idle]
    BY DEF Publish
  <1>3. Grows /\ ScTypes' /\ \A s \in Scopes : PassInv(s = "live", scPass[s])'
    BY <1>2, IdlePasses
  <1>4. Table(FALSE, all) /\ Table(TRUE, live)
    <2>1. PassInv("both" = "live", scPass["both"]) /\ PassInv("live" = "live", scPass["live"])
      BY DEF ScoreInv, Scopes
    <2>2. Table("both" = "live", all) /\ Table("live" = "live", live)
      BY <2>1 DEF PassInv
    <2>3. ("both" = "live") = FALSE /\ ("live" = "live") = TRUE
      OBVIOUS
    <2> QED  BY <2>2, <2>3
  <1> HIDE DEF all, live
  <1>5. scSnapshot'.all = all /\ scSnapshot'.live = live /\ scSnapshot'.claims = claims
    BY <1>1
  <1>6. Table(FALSE, scSnapshot.all)' /\ Table(TRUE, scSnapshot.live)'
    <2>1. \A l, T : Table(l, T) => Table(l, T)'
      BY <1>3, TableStays
    <2> QED  BY <1>4, <1>5, <2>1
  <1>7. \A c \in claims : Founded(all, c)
    BY <1>4, ClaimsFounded DEF ScoreInv
  <1> QED  BY <1>3, <1>5, <1>6, <1>7 DEF ScoreInv

-----------------------------------------------------------------------------
\* No pass has begun.
LEMMA ScoreInitially ==
    ASSUME ScInit
    PROVE  ScoreInv
  <1>1. scPass = [s \in Scopes |-> Idle] /\ scSnapshot = [all |-> {}, live |-> {}, claims |-> {}]
        /\ scResolved = ScGraded /\ scCache = [b \in BlockTimes |-> "none"]
    BY DEF ScInit, NoSnapshot
  <1>2. scCommit \in [DOMAIN ScReports -> Times]
        /\ \A r \in DOMAIN ScReports : scCommit[r] \in ScCommits[r]
    BY ScorerAssumption DEF ScInit, Times
  <1>3. scFetched \in [ScLaunches -> Times]
    BY ScorerAssumption DEF ScInit, Times
  <1>4. ScTypes
    BY <1>1, <1>2, <1>3, ScorerAssumption DEF ScTypes
  <1>5. ASSUME NEW s \in Scopes PROVE PassInv(s = "live", scPass[s])
    <2>1. PassInv(s = "live", PassOf("idle", {}, <<>>, <<>>, {}))
      BY EmptyTable, PassReads
    <2>2. scPass[s] = PassOf("idle", {}, <<>>, <<>>, {})
      BY <1>1, IdleFields
    <2> QED  BY <2>1, <2>2
  <1>6. Table(FALSE, scSnapshot.all) /\ Table(TRUE, scSnapshot.live)
    BY <1>1, EmptyTable
  <1> QED  BY <1>1, <1>4, <1>5, <1>6 DEF ScoreInv

\* Every step of the scorer.
LEMMA ScoreStep ==
    ASSUME ScoreInv, [ScNext]_scVars
    PROVE  ScoreInv'
  <1>1. CASE TickFails
    <2>1. /\ UNCHANGED <<scCommit, scFetched, scResolved, scCache, scSnapshot>>
          /\ scPass' = [s \in Scopes |-> Idle]
      BY <1>1 DEF TickFails
    <2> QED  BY <2>1, IdlePasses, SnapshotStays
  <1>2. CASE UNCHANGED scVars
    <2>1. UNCHANGED <<scCommit, scFetched, scResolved, scCache, scPass, scSnapshot>>
      BY <1>2 DEF scVars
    <2>2. Grows
      BY <2>1, StillGrows
    <2>3. ScTypes'
      BY <2>1 DEF ScoreInv, ScTypes
    <2>4. \A s \in Scopes : PassInv(s = "live", scPass[s])'
      BY <2>1, <2>2, PassRests
    <2> QED  BY <2>1, <2>2, <2>3, <2>4, SnapshotStays
  <1>3. ASSUME NEW s \in Scopes, ReadOutcomes(s) \/ ReadReports(s) \/ Collect(s)
        PROVE  ScoreInv'
    BY <1>3, OutcomesReadKeeps, ReportsReadKeeps, CollectKeeps
  <1> QED  BY <1>1, <1>2, <1>3, ResolvesKeeps, CommitKeeps, StartsKeeps, AnswerKeeps,
              PublishKeeps DEF ScNext

\* The invariant gives the property.
LEMMA ScoreImplies ==
    ASSUME ScoreInv
    PROVE  ScTypeOK /\ ScoresEarned
  <1> DEFINE A == scSnapshot.all
             L == scSnapshot.live
  <1>1. Table(FALSE, A) /\ Table(TRUE, L) /\ ScTypes
    BY DEF ScoreInv
  <1>2. \A s \in Scopes : scPass[s].at \in {"idle", "outcomes", "reports", "times", "done"}
    BY DEF ScoreInv, PassInv
  <1>3. \A p \in A \cup L : Earned(p)
    BY <1>1 DEF Table
  <1>4. ScTypeOK
    BY <1>1, <1>2, <1>3 DEF ScTypes, ScTypeOK, Earned
  <1>5. \A p \in rows(A \cup L) :
           /\ p.launch \in scResolved /\ p.label = ScTruth[p.launch]
           /\ Anchored(IF p.fc \in Computed THEN Reference ELSE p.fc, p.launch)
           /\ p.fc = "scanhood" =>
                  scFetched[p.launch] \in 0..(ScAnchor[p.launch] + ReplayAfter)
    BY <1>3 DEF Earned, rows
  <1>6. \A T \in {rows(A), rows(L)} : \A p \in T :
           p.fc \in Computed => \E q \in T : q.fc = Reference /\ q.launch = p.launch
    BY <1>1 DEF Table
  <1>7. \A p \in L : p.launch \notin ScRetro
    BY <1>1 DEF Table
  <1>8. \A c \in scSnapshot.claims : Founded(A, c)
    BY DEF ScoreInv
  <1>9. ScoresEarned
    BY <1>5, <1>6, <1>7, <1>8 DEF ScoresEarned, Founded
  <1> QED  BY <1>4, <1>9

\* collectScoreRows and the table made of it, for any reports, outcomes, commit times,
\* fetches and failures, and any number of ticks.
THEOREM ScoresAreEarned == ScSpec => [](ScTypeOK /\ ScoresEarned)
  <1>1. ScInit => ScoreInv
    BY ScoreInitially
  <1>2. ScoreInv /\ [ScNext]_scVars => ScoreInv'
    BY ScoreStep
  <1>3. ScoreInv => ScTypeOK /\ ScoresEarned
    BY ScoreImplies
  <1> QED  BY <1>1, <1>2, <1>3, PTL DEF ScSpec

-----------------------------------------------------------------------------
(***************************************************************************)
(* Features: any token, pools, transfers and failed reads.                 *)
(***************************************************************************)

FtSpec == FtInit /\ [][FtNext]_ftVars

PoolRow == [init : Nat, known : BOOLEAN, suspect : BOOLEAN, standard : BOOLEAN, swaps : Nat]
MoveRow == [block : Nat, from : STRING, to : STRING, value : Nat]

LEMMA FtConstants ==
    /\ {LaunchBlock, T10Blocks, ScanBlocks, FreshBlocks, AgeIters - 2, NonceIters} \subseteq Nat
    /\ Supply \in Nat /\ Supply # 0
    /\ T10Blocks \in Nat /\ \A h \in FtHeads : h \in Nat /\ h >= LaunchBlock
  BY FeaturesAssumption

LEMMA WorldIs ==
    ASSUME ftWorld \in FtWorlds
    PROVE  /\ ftWorld.deploy \in 0..LaunchBlock /\ ftWorld.firstTx \in -1..LaunchBlock
           /\ ftWorld.pools \in Seq(PoolRow) /\ ftWorld.moves \in Seq(MoveRow)
           /\ ftWorld.pools # <<>> /\ ftWorld.pools[1].init = LaunchBlock
  <1>1. ftWorld \in [v4 : BOOLEAN, deploy : 0..LaunchBlock, firstTx : -1..LaunchBlock,
                     decimals : Nat \cup {-1}, pools : Seq(PoolRow), moves : Seq(MoveRow)]
    BY FeaturesAssumption DEF PoolRow, MoveRow
  <1>2. ftWorld.pools # <<>> /\ ftWorld.pools[1].init = LaunchBlock
    BY FeaturesAssumption
  <1> QED  BY <1>1, <1>2

-----------------------------------------------------------------------------
(***************************************************************************)
(* The two searches.                                                       *)
(***************************************************************************)

Span == [lo : Int, hi : Int]

\* A bracket that every round keeps, and halves.
LEMMA Rounds ==
    ASSUME NEW h, NEW w \in Nat, NEW n \in Nat, NEW B, <<h[0], w>> \in B,
           \A k, l \in Nat : <<h[k], l>> \in B => <<h[k + 1], l \div 2>> \in B
    PROVE  <<h[n], LeftOf(w, n)>> \in B
  <1> DEFINE N == {k \in Nat : <<h[k], LeftOf(w, k)>> \in B}
  <1>1. 0 \in N
    <2>1. LeftOf(w, 0) = w
      BY LeftOfIs
    <2> QED  BY <2>1
  <1>2. ASSUME NEW k \in Nat, k \in N PROVE k + 1 \in N
    <2>1. LeftOf(w, k) \in Nat /\ LeftOf(w, k + 1) = LeftOf(w, k) \div 2
      BY LeftOfIs
    <2>2. <<h[k + 1], LeftOf(w, k) \div 2>> \in B
      BY <1>2, <2>1
    <2> QED  BY <2>1, <2>2
  <1> HIDE DEF N
  <1>3. n \in N
    BY <1>1, <1>2, NatSetInduction
  <1> QED  BY <1>3 DEF N

CodeSpans(h, from) ==
    h = [i \in Nat |-> IF i = 0 THEN [lo |-> from, hi |-> LaunchBlock]
                       ELSE CodeBetween(h[i - 1])]
NonceSpans(h) ==
    h = [i \in Nat |-> IF i = 0 THEN [lo |-> 0, hi |-> LaunchBlock]
                       ELSE NonceBetween(h[i - 1])]

LEMMA SpansUnfold ==
    /\ \A from : codeAt(from) = (CHOOSE h : CodeSpans(h, from))[AgeIters - 2].hi
    /\ nonceAt = (CHOOSE h : NonceSpans(h))[NonceIters].hi
  BY DEF codeAt, nonceAt, CodeSpans, NonceSpans

LEMMA BetweenIs ==
    ASSUME NEW r \in Span
    PROVE  /\ r.lo \in Int /\ r.hi \in Int
           /\ CodeBetween(r) \in Span /\ NonceBetween(r) \in Span
           /\ \/ r.hi - r.lo <= 1 /\ CodeBetween(r) = r
              \/ LET mid == r.lo + (r.hi - r.lo) \div 2 IN
                 /\ ~(r.hi - r.lo <= 1)
                 /\ \/ /\ ftWorld.deploy <= mid
                       /\ CodeBetween(r).lo = r.lo /\ CodeBetween(r).hi = mid
                    \/ /\ ~(ftWorld.deploy <= mid)
                       /\ CodeBetween(r).lo = mid /\ CodeBetween(r).hi = r.hi
           /\ \/ r.lo >= r.hi /\ NonceBetween(r) = r
              \/ LET mid == (r.lo + r.hi) \div 2 IN
                 /\ ~(r.lo >= r.hi)
                 /\ \/ /\ ftWorld.firstTx <= mid
                       /\ NonceBetween(r).lo = r.lo /\ NonceBetween(r).hi = mid
                    \/ /\ ~(ftWorld.firstTx <= mid)
                       /\ NonceBetween(r).lo = mid + 1 /\ NonceBetween(r).hi = r.hi
  <1> DEFINE a == r.lo
             z == r.hi
             m == a + (z - a) \div 2
             n == (a + z) \div 2
             c == CodeBetween(r)
             b == NonceBetween(r)
  <1>1. a \in Int /\ z \in Int
    BY DEF Span
  <1>2. m \in Int /\ n \in Int /\ n + 1 \in Int
    BY <1>1
  <1>3. c = IF z - a <= 1 THEN r
            ELSE IF ftWorld.deploy <= m THEN [lo |-> a, hi |-> m] ELSE [lo |-> m, hi |-> z]
    BY DEF CodeBetween
  <1>4. b = IF a >= z THEN r
            ELSE IF ftWorld.firstTx <= n THEN [lo |-> a, hi |-> n] ELSE [lo |-> n + 1, hi |-> z]
    BY DEF NonceBetween
  <1> HIDE DEF a, z, m, n, c, b
  <1>5. [lo |-> a, hi |-> m] \in Span /\ [lo |-> m, hi |-> z] \in Span
        /\ [lo |-> a, hi |-> n] \in Span /\ [lo |-> n + 1, hi |-> z] \in Span
    BY <1>1, <1>2 DEF Span
  <1>6. c \in Span /\ b \in Span
    BY <1>3, <1>4, <1>5
  <1>7. \/ z - a <= 1 /\ c = r
        \/ /\ ~(z - a <= 1)
           /\ \/ ftWorld.deploy <= m /\ c.lo = a /\ c.hi = m
              \/ ~(ftWorld.deploy <= m) /\ c.lo = m /\ c.hi = z
    BY <1>3
  <1>8. \/ a >= z /\ b = r
        \/ /\ ~(a >= z)
           /\ \/ ftWorld.firstTx <= n /\ b.lo = a /\ b.hi = n
              \/ ~(ftWorld.firstTx <= n) /\ b.lo = n + 1 /\ b.hi = z
    BY <1>4
  <1> QED  BY <1>1, <1>6, <1>7, <1>8 DEF a, z, m, n, c, b

LEMMA SpansSolved ==
    ASSUME NEW from \in Int
    PROVE  (\E h : CodeSpans(h, from)) /\ (\E h : NonceSpans(h))
  <1>1. LaunchBlock \in Int
    BY FtConstants
  <1>2. \E h : CodeSpans(h, from)
    <2> DEFINE d == [lo |-> from, hi |-> LaunchBlock]
               G == [r \in Span |-> CodeBetween(r)]
    <2>1. d \in Span /\ G \in [Span -> Span]
      BY <1>1, BetweenIs DEF Span
    <2>2. PICK g \in [Nat -> Span] : Iterates(g, d, G)
      <3> HIDE DEF d, G
      <3> QED  BY <2>1, Iterated
    <2>3. \A i \in Nat : i # 0 => G[g[i - 1]] = CodeBetween(g[i - 1])
      <3>1. ASSUME NEW i \in Nat, i # 0 PROVE g[i - 1] \in Span
        <4>1. i - 1 \in Nat
          BY <3>1
        <4> QED  BY <4>1
      <3> QED  BY <3>1
    <2>4. [i \in Nat |-> IF i = 0 THEN d ELSE G[g[i - 1]]]
          = [i \in Nat |-> IF i = 0 THEN d ELSE CodeBetween(g[i - 1])]
      <3> HIDE DEF G, d
      <3> QED  BY <2>3
    <2>5. CodeSpans(g, from)
      <3> HIDE DEF G
      <3> QED  BY <2>2, <2>4 DEF CodeSpans, Iterates
    <2> QED  BY <2>5
  <1>3. \E h : NonceSpans(h)
    <2> DEFINE d == [lo |-> 0, hi |-> LaunchBlock]
               G == [r \in Span |-> NonceBetween(r)]
    <2>1. d \in Span /\ G \in [Span -> Span]
      BY <1>1, BetweenIs DEF Span
    <2>2. PICK g \in [Nat -> Span] : Iterates(g, d, G)
      <3> HIDE DEF d, G
      <3> QED  BY <2>1, Iterated
    <2>3. \A i \in Nat : i # 0 => G[g[i - 1]] = NonceBetween(g[i - 1])
      <3>1. ASSUME NEW i \in Nat, i # 0 PROVE g[i - 1] \in Span
        <4>1. i - 1 \in Nat
          BY <3>1
        <4> QED  BY <4>1
      <3> QED  BY <3>1
    <2>4. [i \in Nat |-> IF i = 0 THEN d ELSE G[g[i - 1]]]
          = [i \in Nat |-> IF i = 0 THEN d ELSE NonceBetween(g[i - 1])]
      <3> HIDE DEF G, d
      <3> QED  BY <2>3
    <2>5. NonceSpans(g)
      <3> HIDE DEF G
      <3> QED  BY <2>2, <2>4 DEF NonceSpans, Iterates
    <2> QED  BY <2>5
  <1> QED  BY <1>2, <1>3

\* What is halved is rounded down.
LEMMA SpanHalves ==
    ASSUME NEW lo \in Int, NEW hi \in Int, NEW left \in Nat
    PROVE  /\ left \div 2 \in Nat
           /\ hi - lo <= 1 => hi - lo - 1 <= left \div 2
           /\ ~(hi - lo <= 1) /\ hi - lo - 1 <= left =>
                  LET m == lo + (hi - lo) \div 2 IN
                  m - lo - 1 <= left \div 2 /\ hi - m - 1 <= left \div 2
           /\ lo >= hi => hi - lo <= left \div 2
           /\ ~(lo >= hi) /\ hi - lo <= left =>
                  LET m == (lo + hi) \div 2 IN
                  /\ lo <= m /\ m < hi
                  /\ m - lo <= left \div 2 /\ hi - (m + 1) <= left \div 2
  OBVIOUS

\* The deployment is found from above, within what the rounds leave.
LEMMA CodeAtIs ==
    ASSUME ftWorld \in FtWorlds, NEW from \in Nat, ~(ftWorld.deploy <= from),
           LaunchBlock - from - 1 <= FreshBlocks
    PROVE  /\ codeAt(from) \in 0..LaunchBlock
           /\ codeAt(from) - ftWorld.deploy \in 0..LeftOf(FreshBlocks, AgeIters - 2)
  <1> DEFINE p == ftWorld.deploy
             B == {x \in Span \X Nat : /\ x[1].lo < p /\ p <= x[1].hi /\ x[1].hi <= LaunchBlock
                                       /\ x[1].hi - x[1].lo - 1 <= x[2] /\ x[1].lo >= 0}
             h == CHOOSE h : CodeSpans(h, from)
             n == AgeIters - 2
  <1>1. p \in 0..LaunchBlock /\ LaunchBlock \in Nat /\ FreshBlocks \in Nat /\ n \in Nat
    BY WorldIs, FtConstants
  <1>2. CodeSpans(h, from) /\ codeAt(from) = h[n].hi
    BY SpansSolved, SpansUnfold
  <1> HIDE DEF h, n, p
  <1>3. h[0] = [lo |-> from, hi |-> LaunchBlock]
    BY <1>2 DEF CodeSpans
  <1>4. \A k \in Nat : h[k + 1] = CodeBetween(h[k])
    <2>1. ASSUME NEW k \in Nat PROVE h[k + 1] = CodeBetween(h[k])
      <3>1. k + 1 \in Nat /\ k + 1 # 0 /\ (k + 1) - 1 = k
        OBVIOUS
      <3>2. h[k + 1] = CodeBetween(h[(k + 1) - 1])
        BY <3>1, <1>2 DEF CodeSpans
      <3> QED  BY <3>1, <3>2
    <2> QED  BY <2>1
  <1>5. <<h[0], FreshBlocks>> \in B
    <2>1. h[0] \in Span /\ h[0].lo = from /\ h[0].hi = LaunchBlock
      BY <1>1, <1>3 DEF Span
    <2>2. from < p /\ p <= LaunchBlock
      BY <1>1 DEF p
    <2> QED  BY <1>1, <2>1, <2>2
  <1>6. ASSUME NEW k \in Nat, NEW l \in Nat, <<h[k], l>> \in B
        PROVE  <<h[k + 1], l \div 2>> \in B
    <2> DEFINE r == h[k]
               c == CodeBetween(r)
    <2>1. /\ r \in Span /\ r.lo < p /\ p <= r.hi /\ r.hi <= LaunchBlock
          /\ r.hi - r.lo - 1 <= l /\ r.lo >= 0
      BY <1>6
    <2> HIDE DEF r
    <2>2. r.lo \in Int /\ r.hi \in Int /\ c \in Span
      BY <2>1, BetweenIs
    <2>3. CASE r.hi - r.lo <= 1
      <3>1. c = r
        BY <2>1, <2>3, BetweenIs
      <3>2. r.hi - r.lo - 1 <= l \div 2 /\ l \div 2 \in Nat
        BY <2>2, <2>3, SpanHalves
      <3>3. <<r, l \div 2>> \in B
        BY <2>1, <3>2
      <3> QED  BY <1>4, <3>1, <3>3 DEF r
    <2>4. CASE ~(r.hi - r.lo <= 1)
      <3> DEFINE m == r.lo + (r.hi - r.lo) \div 2
      <3>1. m - r.lo - 1 <= l \div 2 /\ r.hi - m - 1 <= l \div 2 /\ l \div 2 \in Nat
        BY <2>1, <2>2, <2>4, SpanHalves
      <3>2. m \in Int /\ r.lo <= m /\ m <= r.hi
        BY <2>2, <2>4
      <3>3. \/ p <= m /\ c.lo = r.lo /\ c.hi = m
            \/ ~(p <= m) /\ c.lo = m /\ c.hi = r.hi
        BY <2>1, <2>4, BetweenIs DEF p
      <3> HIDE DEF m, c
      <3>4. /\ c.lo < p /\ p <= c.hi /\ c.hi <= LaunchBlock
            /\ c.hi - c.lo - 1 <= l \div 2 /\ c.lo >= 0
        BY <1>1, <2>1, <2>2, <3>1, <3>2, <3>3
      <3>5. <<c, l \div 2>> \in B
        BY <2>2, <3>1, <3>4
      <3> QED  BY <1>4, <3>5 DEF r, c
    <2> QED  BY <2>3, <2>4
  <1>7. <<h[n], LeftOf(FreshBlocks, n)>> \in B
    <2> HIDE DEF B
    <2> QED  BY <1>1, <1>5, <1>6, Rounds
  <1>8. h[n].hi \in 0..LaunchBlock /\ h[n].hi - p \in 0..LeftOf(FreshBlocks, n)
    <2> DEFINE r == h[n]
               l == LeftOf(FreshBlocks, n)
    <2>1. /\ r \in Span /\ l \in Nat /\ r.lo < p /\ p <= r.hi /\ r.hi <= LaunchBlock
          /\ r.hi - r.lo - 1 <= l
      BY <1>7
    <2>2. r.lo \in Int /\ r.hi \in Int
      BY <2>1, BetweenIs
    <2> HIDE DEF r, l
    <2>3. r.hi \in 0..LaunchBlock /\ r.hi - p \in 0..l
      BY <1>1, <2>1, <2>2
    <2> QED  BY <2>3 DEF r, l
  <1> QED  BY <1>2, <1>8 DEF n, p

LEMMA NonceAtIs ==
    ASSUME ftWorld \in FtWorlds, ftWorld.firstTx # -1
    PROVE  /\ nonceAt \in 0..LaunchBlock
           /\ nonceAt - ftWorld.firstTx \in 0..LeftOf(LaunchBlock, NonceIters)
  <1> DEFINE p == ftWorld.firstTx
             B == {x \in Span \X Nat : /\ x[1].lo <= p /\ p <= x[1].hi /\ x[1].hi <= LaunchBlock
                                       /\ x[1].hi - x[1].lo <= x[2]}
             h == CHOOSE h : NonceSpans(h)
             n == NonceIters
  <1>1. p \in 0..LaunchBlock /\ LaunchBlock \in Nat /\ n \in Nat
    <2>1. p \in -1..LaunchBlock /\ p # -1
      BY WorldIs
    <2>2. LaunchBlock \in Nat /\ n \in Nat
      BY FtConstants
    <2> HIDE DEF p, n
    <2> QED  BY <2>1, <2>2
  <1>2. NonceSpans(h) /\ nonceAt = h[n].hi
    <2>1. 0 \in Int
      OBVIOUS
    <2> QED  BY <2>1, SpansSolved, SpansUnfold
  <1> HIDE DEF h, n, p
  <1>3. h[0] = [lo |-> 0, hi |-> LaunchBlock]
    BY <1>2 DEF NonceSpans
  <1>4. \A k \in Nat : h[k + 1] = NonceBetween(h[k])
    <2>1. ASSUME NEW k \in Nat PROVE h[k + 1] = NonceBetween(h[k])
      <3>1. k + 1 \in Nat /\ k + 1 # 0 /\ (k + 1) - 1 = k
        OBVIOUS
      <3>2. h[k + 1] = NonceBetween(h[(k + 1) - 1])
        BY <3>1, <1>2 DEF NonceSpans
      <3> QED  BY <3>1, <3>2
    <2> QED  BY <2>1
  <1>5. <<h[0], LaunchBlock>> \in B
    <2>1. h[0] \in Span /\ h[0].lo = 0 /\ h[0].hi = LaunchBlock
      BY <1>1, <1>3 DEF Span
    <2> QED  BY <1>1, <2>1
  <1>6. ASSUME NEW k \in Nat, NEW l \in Nat, <<h[k], l>> \in B
        PROVE  <<h[k + 1], l \div 2>> \in B
    <2> DEFINE r == h[k]
               c == NonceBetween(r)
    <2>1. /\ r \in Span /\ r.lo <= p /\ p <= r.hi /\ r.hi <= LaunchBlock
          /\ r.hi - r.lo <= l
      BY <1>6
    <2> HIDE DEF r
    <2>2. r.lo \in Int /\ r.hi \in Int /\ c \in Span
      BY <2>1, BetweenIs
    <2>3. CASE r.lo >= r.hi
      <3>1. c = r
        BY <2>1, <2>3, BetweenIs
      <3>2. r.hi - r.lo <= l \div 2 /\ l \div 2 \in Nat
        BY <2>2, <2>3, SpanHalves
      <3>3. <<r, l \div 2>> \in B
        BY <2>1, <3>2
      <3> QED  BY <1>4, <3>1, <3>3 DEF r
    <2>4. CASE ~(r.lo >= r.hi)
      <3> DEFINE m == (r.lo + r.hi) \div 2
      <3>1. /\ m - r.lo <= l \div 2 /\ r.hi - (m + 1) <= l \div 2 /\ l \div 2 \in Nat
            /\ r.lo <= m /\ m < r.hi
        BY <2>1, <2>2, <2>4, SpanHalves
      <3>2. m \in Int
        BY <2>2
      <3>3. \/ p <= m /\ c.lo = r.lo /\ c.hi = m
            \/ ~(p <= m) /\ c.lo = m + 1 /\ c.hi = r.hi
        BY <2>1, <2>4, BetweenIs DEF p
      <3> HIDE DEF m, c
      <3>4. /\ c.lo <= p /\ p <= c.hi /\ c.hi <= LaunchBlock /\ c.hi - c.lo <= l \div 2
        BY <1>1, <2>1, <2>2, <3>1, <3>2, <3>3
      <3>5. <<c, l \div 2>> \in B
        BY <2>2, <3>1, <3>4
      <3> QED  BY <1>4, <3>5 DEF r, c
    <2> QED  BY <2>3, <2>4
  <1>7. <<h[n], LeftOf(LaunchBlock, n)>> \in B
    <2> HIDE DEF B
    <2> QED  BY <1>1, <1>5, <1>6, Rounds
  <1>8. h[n].hi \in 0..LaunchBlock /\ h[n].hi - p \in 0..LeftOf(LaunchBlock, n)
    <2> DEFINE r == h[n]
               l == LeftOf(LaunchBlock, n)
    <2>1. /\ r \in Span /\ l \in Nat /\ r.lo <= p /\ p <= r.hi /\ r.hi <= LaunchBlock
          /\ r.hi - r.lo <= l
      BY <1>7
    <2>2. r.lo \in Int /\ r.hi \in Int
      BY <2>1, BetweenIs
    <2> HIDE DEF r, l
    <2>3. r.hi \in 0..LaunchBlock /\ r.hi - p \in 0..l
      BY <1>1, <2>1, <2>2
    <2> QED  BY <2>3 DEF r, l
  <1> QED  BY <1>2, <1>8 DEF n, p

-----------------------------------------------------------------------------
(***************************************************************************)
(* The pool: rankCandidates is a strict order, so some candidate is first. *)
(***************************************************************************)

Swaps(i, swaps) == IF i \in DOMAIN swaps THEN swaps[i] ELSE -1

LEMMA CandIs ==
    ASSUME ftWorld \in FtWorlds, ftHead \in FtHeads, ftJob.head \in FtHeads \cup {-1}
    PROVE  /\ IsFiniteSet(Cand) /\ Cand \subseteq DOMAIN Pools /\ Cand \subseteq Nat /\ 1 \in Cand
           /\ \A i \in Cand : Pools[i] \in PoolRow
  <1>1. Pools \in Seq(PoolRow) /\ Pools # <<>> /\ Pools[1].init = LaunchBlock
    BY WorldIs DEF Pools
  <1>2. DOMAIN Pools = 1..Len(Pools) /\ Len(Pools) \in Nat /\ Len(Pools) # 0
    BY <1>1
  <1>3. IsFiniteSet(1..Len(Pools))
    BY <1>2, FS_Interval
  <1>4. Cand \subseteq DOMAIN Pools
    BY DEF Cand
  <1>5. IsFiniteSet(Cand)
    BY <1>2, <1>3, <1>4, FS_Subset
  <1>6. LaunchBlock \in LaunchBlock..Reached(scanTo)
    <2>1. ftJob.head = -1 \/ (ftJob.head \in Nat /\ ftJob.head >= LaunchBlock)
      BY FtConstants
    <2>2. scanTo \in Nat /\ scanTo >= LaunchBlock
      BY <2>1, FtConstants DEF scanTo, Clamp
    <2> QED  BY <2>2, FtConstants DEF Reached
  <1>7. 1 \in Cand
    BY <1>1, <1>2, <1>6 DEF Cand
  <1>8. \A i \in DOMAIN Pools : Pools[i] \in PoolRow
    BY <1>1
  <1> QED  BY <1>2, <1>4, <1>5, <1>7, <1>8

LEMMA AheadIs ==
    ASSUME NEW a, NEW b, NEW swaps
    PROVE  LET p == Pools[a]
               q == Pools[b]
               m == Swaps(a, swaps)
               n == Swaps(b, swaps) IN
           Ahead(a, b, swaps) <=>
               \/ p.known # q.known /\ p.known
               \/ p.known = q.known /\ p.suspect # q.suspect /\ q.suspect
               \/ p.known = q.known /\ p.suspect = q.suspect /\ p.standard # q.standard
                  /\ p.standard
               \/ /\ p.known = q.known /\ p.suspect = q.suspect /\ p.standard = q.standard
                  /\ \/ m # n /\ m > n
                     \/ m = n /\ p.init # q.init /\ p.init < q.init
                     \/ m = n /\ p.init = q.init /\ a < b
  BY DEF Ahead, Swaps

LEMMA AheadOrder ==
    ASSUME ftWorld \in FtWorlds, ftHead \in FtHeads, ftJob.head \in FtHeads \cup {-1},
           NEW swaps, \A i \in Cand : Swaps(i, swaps) \in Int
    PROVE  /\ \A a \in Cand : ~Ahead(a, a, swaps)
           /\ \A a, b, c \in Cand :
                  Ahead(a, b, swaps) /\ Ahead(b, c, swaps) => Ahead(a, c, swaps)
  <1>1. \A i \in Cand : /\ Pools[i].known \in BOOLEAN /\ Pools[i].suspect \in BOOLEAN
                        /\ Pools[i].standard \in BOOLEAN /\ Pools[i].init \in Nat
                        /\ i \in Nat /\ Swaps(i, swaps) \in Int
    BY CandIs DEF PoolRow
  <1>2. \A a \in Cand : ~Ahead(a, a, swaps)
    BY <1>1, AheadIs
  <1>3. ASSUME NEW a \in Cand, NEW b \in Cand, NEW c \in Cand,
               Ahead(a, b, swaps), Ahead(b, c, swaps)
        PROVE  Ahead(a, c, swaps)
    <2> DEFINE p == Pools[a]
               q == Pools[b]
               r == Pools[c]
               l == Swaps(a, swaps)
               m == Swaps(b, swaps)
               n == Swaps(c, swaps)
    <2>1. /\ l \in Int /\ m \in Int /\ n \in Int /\ a \in Nat /\ b \in Nat /\ c \in Nat
          /\ p.init \in Nat /\ q.init \in Nat /\ r.init \in Nat
      BY <1>1
    <2>2. /\ p.known \in BOOLEAN /\ q.known \in BOOLEAN /\ r.known \in BOOLEAN
          /\ p.suspect \in BOOLEAN /\ q.suspect \in BOOLEAN /\ r.suspect \in BOOLEAN
          /\ p.standard \in BOOLEAN /\ q.standard \in BOOLEAN /\ r.standard \in BOOLEAN
      BY <1>1
    <2>3. \/ p.known # q.known /\ p.known
          \/ p.known = q.known /\ p.suspect # q.suspect /\ q.suspect
          \/ p.known = q.known /\ p.suspect = q.suspect /\ p.standard # q.standard /\ p.standard
          \/ /\ p.known = q.known /\ p.suspect = q.suspect /\ p.standard = q.standard
             /\ \/ l # m /\ l > m
                \/ l = m /\ p.init # q.init /\ p.init < q.init
                \/ l = m /\ p.init = q.init /\ a < b
      BY <1>3, AheadIs
    <2>4. \/ q.known # r.known /\ q.known
          \/ q.known = r.known /\ q.suspect # r.suspect /\ r.suspect
          \/ q.known = r.known /\ q.suspect = r.suspect /\ q.standard # r.standard /\ q.standard
          \/ /\ q.known = r.known /\ q.suspect = r.suspect /\ q.standard = r.standard
             /\ \/ m # n /\ m > n
                \/ m = n /\ q.init # r.init /\ q.init < r.init
                \/ m = n /\ q.init = r.init /\ b < c
      BY <1>3, AheadIs
    <2> HIDE DEF l, m, n, p, q, r
    <2>5. \/ p.known # r.known /\ p.known
          \/ p.known = r.known /\ p.suspect # r.suspect /\ r.suspect
          \/ p.known = r.known /\ p.suspect = r.suspect /\ p.standard # r.standard /\ p.standard
          \/ /\ p.known = r.known /\ p.suspect = r.suspect /\ p.standard = r.standard
             /\ \/ l # n /\ l > n
                \/ l = n /\ p.init # r.init /\ p.init < r.init
                \/ l = n /\ p.init = r.init /\ a < c
      BY <2>1, <2>2, <2>3, <2>4
    <2> QED  BY <2>5, AheadIs DEF l, n, p, r
  <1> QED  BY <1>2, <1>3

LEMMA FirstExists ==
    ASSUME ftWorld \in FtWorlds, ftHead \in FtHeads, ftJob.head \in FtHeads \cup {-1},
           NEW swaps, \A i \in Cand : Swaps(i, swaps) \in Int
    PROVE  \E m \in Cand : Rank(m, Cand, swaps) = 0
  <1> DEFINE P == {T \in SUBSET Cand :
                       T # {} => \E m \in T : \A j \in T : ~Ahead(j, m, swaps)}
  <1>1. /\ \A a \in Cand : ~Ahead(a, a, swaps)
        /\ \A a, b, c \in Cand :
               Ahead(a, b, swaps) /\ Ahead(b, c, swaps) => Ahead(a, c, swaps)
    BY AheadOrder
  <1>2. {} \in P
    OBVIOUS
  <1>3. ASSUME NEW T \in SUBSET Cand, NEW x \in Cand, T \in P, x \notin T
        PROVE  T \cup {x} \in P
    <2>1. CASE T = {}
      BY <1>1, <2>1
    <2>2. CASE T # {}
      <3>1. PICK m \in T : \A j \in T : ~Ahead(j, m, swaps)
        BY <1>3, <2>2
      <3>2. CASE Ahead(x, m, swaps)
        <4>1. \A j \in T : ~Ahead(j, x, swaps)
          BY <1>1, <3>1, <3>2
        <4> QED  BY <1>1, <4>1
      <3>3. CASE ~Ahead(x, m, swaps)
        BY <3>1, <3>3
      <3> QED  BY <3>2, <3>3
    <2> QED  BY <2>1, <2>2
  <1>4. SUBSET Cand \subseteq P
    <2> HIDE DEF P
    <2>1. IsFiniteSet(Cand)
      BY CandIs
    <2> QED  BY <1>2, <1>3, <2>1, FiniteSetInduction
  <1>5. Cand \in P /\ Cand # {}
    BY <1>4, CandIs
  <1>6. PICK m \in Cand : \A j \in Cand : ~Ahead(j, m, swaps)
    BY <1>5
  <1>7. {j \in Cand : Ahead(j, m, swaps)} = {}
    BY <1>6
  <1>8. Rank(m, Cand, swaps) = 0
    BY <1>7, FS_EmptySet DEF Rank
  <1> QED  BY <1>8

\* The pool that is chosen is a candidate, and nothing known of is ahead of it.
LEMMA ChosenIs ==
    ASSUME ftWorld \in FtWorlds, ftHead \in FtHeads, ftJob.head \in FtHeads \cup {-1},
           NEW missed
    PROVE  /\ chosen(missed) \in Cand
           /\ \A i \in Cand : ~Ahead(i, chosen(missed), [j \in Probed |-> activity(j, missed)])
  <1> DEFINE swaps == [j \in Probed |-> activity(j, missed)]
             c == chosen(missed)
  <1>1. Probed \subseteq Cand
    BY DEF Probed, Contenders
  <1>2. \A i \in Cand : Pools[i].swaps \in Nat
    BY CandIs DEF PoolRow
  <1>3. \A i \in Cand : Swaps(i, swaps) \in Int
    <2>1. ASSUME NEW i \in Cand PROVE Swaps(i, swaps) \in Int
      <3>1. activity(i, missed) \in Int
        BY <1>2 DEF activity
      <3> QED  BY <3>1 DEF Swaps
    <2> QED  BY <2>1
  <1> HIDE DEF swaps
  <1>4. \E m \in Cand : Rank(m, Cand, swaps) = 0
    BY <1>3, FirstExists
  <1>5. c \in Cand /\ Rank(c, Cand, swaps) = 0
    BY <1>4 DEF chosen, swaps
  <1>6. {j \in Cand : Ahead(j, c, swaps)} = {}
    <2> DEFINE A == {j \in Cand : Ahead(j, c, swaps)}
    <2>1. IsFiniteSet(Cand) /\ A \in SUBSET Cand
      BY CandIs
    <2> HIDE DEF A
    <2>2. IsFiniteSet(A)
      BY <2>1, FS_Subset
    <2>3. Cardinality(A) = 0
      BY <1>5 DEF Rank, A
    <2> QED  BY <2>2, <2>3, FS_EmptySet DEF A
  <1> QED  BY <1>5, <1>6 DEF swaps

-----------------------------------------------------------------------------
(***************************************************************************)
(* The row and the job, as records.                                        *)
(***************************************************************************)

Vector(b, ca, cs, cl, t, sp, se, im) ==
    [buyers |-> b, creatorAge |-> ca, clusterSize |-> cs, clusterSupply |-> cl,
     top10 |-> t, sidePools |-> sp, sellable |-> se, impact |-> im]
IsVector(f) ==
    f = Vector(f.buyers, f.creatorAge, f.clusterSize, f.clusterSupply, f.top10,
               f.sidePools, f.sellable, f.impact)
JobOf(at, head, began, features, members, partial) ==
    [at |-> at, head |-> head, began |-> began, features |-> features,
     members |-> members, partial |-> partial]
IsJob(j) == j = JobOf(j.at, j.head, j.began, j.features, j.members, j.partial)

LEMMA VectorIs ==
    ASSUME NEW b, NEW ca, NEW cs, NEW cl, NEW t, NEW sp, NEW se, NEW im
    PROVE  LET v == Vector(b, ca, cs, cl, t, sp, se, im) IN
           /\ v.buyers = b /\ v.creatorAge = ca /\ v.clusterSize = cs /\ v.clusterSupply = cl
           /\ v.top10 = t /\ v.sidePools = sp /\ v.sellable = se /\ v.impact = im
           /\ DOMAIN v = DOMAIN Unread /\ IsVector(v)
           /\ \A x : [v EXCEPT !.buyers = x] = Vector(x, ca, cs, cl, t, sp, se, im)
           /\ \A x : [v EXCEPT !.creatorAge = x] = Vector(b, x, cs, cl, t, sp, se, im)
           /\ \A x : [v EXCEPT !.sidePools = x] = Vector(b, ca, cs, cl, t, x, se, im)
           /\ \A x : [v EXCEPT !.clusterSize = x] = Vector(b, ca, x, cl, t, sp, se, im)
           /\ \A x : [v EXCEPT !.clusterSupply = x] = Vector(b, ca, cs, x, t, sp, se, im)
           /\ \A x : [v EXCEPT !.top10 = x] = Vector(b, ca, cs, cl, x, sp, se, im)
           /\ \A x : [v EXCEPT !.sellable = x] = Vector(b, ca, cs, cl, t, sp, x, im)
           /\ \A x : [v EXCEPT !.impact = x] = Vector(b, ca, cs, cl, t, sp, se, x)
  BY DEF Vector, Unread, IsVector

\* What a read makes of the vector.
LEMMA VectorReads ==
    ASSUME NEW g, IsVector(g)
    PROVE  /\ \A x : [g EXCEPT !.buyers = x]
                  = Vector(x, g.creatorAge, g.clusterSize, g.clusterSupply,
                           g.top10, g.sidePools, g.sellable, g.impact)
           /\ \A x : [g EXCEPT !.creatorAge = x]
                  = Vector(g.buyers, x, g.clusterSize, g.clusterSupply,
                           g.top10, g.sidePools, g.sellable, g.impact)
           /\ \A x, y : [g EXCEPT !.clusterSupply = x, !.top10 = y]
                  = Vector(g.buyers, g.creatorAge, g.clusterSize, x,
                           y, g.sidePools, g.sellable, g.impact)
           /\ \A x : [g EXCEPT !.sidePools = x]
                  = Vector(g.buyers, g.creatorAge, g.clusterSize, g.clusterSupply,
                           g.top10, x, g.sellable, g.impact)
           /\ \A x, y : [g EXCEPT !.sellable = x, !.impact = y]
                  = Vector(g.buyers, g.creatorAge, g.clusterSize, g.clusterSupply,
                           g.top10, g.sidePools, x, y)
           /\ \A x, y, z : [g EXCEPT !.clusterSize = x, !.sellable = y, !.impact = z]
                  = Vector(g.buyers, g.creatorAge, x, g.clusterSupply,
                           g.top10, g.sidePools, y, z)
  <1> DEFINE b == g.buyers
             ca == g.creatorAge
             cs == g.clusterSize
             cl == g.clusterSupply
             t == g.top10
             sp == g.sidePools
             se == g.sellable
             im == g.impact
  <1>1. g = Vector(b, ca, cs, cl, t, sp, se, im)
    BY DEF IsVector
  <1> HIDE DEF b, ca, cs, cl, t, sp, se, im
  <1>2. ASSUME NEW x
        PROVE  [g EXCEPT !.buyers = x]
               = Vector(x, ca, cs, cl, t, sp, se, im)
    BY <1>1, VectorIs
  <1>3. ASSUME NEW x
        PROVE  [g EXCEPT !.creatorAge = x]
               = Vector(b, x, cs, cl, t, sp, se, im)
    BY <1>1, VectorIs
  <1>4. ASSUME NEW x, NEW y
        PROVE  [g EXCEPT !.clusterSupply = x, !.top10 = y]
               = Vector(b, ca, cs, x, y, sp, se, im)
    <2>1. [g EXCEPT !.clusterSupply = x] = Vector(b, ca, cs, x, t, sp, se, im)
      BY <1>1, VectorIs
    <2>2. [Vector(b, ca, cs, x, t, sp, se, im) EXCEPT !.top10 = y] = Vector(b, ca, cs, x, y, sp, se, im)
      BY VectorIs
    <2> QED  BY <2>1, <2>2
  <1>5. ASSUME NEW x
        PROVE  [g EXCEPT !.sidePools = x]
               = Vector(b, ca, cs, cl, t, x, se, im)
    BY <1>1, VectorIs
  <1>6. ASSUME NEW x, NEW y
        PROVE  [g EXCEPT !.sellable = x, !.impact = y]
               = Vector(b, ca, cs, cl, t, sp, x, y)
    <2>1. [g EXCEPT !.sellable = x] = Vector(b, ca, cs, cl, t, sp, x, im)
      BY <1>1, VectorIs
    <2>2. [Vector(b, ca, cs, cl, t, sp, x, im) EXCEPT !.impact = y] = Vector(b, ca, cs, cl, t, sp, x, y)
      BY VectorIs
    <2> QED  BY <2>1, <2>2
  <1>7. ASSUME NEW x, NEW y, NEW z
        PROVE  [g EXCEPT !.clusterSize = x, !.sellable = y, !.impact = z]
               = Vector(b, ca, x, cl, t, sp, y, z)
    <2>1. [g EXCEPT !.clusterSize = x] = Vector(b, ca, x, cl, t, sp, se, im)
      BY <1>1, VectorIs
    <2>2. [Vector(b, ca, x, cl, t, sp, se, im) EXCEPT !.sellable = y] = Vector(b, ca, x, cl, t, sp, y, im)
      BY VectorIs
    <2>3. [Vector(b, ca, x, cl, t, sp, y, im) EXCEPT !.impact = z] = Vector(b, ca, x, cl, t, sp, y, z)
      BY VectorIs
    <2> QED  BY <2>1, <2>2, <2>3
  <1> QED  BY <1>2, <1>3, <1>4, <1>5, <1>6, <1>7, Zenon DEF b, ca, cs, cl, t, sp, se, im

LEMMA JobIs ==
    ASSUME NEW a, NEW h, NEW b, NEW f, NEW m, NEW p
    PROVE  LET j == JobOf(a, h, b, f, m, p) IN
           /\ j.at = a /\ j.head = h /\ j.began = b
           /\ j.features = f /\ j.members = m /\ j.partial = p
           /\ IsJob(j)
           /\ \A x : [j EXCEPT !.at = x] = JobOf(x, h, b, f, m, p)
           /\ \A x : [j EXCEPT !.head = x] = JobOf(a, x, b, f, m, p)
           /\ \A x : [j EXCEPT !.began = x] = JobOf(a, h, x, f, m, p)
           /\ \A x : [j EXCEPT !.features = x] = JobOf(a, h, b, x, m, p)
           /\ \A x : [j EXCEPT !.members = x] = JobOf(a, h, b, f, x, p)
           /\ \A x : [j EXCEPT !.partial = x] = JobOf(a, h, b, f, m, x)
  BY DEF JobOf, IsJob

LEMMA UnreadIs ==
    /\ IsVector(Unread) /\ Unread.creatorAge = -1 /\ Unread.clusterSize = -1
    /\ Unread.clusterSupply = -1 /\ Unread.impact = -1
  <1>1. Unread = Vector(-1, -1, -1, -1, -1, -1, -1, -1)
    BY DEF Unread, Vector
  <1>2. IsVector(Unread)
    BY <1>1, VectorIs
  <1> QED  BY <1>2 DEF Unread

Anew(at, head, began) == JobOf(at, head, began, Unread, {}, {})

LEMMA NoJobIs ==
    /\ NoJob = Anew("idle", -1, -1)
    /\ \A h, b : [NoJob EXCEPT !.at = "pool", !.head = h, !.began = b] = Anew("pool", h, b)
    /\ \A h, b : [NoJob EXCEPT !.at = "reports", !.head = h, !.began = b]
                 = Anew("reports", h, b)
  <1>1. NoJob = Anew("idle", -1, -1)
    BY DEF NoJob, JobOf, Anew
  <1>2. ASSUME NEW h, NEW b, NEW a
        PROVE  [NoJob EXCEPT !.at = a, !.head = h, !.began = b] = Anew(a, h, b)
    <2>1. [NoJob EXCEPT !.at = a] = Anew(a, -1, -1)
      BY <1>1, JobIs DEF Anew
    <2>2. [Anew(a, -1, -1) EXCEPT !.head = h] = Anew(a, h, -1)
      BY JobIs DEF Anew
    <2>3. [Anew(a, h, -1) EXCEPT !.began = b] = Anew(a, h, b)
      BY JobIs DEF Anew
    <2>4. [NoJob EXCEPT !.at = a, !.head = h, !.began = b]
          = [[[NoJob EXCEPT !.at = a] EXCEPT !.head = h] EXCEPT !.began = b]
      OBVIOUS
    <2> QED  BY <2>1, <2>2, <2>3, <2>4
  <1>3. /\ \A h, b : [NoJob EXCEPT !.at = "pool", !.head = h, !.began = b] = Anew("pool", h, b)
        /\ \A h, b : [NoJob EXCEPT !.at = "reports", !.head = h, !.began = b]
                     = Anew("reports", h, b)
    BY <1>2, Zenon
  <1> QED  BY <1>1, <1>3, Zenon

\* A step of the job, with what it has then.
Onto(at, f, m, p) == ftJob' = JobOf(at, ftJob.head, ftJob.began, f, m, p)

LEMMA JobMoves ==
    ASSUME IsJob(ftJob), NEW at, NEW x, NEW y
    PROVE  /\ Goes(at, ftJob) => Onto(at, ftJob.features, ftJob.members, ftJob.partial)
           /\ Reads(at, x) => Onto(at, x, ftJob.members, ftJob.partial)
           /\ Goes(at, [ftJob EXCEPT !.members = x]) => Onto(at, ftJob.features, x, ftJob.partial)
           /\ Goes(at, [ftJob EXCEPT !.members = x, !.partial = y]) =>
                  Onto(at, ftJob.features, x, y)
  <1> DEFINE a == ftJob.at
             h == ftJob.head
             b == ftJob.began
             f == ftJob.features
             m == ftJob.members
             p == ftJob.partial
  <1>1. ftJob = JobOf(a, h, b, f, m, p)
    BY DEF IsJob
  <1> HIDE DEF a, h, b, f, m, p
  <1>2. Goes(at, ftJob) => ftJob' = JobOf(at, h, b, f, m, p)
    BY <1>1, JobIs DEF Goes
  <1>3. /\ [ftJob EXCEPT !.features = x] = JobOf(a, h, b, x, m, p)
        /\ [ftJob EXCEPT !.members = x] = JobOf(a, h, b, f, x, p)
    BY <1>1, JobIs
  <1>4. [ftJob EXCEPT !.members = x, !.partial = y] = JobOf(a, h, b, f, x, y)
    <2>1. [JobOf(a, h, b, f, x, p) EXCEPT !.partial = y] = JobOf(a, h, b, f, x, y)
      BY JobIs
    <2>2. [ftJob EXCEPT !.members = x, !.partial = y]
          = [[ftJob EXCEPT !.members = x] EXCEPT !.partial = y]
      OBVIOUS
    <2> QED  BY <1>3, <2>1, <2>2
  <1>5. \A u, v, w : [JobOf(a, h, b, u, v, w) EXCEPT !.at = at] = JobOf(at, h, b, u, v, w)
    BY JobIs
  <1> DEFINE i == [ftJob EXCEPT !.features = x]
             j == [ftJob EXCEPT !.members = x]
             k == [ftJob EXCEPT !.members = x, !.partial = y]
  <1>6. Reads(at, x) => ftJob' = JobOf(at, h, b, x, m, p)
    <2>1. i = JobOf(a, h, b, x, m, p)
      BY <1>3
    <2>2. Reads(at, x) => ftJob' = [i EXCEPT !.at = at]
      BY DEF Reads, Goes
    <2> HIDE DEF i
    <2> QED  BY <1>5, <2>1, <2>2
  <1>7. Goes(at, j) => ftJob' = JobOf(at, h, b, f, x, p)
    <2>1. j = JobOf(a, h, b, f, x, p)
      BY <1>3
    <2> HIDE DEF j
    <2> QED  BY <1>5, <2>1 DEF Goes
  <1>8. Goes(at, k) => ftJob' = JobOf(at, h, b, f, x, y)
    <2>1. k = JobOf(a, h, b, f, x, y)
      BY <1>4
    <2> HIDE DEF k
    <2> QED  BY <1>5, <2>1 DEF Goes
  <1> QED  BY <1>2, <1>6, <1>7, <1>8 DEF Onto, h, b, f, m, p

\* The launch row.
LaunchOf(p, a, q) == [pool |-> p, tokenAge |-> a, qualified |-> q]
IsLaunch(l) == l = LaunchOf(l.pool, l.tokenAge, l.qualified)

LEMMA LaunchIs ==
    ASSUME NEW l, IsLaunch(l), NEW x
    PROVE  /\ LET m == [l EXCEPT !.pool = x] IN
              IsLaunch(m) /\ m.pool = x /\ m.tokenAge = l.tokenAge
           /\ LET m == [l EXCEPT !.tokenAge = x] IN
              IsLaunch(m) /\ m.pool = l.pool /\ m.tokenAge = x
           /\ LET m == [l EXCEPT !.qualified = x] IN
              IsLaunch(m) /\ m.pool = l.pool /\ m.tokenAge = l.tokenAge
  <1> DEFINE p == l.pool
             a == l.tokenAge
             q == l.qualified
  <1>1. l = LaunchOf(p, a, q)
    BY DEF IsLaunch
  <1> HIDE DEF p, a, q
  <1>2. /\ [LaunchOf(p, a, q) EXCEPT !.pool = x] = LaunchOf(x, a, q)
        /\ [LaunchOf(p, a, q) EXCEPT !.tokenAge = x] = LaunchOf(p, x, q)
        /\ [LaunchOf(p, a, q) EXCEPT !.qualified = x] = LaunchOf(p, a, x)
    BY DEF LaunchOf
  <1>3. \A i, j, k : /\ LaunchOf(i, j, k).pool = i /\ LaunchOf(i, j, k).tokenAge = j
                     /\ LaunchOf(i, j, k).qualified = k /\ IsLaunch(LaunchOf(i, j, k))
    BY DEF LaunchOf, IsLaunch
  <1> QED  BY <1>1, <1>2, <1>3 DEF p, a

-----------------------------------------------------------------------------
(***************************************************************************)
(* What the row and the job say.                                           *)
(***************************************************************************)

\* All the recipients of the window, wherever the head is.
AllRecipients ==
    {Member(i, "DIRECT_TRANSFER") :
        i \in {j \in Moves(LaunchBlock, WindowEnd) :
                  /\ ftWorld.moves[j].from = "creator"
                  /\ ftWorld.moves[j].to \notin {"pool", "creator"}}}
Everyone == Creators \cup LaunchBuyers \cup AllRecipients

\* Ages, shares and impacts that may be told of the world, clusters whole at some head
\* from the one a job began at, and pools, as far as the job's head goes.
AgesOK ==
    {a \in Int : /\ a >= -1
                 /\ a # -1 => LaunchBlock - ftWorld.deploy - a
                                  \in 0..LeftOf(FreshBlocks, AgeIters - 2)}
CreatorsOK ==
    {a \in Int : a # -1 => /\ ftWorld.firstTx # -1
                           /\ LaunchBlock - ftWorld.firstTx - a
                                  \in 0..LeftOf(LaunchBlock, NonceIters)}
Held(ms, to) == Share({m.address : m \in ms} \cap Addresses, to)
SharesOK ==
    {<<-1, ms>> : ms \in SUBSET Everyone}
    \cup {<<Held(ms, to), ms>> : ms \in SUBSET Everyone, to \in LaunchBlock..WindowEnd}
ImpactsOK == {-1, ftWorld.decimals} \cup {d \in {DefaultDecimals} : ftFailures > 0}
FoundOK ==
    {x \in (SUBSET Everyone) \X FtHeads : \E h \in x[2]..ftHead : x[1] = Whole(h)}
PoolsOK ==
    {p \in DOMAIN Pools : \A i \in Cand : ~Ahead(i, p, [j \in Probed |-> Pools[j].swaps])}
Sells(f) == f.impact # -1 => f.sellable = 1

Early == {"pool", "buyers", "launch_block"}
Late == {"token_age", "creator", "holders", "sides", "scanners", "save"}
Measured == {"sides", "scanners", "save"}
Stages == {"idle", "direct", "reports"} \cup Early \cup Late

FtRowInv ==
    /\ ftWorld \in FtWorlds /\ ftHead \in FtHeads /\ ftFailures \in Nat
    /\ ftDecimals \in ImpactsOK
    /\ IsLaunch(ftLaunch) /\ ftLaunch.pool \in DOMAIN Pools /\ ftLaunch.tokenAge \in AgesOK
    /\ IsVector(ftFeature) /\ ftFeature.creatorAge \in CreatorsOK /\ Sells(ftFeature)
    /\ ftFeature.impact \in ImpactsOK
    /\ <<ftFeature.clusterSupply, ftMembers>> \in SharesOK
    /\ ftMembers \subseteq Everyone /\ ftFeature.clusterSize \in -1..Cardinality(ftMembers)
    /\ ftComputed # -1 => <<ftMembers, ftComputed>> \in FoundOK
    /\ \A r \in ftReports : <<r.members, r.began>> \in FoundOK

FtJobInv ==
    /\ IsJob(ftJob) /\ IsVector(ftJob.features)
    /\ ftJob.at \in Stages /\ ftJob.head \in FtHeads \cup {-1}
    /\ ftJob.at # "idle" => /\ ftJob.began \in FtHeads /\ ftJob.began <= ftHead
                            /\ ftJob.head \in {ftJob.began, -1}
                            /\ ftJob.head = -1 => ftFailures > 0
    /\ ftJob.members \subseteq Everyone
    /\ ftJob.at \in Early => ftJob.members = {}
    /\ ftJob.at = "direct" /\ ftJob.partial = {} =>
           ftJob.members = Creators \cup LaunchBuyers
    /\ ftJob.at \in Late /\ ftJob.partial = {} => <<ftJob.members, ftJob.began>> \in FoundOK
    /\ ftJob.features.creatorAge \in CreatorsOK /\ Sells(ftJob.features)
    /\ ftJob.features.impact \in ImpactsOK
    /\ <<ftJob.features.clusterSupply, ftJob.members>> \in SharesOK
    /\ ftJob.at \notin Measured => ftJob.features.clusterSupply = -1
    /\ ftJob.at = "reports" => ftComputed # -1
    /\ ftWorld.v4 /\ ftJob.at \notin {"idle", "pool"} /\ ftFailures = 0 =>
           ftLaunch.pool \in PoolsOK

FtInv == FtRowInv /\ FtJobInv

-----------------------------------------------------------------------------
\* The world does not change; its head moves on, and failures are not forgotten.
LEMMA MovesSame ==
    ASSUME ftWorld' = ftWorld
    PROVE  /\ \A from, to : Moves(from, to)' = Moves(from, to)
           /\ \A S : Value(S)' = Value(S)
           /\ Addresses' = Addresses
  BY DEF Moves, Value, Addresses

LEMMA MembersSame ==
    ASSUME ftWorld' = ftWorld
    PROVE  /\ LaunchBuyers' = LaunchBuyers /\ AllRecipients' = AllRecipients
           /\ Everyone' = Everyone /\ Creators' = Creators
           /\ \A h : Whole(h)' = Whole(h)
  <1>1. LaunchBuyers' = LaunchBuyers
    BY DEF LaunchBuyers, Moves, Member
  <1>2. AllRecipients' = AllRecipients
    BY DEF AllRecipients, Moves, Member, WindowEnd
  <1>3. ASSUME NEW h PROVE Recipients(h)' = Recipients(h)
    BY DEF Recipients, Moves, Member, WindowEnd
  <1>4. Creators' = Creators
    BY DEF Creators
  <1> QED  BY <1>1, <1>2, <1>3, <1>4 DEF Everyone, Whole

LEMMA WholeIsOfEveryone == \A h : Whole(h) \subseteq Everyone
  <1>1. ASSUME NEW h PROVE Recipients(h) \subseteq AllRecipients
    BY DEF Recipients, AllRecipients
  <1> QED  BY <1>1 DEF Whole, Everyone

LEMMA SharesSame ==
    ASSUME ftWorld' = ftWorld
    PROVE  \A S, to : Share(S, to)' = Share(S, to)
  <1>1. ASSUME NEW a, NEW to PROVE Balance(a, to)' = Balance(a, to)
    <2>1. Moves(LaunchBlock, to)' = Moves(LaunchBlock, to)
      BY DEF Moves
    <2>2. /\ {i \in Moves(LaunchBlock, to) : ftWorld.moves[i].to = a}'
             = {i \in Moves(LaunchBlock, to) : ftWorld.moves[i].to = a}
          /\ {i \in Moves(LaunchBlock, to) : ftWorld.moves[i].from = a}'
             = {i \in Moves(LaunchBlock, to) : ftWorld.moves[i].from = a}
      BY <2>1
    <2>3. [i \in DOMAIN ftWorld.moves |-> ftWorld.moves[i].value]'
          = [i \in DOMAIN ftWorld.moves |-> ftWorld.moves[i].value]
      OBVIOUS
    <2> QED  BY <2>2, <2>3 DEF Balance, Value
  <1>2. ASSUME NEW S, NEW to PROVE Share(S, to)' = Share(S, to)
    <2>1. [a \in S |-> Balance(a, to)]' = [a \in S |-> Balance(a, to)]
      BY <1>1
    <2>2. {a \in S : Balance(a, to) > 0}' = {a \in S : Balance(a, to) > 0}
      BY <1>1
    <2> QED  BY <2>1, <2>2 DEF Share
  <1> QED  BY <1>2

LEMMA WorldSame ==
    ASSUME ftWorld' = ftWorld
    PROVE  /\ AgesOK' = AgesOK /\ CreatorsOK' = CreatorsOK /\ SharesOK' = SharesOK
           /\ Everyone' = Everyone /\ LaunchBuyers' = LaunchBuyers /\ Pools' = Pools
           /\ Creators' = Creators
  <1>1. AgesOK' = AgesOK /\ CreatorsOK' = CreatorsOK /\ Pools' = Pools
    BY DEF AgesOK, CreatorsOK, Pools
  <1>2. ASSUME NEW ms, NEW to PROVE Held(ms, to)' = Held(ms, to)
    <2>1. ({m.address : m \in ms} \cap Addresses)' = {m.address : m \in ms} \cap Addresses
      BY MovesSame
    <2> DEFINE S == {m.address : m \in ms} \cap Addresses
    <2> QED  BY <2>1, SharesSame DEF Held
  <1>3. Everyone' = Everyone /\ LaunchBuyers' = LaunchBuyers /\ Creators' = Creators
    BY MembersSame
  <1>4. SharesOK' = SharesOK
    BY <1>2, <1>3 DEF SharesOK, WindowEnd
  <1> QED  BY <1>1, <1>3, <1>4

Counts == ftFailures' \in Nat /\ (ftFailures' = 0 => ftFailures = 0)
Passes == ftWorld' = ftWorld /\ ftHead' \in FtHeads /\ ftHead' >= ftHead /\ Counts

LEMMA PassingGrows ==
    ASSUME ftHead \in FtHeads, ftFailures \in Nat, Passes
    PROVE  ImpactsOK \subseteq ImpactsOK' /\ FoundOK \subseteq FoundOK'
  <1>1. ftFailures > 0 => ftFailures' > 0
    BY DEF Passes, Counts
  <1>2. ImpactsOK \subseteq ImpactsOK'
    BY <1>1 DEF ImpactsOK, Passes, DefaultDecimals
  <1>3. ASSUME NEW x \in FoundOK PROVE x \in FoundOK'
    <2>1. x \in (SUBSET Everyone') \X FtHeads
      BY MembersSame DEF Passes, FoundOK
    <2>2. PICK h \in x[2]..ftHead : x[1] = Whole(h)
      BY DEF FoundOK
    <2>3. h \in x[2]..ftHead'
      <3>1. x[2] \in Int /\ ftHead \in Int /\ ftHead' \in Int
        BY <2>1, FtConstants DEF Passes
      <3> QED  BY <2>2, <3>1 DEF Passes
    <2>4. x[1] = Whole(h)'
      BY <2>2, MembersSame DEF Passes
    <2> QED  BY <2>1, <2>3, <2>4 DEF FoundOK
  <1> QED  BY <1>2, <1>3

\* A job that knows the head scans no further than was there when it began.
LEMMA PoolsSame ==
    ASSUME ftWorld' = ftWorld, ftJob'.head = ftJob.head,
           ftHead \in FtHeads, ftHead' \in FtHeads,
           \/ ftHead' = ftHead
           \/ /\ ftHead' >= ftHead /\ ftJob.head \in FtHeads /\ ftJob.head <= ftHead
    PROVE  PoolsOK' = PoolsOK
  <1>1. Pools' = Pools
    BY DEF Pools
  <1>2. Cand' = Cand
    <2>1. Reached(scanTo)' = Reached(scanTo)
      <3>1. CASE ftHead' = ftHead
        BY <3>1 DEF Reached, scanTo, Clamp
      <3>2. CASE ftHead' >= ftHead /\ ftJob.head \in FtHeads /\ ftJob.head <= ftHead
        <4> DEFINE h == ftJob.head
                   b == LaunchBlock + ScanBlocks
        <4>1. h \in Nat /\ b \in Nat /\ ftHead \in Nat /\ ftHead' \in Nat
          BY <3>2, FtConstants
        <4>2. scanTo = IF b > h THEN h ELSE b
          BY <4>1 DEF scanTo, Clamp
        <4>3. scanTo' = scanTo
          BY DEF scanTo, Clamp
        <4> HIDE DEF h, b
        <4>4. scanTo \in Nat /\ scanTo <= h
          BY <4>1, <4>2
        <4>5. scanTo <= ftHead /\ scanTo <= ftHead'
          BY <3>2, <4>1, <4>4 DEF h
        <4>6. ~(scanTo > ftHead) /\ ~(scanTo > ftHead')
          BY <4>1, <4>4, <4>5
        <4> QED  BY <4>3, <4>6 DEF Reached
      <3> QED  BY <3>1, <3>2
    <2> QED  BY <1>1, <2>1 DEF Cand
  <1>3. \A a, b, s : Ahead(a, b, s)' <=> Ahead(a, b, s)
    BY <1>1 DEF Ahead
  <1>4. Contenders' = Contenders
    BY <1>1, <1>2 DEF Contenders
  <1>5. \A i, S, s : Rank(i, S, s)' = Rank(i, S, s)
    BY <1>3 DEF Rank
  <1>6. Probed' = Probed
    BY <1>4, <1>5 DEF Probed
  <1>7. [j \in Probed |-> Pools[j].swaps]' = [j \in Probed |-> Pools[j].swaps]
    BY <1>1, <1>6
  <1> QED  BY <1>1, <1>2, <1>3, <1>7 DEF PoolsOK

-----------------------------------------------------------------------------
(***************************************************************************)
(* The steps.                                                              *)
(***************************************************************************)

LEMMA NullIsOK ==
    /\ -1 \in AgesOK /\ -1 \in CreatorsOK /\ -1 \in ImpactsOK /\ -1 \in ImpactsOK'
    /\ Sells(Unread)
    /\ \A ms \in SUBSET Everyone : <<-1, ms>> \in SharesOK
  <1>1. -1 \in AgesOK /\ -1 \in CreatorsOK /\ -1 \in ImpactsOK /\ -1 \in ImpactsOK'
    BY DEF AgesOK, CreatorsOK, ImpactsOK
  <1>2. Sells(Unread)
    BY DEF Sells, Unread
  <1>3. \A ms \in SUBSET Everyone : <<-1, ms>> \in SharesOK
    BY DEF SharesOK
  <1> QED  BY <1>1, <1>2, <1>3

\* What holds of a state, and of whatever a step does to its failures.
LEMMA NothingChanges ==
    ASSUME FtInv
    PROVE  /\ IsLaunch(ftLaunch) /\ ftLaunch.tokenAge \in AgesOK /\ ftLaunch.pool \in DOMAIN Pools
           /\ ftFailures \in Nat /\ ftWorld \in FtWorlds /\ ftHead \in FtHeads
           /\ ftHead \in Nat /\ ftDecimals \in ImpactsOK
           /\ IsJob(ftJob) /\ IsVector(ftJob.features) /\ ftJob.head \in FtHeads \cup {-1}
           /\ ftJob.members \subseteq Everyone
           /\ ftJob.features.creatorAge \in CreatorsOK /\ Sells(ftJob.features)
           /\ ftJob.features.impact \in ImpactsOK
           /\ <<ftJob.features.clusterSupply, ftJob.members>> \in SharesOK
           /\ (ftJob.at \notin Measured => ftJob.features.clusterSupply = -1)
           /\ (Fails => Counts /\ ftFailures' # 0)
           /\ (UNCHANGED ftFailures => Counts)
           /\ \A b : ReadFails(b) => Counts
           /\ (ftWorld' = ftWorld /\ ftHead' = ftHead /\ Counts => Passes)
  <1>1. ftFailures \in Nat /\ ftHead \in FtHeads /\ ftHead \in Nat
    BY FtConstants DEF FtInv, FtRowInv
  <1>2. Fails => Counts /\ ftFailures' # 0
    BY <1>1 DEF Fails, Counts
  <1>3. UNCHANGED ftFailures => Counts
    BY <1>1 DEF Counts
  <1>4. \A b : ReadFails(b) => Counts
    BY <1>2, <1>3 DEF ReadFails
  <1>5. ftWorld' = ftWorld /\ ftHead' = ftHead /\ Counts => Passes
    BY <1>1 DEF Passes
  <1> QED  BY <1>1, <1>2, <1>3, <1>4, <1>5 DEF FtInv, FtRowInv, FtJobInv

\* A step that leaves the row alone, but for the launch's age and qualification.
LEMMA RowRests ==
    ASSUME FtRowInv, Passes, ftDecimals' \in ImpactsOK',
           IsLaunch(ftLaunch'), ftLaunch'.pool \in DOMAIN Pools, ftLaunch'.tokenAge \in AgesOK,
           ftFeature' = ftFeature, ftMembers' = ftMembers, ftComputed' = ftComputed,
           \A r \in ftReports' : <<r.members, r.began>> \in FoundOK
    PROVE  FtRowInv'
  <1>1. /\ AgesOK' = AgesOK /\ CreatorsOK' = CreatorsOK /\ SharesOK' = SharesOK
        /\ Everyone' = Everyone /\ Pools' = Pools
    BY WorldSame DEF Passes
  <1>2. /\ ftWorld \in FtWorlds
        /\ IsVector(ftFeature) /\ ftFeature.creatorAge \in CreatorsOK /\ Sells(ftFeature)
        /\ ftFeature.impact \in ImpactsOK
        /\ <<ftFeature.clusterSupply, ftMembers>> \in SharesOK
        /\ ftMembers \subseteq Everyone /\ ftFeature.clusterSize \in -1..Cardinality(ftMembers)
        /\ (ftComputed # -1 => <<ftMembers, ftComputed>> \in FoundOK)
    BY DEF FtRowInv
  <1>3. ImpactsOK \subseteq ImpactsOK' /\ FoundOK \subseteq FoundOK'
    BY PassingGrows DEF FtRowInv
  <1>4. /\ ftWorld' \in FtWorlds /\ ftHead' \in FtHeads /\ ftFailures' \in Nat
        /\ IsVector(ftFeature)' /\ ftFeature'.creatorAge \in CreatorsOK' /\ Sells(ftFeature)'
        /\ ftFeature'.impact \in ImpactsOK'
        /\ <<ftFeature'.clusterSupply, ftMembers'>> \in SharesOK'
        /\ ftMembers' \subseteq Everyone' /\ ftFeature'.clusterSize \in -1..Cardinality(ftMembers')
    BY <1>1, <1>2, <1>3 DEF IsVector, Sells, Passes, Counts
  <1>5. /\ ftComputed' # -1 => <<ftMembers', ftComputed'>> \in FoundOK'
        /\ \A r \in ftReports' : <<r.members, r.began>> \in FoundOK'
    BY <1>2, <1>3
  <1>6. /\ IsLaunch(ftLaunch)' /\ ftLaunch'.pool \in DOMAIN Pools' /\ ftLaunch'.tokenAge \in AgesOK'
    BY <1>1 DEF IsLaunch
  <1> QED  BY <1>4, <1>5, <1>6 DEF FtRowInv

\* A step of the job at work.
LEMMA JobSteps ==
    ASSUME FtInv, ftWorld' = ftWorld, ftHead' = ftHead, Counts, ftDecimals' \in ImpactsOK',
           NEW at, NEW f, NEW m, NEW p, Onto(at, f, m, p),
           at \in Stages, at \notin {"idle", "reports"}, ftJob.at \notin {"idle", "pool"},
           IsVector(f), m \subseteq Everyone, at \in Early => m = {},
           at = "direct" /\ p = {} => m = Creators \cup LaunchBuyers,
           at \in Late /\ p = {} => <<m, ftJob.began>> \in FoundOK,
           f.creatorAge \in CreatorsOK, Sells(f), f.impact \in ImpactsOK',
           <<f.clusterSupply, m>> \in SharesOK,
           at \notin Measured => f.clusterSupply = -1,
           IsLaunch(ftLaunch'), ftLaunch'.pool = ftLaunch.pool, ftLaunch'.tokenAge \in AgesOK,
           ftFeature' = ftFeature, ftMembers' = ftMembers, ftComputed' = ftComputed,
           ftReports' = ftReports
    PROVE  FtInv'
  <1>1. /\ AgesOK' = AgesOK /\ CreatorsOK' = CreatorsOK /\ SharesOK' = SharesOK
        /\ Everyone' = Everyone /\ LaunchBuyers' = LaunchBuyers /\ Creators' = Creators
    BY WorldSame
  <1>2. /\ ftJob'.at = at /\ ftJob'.head = ftJob.head /\ ftJob'.began = ftJob.began
        /\ ftJob'.features = f /\ ftJob'.members = m /\ ftJob'.partial = p /\ IsJob(ftJob)'
    <2>1. /\ ftJob'.at = at /\ ftJob'.head = ftJob.head /\ ftJob'.began = ftJob.began
          /\ ftJob'.features = f /\ ftJob'.members = m /\ ftJob'.partial = p
      BY JobIs DEF Onto
    <2> QED  BY <2>1 DEF IsJob, Onto
  <1>3. Passes /\ FoundOK \subseteq FoundOK'
    BY NothingChanges, PassingGrows
  <1>4. FtRowInv'
    <2>1. /\ ftLaunch'.pool \in DOMAIN Pools
          /\ \A r \in ftReports' : <<r.members, r.began>> \in FoundOK
      BY DEF FtInv, FtRowInv
    <2> QED  BY <1>3, <2>1, RowRests DEF FtInv
  <1>5. ftWorld'.v4 /\ ftJob'.at \notin {"idle", "pool"} /\ ftFailures' = 0 => ftLaunch'.pool \in PoolsOK'
    <2>1. PoolsOK' = PoolsOK
      BY <1>2, NothingChanges, PoolsSame
    <2>2. ftWorld.v4 /\ ftFailures = 0 => ftLaunch.pool \in PoolsOK
      BY DEF FtInv, FtJobInv
    <2> QED  BY <2>1, <2>2 DEF Counts
  <1>6. /\ ftJob'.head \in FtHeads \cup {-1}
        /\ ftJob'.began \in FtHeads /\ ftJob'.began <= ftHead'
        /\ ftJob'.head \in {ftJob'.began, -1}
        /\ (ftJob'.head = -1 => ftFailures' > 0)
    <2>1. /\ ftJob.head \in FtHeads \cup {-1} /\ ftFailures \in Nat
          /\ ftJob.began \in FtHeads /\ ftJob.began <= ftHead
          /\ ftJob.head \in {ftJob.began, -1} /\ (ftJob.head = -1 => ftFailures > 0)
      BY NothingChanges DEF FtInv, FtJobInv
    <2>2. ftFailures > 0 => ftFailures' > 0
      BY <2>1 DEF Counts
    <2> QED  BY <1>2, <2>1, <2>2
  <1>7. /\ IsVector(ftJob.features)' /\ Sells(ftJob.features)'
        /\ ftJob'.features.impact \in ImpactsOK'
    BY <1>2 DEF IsVector, Sells
  <1>8. /\ (ftJob'.at = "direct" /\ ftJob'.partial = {} =>
               ftJob'.members = Creators' \cup LaunchBuyers')
        /\ (ftJob'.at \in Late /\ ftJob'.partial = {} =>
               <<ftJob'.members, ftJob'.began>> \in FoundOK')
        /\ (ftJob'.at \in Early => ftJob'.members = {})
    BY <1>1, <1>2, <1>3
  <1>9. FtJobInv'
    BY <1>1, <1>2, <1>5, <1>6, <1>7, <1>8 DEF FtJobInv
  <1> QED  BY <1>4, <1>9 DEF FtInv

\* The row is left alone; and the rest too, by a step that only reads.
RowStays ==
    /\ ftWorld' = ftWorld /\ ftHead' = ftHead
    /\ ftLaunch' = ftLaunch /\ ftFeature' = ftFeature
    /\ ftMembers' = ftMembers /\ ftComputed' = ftComputed
RowKept == RowStays /\ ftReports' = ftReports /\ Counts /\ ftDecimals' \in ImpactsOK'

\* A read that gives the job a vector of features.
LEMMA ReadingKeeps ==
    ASSUME FtInv, RowKept,
           ftJob.at \notin {"idle", "pool", "reports"}, NEW at, at \in Stages,
           at \notin {"idle", "reports", "direct"}, at \in Late => ftJob.at \in Late,
           at \in Early => ftJob.at \in Early,
           NEW f, Onto(at, f, ftJob.members, ftJob.partial),
           IsVector(f), f.creatorAge \in CreatorsOK, Sells(f), f.impact \in ImpactsOK',
           <<f.clusterSupply, ftJob.members>> \in SharesOK,
           at \notin Measured => f.clusterSupply = -1
    PROVE  FtInv'
  <1>1. /\ at \in Late /\ ftJob.partial = {} => <<ftJob.members, ftJob.began>> \in FoundOK
        /\ at \in Early => ftJob.members = {}
    BY DEF FtInv, FtJobInv
  <1>2. ftLaunch'.pool = ftLaunch.pool /\ IsLaunch(ftLaunch') /\ ftLaunch'.tokenAge \in AgesOK
    BY NothingChanges DEF RowKept, RowStays
  <1>3. ftJob.members \subseteq Everyone /\ ftJob.at \notin {"idle", "pool"}
    BY NothingChanges
  <1>4. at # "direct" /\ at \notin {"idle", "reports"}
    OBVIOUS
  <1> QED  BY <1>1, <1>2, <1>3, <1>4, JobSteps DEF RowKept, RowStays

\* A read that failed, or was not made.
LEMMA SkippingKeeps ==
    ASSUME FtInv, RowKept,
           ftJob.at \notin {"idle", "pool", "reports"}, NEW at, at \in Stages,
           at \notin {"idle", "reports", "direct"}, at \in Late => ftJob.at \in Late,
           at \in Early => ftJob.at \in Early,
           ftJob.at \in Measured => at \in Measured, Goes(at, ftJob)
    PROVE  FtInv'
  <1>1. Onto(at, ftJob.features, ftJob.members, ftJob.partial)
    BY NothingChanges, JobMoves, Zenon
  <1>2. at \notin Measured => ftJob.features.clusterSupply = -1
    BY NothingChanges
  <1>3. ImpactsOK \subseteq ImpactsOK'
    BY NothingChanges, PassingGrows DEF RowKept, RowStays
  <1> QED  BY <1>1, <1>2, <1>3, NothingChanges, ReadingKeeps

-----------------------------------------------------------------------------
LEMMA FtInitially == FtInit => FtInv
  <1> SUFFICES ASSUME FtInit PROVE FtInv
    OBVIOUS
  <1>1. ftWorld \in FtWorlds /\ ftHead \in FtHeads /\ ftDecimals = -1
    BY DEF FtInit
  <1>2. /\ ftLaunch = LaunchOf(1, -1, FALSE) /\ ftLaunch.pool = 1 /\ ftLaunch.tokenAge = -1
        /\ IsLaunch(ftLaunch)
    BY DEF FtInit, LaunchOf, IsLaunch
  <1>3. 1 \in DOMAIN Pools
    <2>1. ftWorld.pools \in Seq(PoolRow) /\ ftWorld.pools # <<>>
      BY <1>1, WorldIs
    <2>2. Len(ftWorld.pools) \in Nat /\ Len(ftWorld.pools) # 0
      BY <2>1, EmptySeq
    <2> QED  BY <2>1, <2>2 DEF Pools
  <1>4. /\ ftFeature = Unread /\ ftMembers = {} /\ ftComputed = -1
        /\ ftReports = {} /\ ftJob = NoJob /\ ftFailures = 0
    BY DEF FtInit
  <1>5. /\ IsVector(Unread) /\ Unread.creatorAge = -1 /\ Unread.clusterSupply = -1
        /\ Unread.clusterSize = -1 /\ Unread.impact = -1
    BY UnreadIs
  <1>6. {} \subseteq Everyone /\ <<-1, {}>> \in SharesOK
    BY NullIsOK
  <1>7. FtRowInv
    <2>1. -1 \in -1..Cardinality({})
      BY FS_EmptySet
    <2>2. ftComputed # -1 => <<ftMembers, ftComputed>> \in FoundOK
      BY <1>4
    <2> QED  BY <1>1, <1>2, <1>3, <1>4, <1>5, <1>6, <2>1, <2>2, NullIsOK DEF FtRowInv
  <1>8. FtJobInv
    <2>1. /\ ftJob.at = "idle" /\ ftJob.head = -1 /\ ftJob.features = Unread
          /\ ftJob.members = {} /\ ftJob.partial = {} /\ IsJob(ftJob)
      <3>1. ftJob = Anew("idle", -1, -1)
        BY <1>4, NoJobIs, Zenon
      <3> QED  BY <3>1, JobIs DEF Anew
    <2> QED  BY <1>5, <1>6, <2>1, NullIsOK DEF FtJobInv, Stages, Late, Early, Measured
  <1> QED  BY <1>7, <1>8 DEF FtInv

\* A job that begins, ends, or has saved its row.
LEMMA JobAnew ==
    ASSUME FtRowInv', ftWorld' = ftWorld, NEW at \in {"idle", "pool", "reports"},
           NEW h \in FtHeads \cup {-1}, NEW b, ftJob' = Anew(at, h, b),
           at # "idle" => /\ b \in FtHeads /\ b <= ftHead' /\ h \in {b, -1}
                          /\ h = -1 => ftFailures' > 0,
           at = "reports" => /\ ftComputed' # -1
                             /\ ftWorld.v4 /\ ftFailures' = 0 => ftLaunch'.pool \in PoolsOK'
    PROVE  FtInv'
  <1>1. /\ ftJob'.at = at /\ ftJob'.head = h /\ ftJob'.began = b /\ ftJob'.features = Unread
        /\ ftJob'.members = {} /\ ftJob'.partial = {} /\ IsJob(ftJob)'
    <2>1. /\ ftJob'.at = at /\ ftJob'.head = h /\ ftJob'.began = b /\ ftJob'.features = Unread
          /\ ftJob'.members = {} /\ ftJob'.partial = {}
      BY JobIs DEF Anew
    <2> QED  BY <2>1 DEF IsJob, Anew
  <1>2. /\ IsVector(Unread) /\ Unread.creatorAge = -1 /\ Unread.clusterSupply = -1
        /\ Unread.impact = -1
    BY UnreadIs
  <1>3. /\ CreatorsOK' = CreatorsOK /\ SharesOK' = SharesOK /\ Everyone' = Everyone
    BY WorldSame
  <1>4. IsVector(ftJob.features)' /\ Sells(ftJob.features)'
    BY <1>1, <1>2, NullIsOK DEF IsVector, Sells
  <1>5. {} \subseteq Everyone /\ <<-1, {}>> \in SharesOK
    BY NullIsOK
  <1>6. ftJob'.features.creatorAge \in CreatorsOK' /\ ftJob'.features.impact \in ImpactsOK'
        /\ <<ftJob'.features.clusterSupply, ftJob'.members>> \in SharesOK'
        /\ ftJob'.features.clusterSupply = -1 /\ ftJob'.members \subseteq Everyone'
    BY <1>1, <1>2, <1>3, <1>5, NullIsOK
  <1>7. /\ ftJob'.at \in Stages /\ ftJob'.at \notin Late /\ ftJob'.at # "direct"
        /\ ftJob'.at \in Early => ftJob'.members = {}
    BY <1>1 DEF Stages, Late, Early
  <1>8. ftJob'.at = "reports" => ftComputed' # -1
    BY <1>1
  <1>9. ftWorld'.v4 /\ ftJob'.at \notin {"idle", "pool"} /\ ftFailures' = 0
        => ftLaunch'.pool \in PoolsOK'
    BY <1>1
  <1>10. /\ ftJob'.head \in FtHeads \cup {-1}
         /\ ftJob'.at # "idle" => /\ ftJob'.began \in FtHeads /\ ftJob'.began <= ftHead'
                                  /\ ftJob'.head \in {ftJob'.began, -1}
                                  /\ ftJob'.head = -1 => ftFailures' > 0
    BY <1>1
  <1> QED  BY <1>1, <1>4, <1>6, <1>7, <1>8, <1>9, <1>10 DEF FtJobInv, FtInv

\* The row and the job are left alone, and the head moves on or not.
AllStays ==
    UNCHANGED <<ftWorld, ftRow, ftReports, ftJob, ftDecimals, ftFailures>>

LEMMA RestKeeps ==
    ASSUME FtInv, ftHead' \in FtHeads, ftHead' >= ftHead, AllStays
    PROVE  FtInv'
  <1>1. /\ Passes /\ ftHead \in FtHeads /\ ftFailures' = ftFailures /\ ftJob' = ftJob
        /\ ftReports' = ftReports /\ ftDecimals' = ftDecimals /\ ftWorld' = ftWorld
        /\ ftLaunch' = ftLaunch /\ ftFeature' = ftFeature /\ ftMembers' = ftMembers
        /\ ftComputed' = ftComputed
    BY NothingChanges DEF AllStays, ftRow, Passes
  <1>2. /\ ImpactsOK \subseteq ImpactsOK' /\ FoundOK \subseteq FoundOK'
        /\ CreatorsOK' = CreatorsOK /\ SharesOK' = SharesOK /\ Everyone' = Everyone
        /\ LaunchBuyers' = LaunchBuyers /\ Creators' = Creators
    BY <1>1, NothingChanges, PassingGrows, WorldSame
  <1>3. FtRowInv'
    <2>1. /\ ftLaunch'.pool \in DOMAIN Pools
          /\ \A r \in ftReports' : <<r.members, r.began>> \in FoundOK
      BY <1>1 DEF FtInv, FtRowInv
    <2>2. ftDecimals' \in ImpactsOK' /\ IsLaunch(ftLaunch') /\ ftLaunch'.tokenAge \in AgesOK
      BY <1>1, <1>2, NothingChanges
    <2> QED  BY <1>1, <2>1, <2>2, RowRests DEF FtInv
  <1>4. ftWorld'.v4 /\ ftJob'.at \notin {"idle", "pool"} /\ ftFailures' = 0
        => ftLaunch'.pool \in PoolsOK'
    <2> SUFFICES ASSUME ftWorld.v4, ftJob.at \notin {"idle", "pool"}, ftFailures = 0
                 PROVE  ftLaunch.pool \in PoolsOK'
      BY <1>1
    <2>1. ftJob.head \in FtHeads /\ ftJob.head <= ftHead
      BY DEF FtInv, FtJobInv
    <2>2. PoolsOK' = PoolsOK
      BY <1>1, <2>1, PoolsSame
    <2> QED  BY <2>2 DEF FtInv, FtJobInv
  <1>5. /\ IsJob(ftJob)' /\ IsVector(ftJob.features)'
        /\ ftJob'.at \in Stages /\ ftJob'.head \in FtHeads \cup {-1}
        /\ ftJob'.members \subseteq Everyone'
        /\ ftJob'.features.creatorAge \in CreatorsOK' /\ Sells(ftJob.features)'
        /\ ftJob'.features.impact \in ImpactsOK'
        /\ <<ftJob'.features.clusterSupply, ftJob'.members>> \in SharesOK'
        /\ (ftJob'.at \notin Measured => ftJob'.features.clusterSupply = -1)
    BY <1>1, <1>2, NothingChanges DEF FtInv, FtJobInv, IsJob, IsVector, Sells
  <1>6. /\ (ftJob'.at = "direct" /\ ftJob'.partial = {} =>
               ftJob'.members = Creators' \cup LaunchBuyers')
        /\ (ftJob'.at \in Late /\ ftJob'.partial = {} =>
               <<ftJob'.members, ftJob'.began>> \in FoundOK')
        /\ (ftJob'.at \in Early => ftJob'.members = {})
        /\ (ftJob'.at = "reports" => ftComputed' # -1)
    BY <1>1, <1>2 DEF FtInv, FtJobInv
  <1>7. ftJob'.at # "idle" => /\ ftJob'.began \in FtHeads /\ ftJob'.began <= ftHead'
                              /\ ftJob'.head \in {ftJob'.began, -1}
                              /\ ftJob'.head = -1 => ftFailures' > 0
    <2>1. ASSUME ftJob.at # "idle"
          PROVE  /\ ftJob.began \in FtHeads /\ ftJob.began <= ftHead'
                 /\ ftJob.head \in {ftJob.began, -1} /\ (ftJob.head = -1 => ftFailures > 0)
      <3>1. /\ ftJob.began \in FtHeads /\ ftJob.began <= ftHead
            /\ ftJob.head \in {ftJob.began, -1} /\ (ftJob.head = -1 => ftFailures > 0)
        BY <2>1 DEF FtInv, FtJobInv
      <3>2. ftJob.began \in Nat /\ ftHead \in Nat /\ ftHead' \in Nat
        BY <1>1, <3>1, FtConstants
      <3> QED  BY <3>1, <3>2
    <2> QED  BY <1>1, <2>1
  <1>8. FtJobInv'
    BY <1>4, <1>5, <1>6, <1>7 DEF FtJobInv
  <1> QED  BY <1>3, <1>8 DEF FtInv

LEMMA FtStays ==
    ASSUME FtInv, UNCHANGED ftVars
    PROVE  FtInv'
  <1>1. /\ AllStays /\ ftHead' = ftHead /\ ftHead \in FtHeads /\ ftHead \in Nat
    BY NothingChanges DEF ftVars, ftChain, AllStays
  <1>2. ftHead' >= ftHead
    BY <1>1
  <1> QED  BY <1>1, <1>2, RestKeeps

LEMMA BlocksMinedKeeps ==
    ASSUME FtInv, BlocksMined
    PROVE  FtInv'
  <1>1. ftHead' \in FtHeads /\ ftHead' > ftHead /\ ftHead \in Nat /\ ftHead' \in Nat
    BY NothingChanges, FtConstants DEF BlocksMined
  <1>2. ftHead' >= ftHead
    BY <1>1
  <1>3. AllStays
    BY DEF BlocksMined, AllStays
  <1> QED  BY <1>1, <1>2, <1>3, RestKeeps

\* The row is as it was.
LEMMA SameRow ==
    ASSUME FtInv, RowStays, ftReports' = ftReports, Passes, ftDecimals' \in ImpactsOK'
    PROVE  FtRowInv'
  <1>1. /\ ftLaunch'.pool \in DOMAIN Pools
        /\ \A r \in ftReports' : <<r.members, r.began>> \in FoundOK
    BY DEF FtInv, FtRowInv, RowStays
  <1> QED  BY <1>1, NothingChanges, RowRests DEF FtInv, RowStays

LEMMA T10StartKeeps ==
    ASSUME FtInv, T10Starts
    PROVE  FtInv'
  <1>1. PICK h \in {ftHead, -1} : /\ ftJob' = Anew("pool", h, ftHead)
                                  /\ IF h = -1 THEN Fails ELSE UNCHANGED ftFailures
    <2>1. PICK h \in {ftHead, -1} :
              /\ ftJob' = [NoJob EXCEPT !.at = "pool", !.head = h, !.began = ftHead]
              /\ IF h = -1 THEN Fails ELSE UNCHANGED ftFailures
      BY DEF T10Starts
    <2>2. ftJob' = Anew("pool", h, ftHead)
      BY <2>1, NoJobIs, Zenon
    <2> QED  BY <2>1, <2>2
  <1>2. Counts /\ (h = -1 => ftFailures' > 0)
    <2>1. Counts /\ (h = -1 => ftFailures' # 0)
      BY <1>1, NothingChanges
    <2> QED  BY <2>1 DEF Counts
  <1>3. RowStays /\ ftReports' = ftReports /\ Passes /\ ftDecimals' \in ImpactsOK'
    <2>1. RowStays /\ ftReports' = ftReports /\ ftDecimals' = ftDecimals
      BY DEF T10Starts, RowStays, ftRow, ftChain
    <2>2. Passes
      BY <1>2, <2>1, NothingChanges DEF RowStays
    <2> QED  BY <2>1, <2>2, NothingChanges, PassingGrows
  <1>4. FtRowInv'
    BY <1>3, SameRow
  <1>5. h \in FtHeads \cup {-1} /\ ftHead \in FtHeads /\ ftHead <= ftHead' /\ h \in {ftHead, -1}
    BY <1>1, <1>3, NothingChanges DEF RowStays
  <1>6. ftWorld' = ftWorld
    BY <1>3 DEF RowStays
  <1> QED  BY <1>1, <1>2, <1>4, <1>5, <1>6, JobAnew

LEMMA LostKeeps ==
    ASSUME FtInv, JobLost
    PROVE  FtInv'
  <1>1. RowStays /\ ftReports' = ftReports /\ Counts /\ ftDecimals' \in {ftDecimals, -1}
    <2>1. Fails /\ RowStays /\ ftReports' = ftReports /\ ftDecimals' \in {ftDecimals, -1}
      BY DEF JobLost, RowStays, ftRow, ftChain
    <2> QED  BY <2>1, NothingChanges
  <1>2. ftJob' = Anew("idle", -1, -1)
    BY NoJobIs, Zenon DEF JobLost
  <1>3. Passes
    BY <1>1, NothingChanges DEF RowStays
  <1>4. ftDecimals' \in ImpactsOK'
    BY <1>1, <1>3, NothingChanges, NullIsOK, PassingGrows
  <1>5. FtRowInv'
    BY <1>1, <1>3, <1>4, SameRow
  <1>6. -1 \in FtHeads \cup {-1} /\ ftWorld' = ftWorld
    BY <1>1 DEF RowStays
  <1> QED  BY <1>2, <1>5, <1>6, JobAnew

\* A report is made of the row as it is stored, whose cluster was found whole.
LEMMA ReportsKeeps ==
    ASSUME FtInv, MakeReports
    PROVE  FtInv'
  <1>1. RowStays /\ Counts /\ ftDecimals' = ftDecimals
    <2>1. RowStays /\ ftDecimals' = ftDecimals /\ (Fails \/ UNCHANGED ftFailures)
      BY DEF MakeReports, RowStays, ftRow, ftChain
    <2> QED  BY <2>1, NothingChanges
  <1>2. ftJob' = Anew("idle", -1, -1)
    BY NoJobIs, Zenon DEF MakeReports
  <1>3. Passes /\ ftDecimals' \in ImpactsOK'
    <2>1. Passes
      BY <1>1, NothingChanges DEF RowStays
    <2> QED  BY <1>1, <2>1, NothingChanges, PassingGrows
  <1>4. /\ <<ftMembers, ftComputed>> \in FoundOK
        /\ \A r \in ftReports : <<r.members, r.began>> \in FoundOK
    <2>1. ftComputed # -1
      BY DEF MakeReports, FtInv, FtJobInv
    <2> QED  BY <2>1 DEF FtInv, FtRowInv
  <1>5. /\ ftMembers' = ftMembers
        /\ \A r \in ftReports' : <<r.members, r.began>> \in FoundOK
    <2> DEFINE q == [features |-> ftFeature, members |-> ftMembers, began |-> ftComputed]
    <2>1. q.members = ftMembers /\ q.began = ftComputed
      OBVIOUS
    <2>2. ftReports' = ftReports \/ ftReports' = ftReports \cup {q}
      BY DEF MakeReports
    <2> HIDE DEF q
    <2> QED  BY <1>1, <1>4, <2>1, <2>2 DEF RowStays
  <1>6. FtRowInv'
    BY <1>1, <1>3, <1>5, NothingChanges, RowRests DEF FtInv, RowStays
  <1>7. -1 \in FtHeads \cup {-1} /\ ftWorld' = ftWorld
    BY <1>1 DEF RowStays
  <1> QED  BY <1>2, <1>6, <1>7, JobAnew

LEMMA PickPoolKeeps ==
    ASSUME FtInv, PickPool
    PROVE  FtInv'
  <1> DEFINE Picked ==
                 /\ Counts /\ IsLaunch(ftLaunch') /\ ftLaunch'.pool \in DOMAIN Pools
                 /\ ftLaunch'.tokenAge \in AgesOK
                 /\ ftWorld.v4 /\ ftFailures' = 0 => ftLaunch'.pool \in PoolsOK
  <1>1. /\ ftWorld' = ftWorld /\ ftHead' = ftHead /\ ftFeature' = ftFeature
        /\ ftMembers' = ftMembers /\ ftComputed' = ftComputed /\ ftReports' = ftReports
        /\ ftDecimals' = ftDecimals /\ ftJob.at = "pool" /\ ftHead \in FtHeads
        /\ ftWorld \in FtWorlds /\ ftJob.head \in FtHeads \cup {-1} /\ IsJob(ftJob)
    BY NothingChanges DEF PickPool, ftChain
  <1>2. Onto("buyers", ftJob.features, ftJob.members, ftJob.partial)
    <2>1. Goes("buyers", ftJob)
      BY DEF PickPool
    <2> QED  BY <1>1, <2>1, JobMoves, Zenon
  <1>3. /\ ftJob'.at = "buyers" /\ ftJob'.head = ftJob.head /\ ftJob'.began = ftJob.began
        /\ ftJob'.features = ftJob.features
        /\ ftJob'.members = ftJob.members /\ ftJob'.partial = ftJob.partial /\ IsJob(ftJob)'
    <2>1. /\ ftJob'.at = "buyers" /\ ftJob'.head = ftJob.head /\ ftJob'.began = ftJob.began
          /\ ftJob'.features = ftJob.features
          /\ ftJob'.members = ftJob.members /\ ftJob'.partial = ftJob.partial
      BY <1>2, JobIs DEF Onto
    <2> QED  BY <1>2, <2>1 DEF IsJob, Onto
  <1>4. Picked
    <2>1. ASSUME NEW missed, missed = {} => UNCHANGED ftFailures, missed # {} => Fails,
                 ftLaunch' = [ftLaunch EXCEPT !.pool = chosen(missed)]
          PROVE  Picked
      <3>1. chosen(missed) \in Cand /\ chosen(missed) \in DOMAIN Pools
        BY <1>1, ChosenIs DEF Cand
      <3>2. /\ IsLaunch(ftLaunch') /\ ftLaunch'.pool = chosen(missed)
            /\ ftLaunch'.tokenAge \in AgesOK
        <4> DEFINE c == chosen(missed)
        <4>1. IsLaunch(ftLaunch) /\ ftLaunch.tokenAge \in AgesOK
          BY NothingChanges
        <4>2. ftLaunch' = [ftLaunch EXCEPT !.pool = c]
          BY <2>1
        <4> HIDE DEF c
        <4>3. IsLaunch(ftLaunch') /\ ftLaunch'.pool = c /\ ftLaunch'.tokenAge = ftLaunch.tokenAge
          BY <4>1, <4>2, LaunchIs
        <4> QED  BY <4>1, <4>3 DEF c
      <3>3. Counts /\ (ftFailures' = 0 => missed = {})
        BY <2>1, NothingChanges
      <3>4. chosen({}) \in PoolsOK
        <4>1. [j \in Probed |-> activity(j, {})] = [j \in Probed |-> Pools[j].swaps]
          BY DEF activity
        <4>2. /\ chosen({}) \in Cand
              /\ \A i \in Cand : ~Ahead(i, chosen({}), [j \in Probed |-> activity(j, {})])
          BY <1>1, ChosenIs
        <4>3. chosen({}) \in DOMAIN Pools
          BY <4>2 DEF Cand
        <4> QED  BY <4>1, <4>2, <4>3 DEF PoolsOK
      <3> QED  BY <3>1, <3>2, <3>3, <3>4
    <2>2. CASE ftWorld.v4 /\ ReadFails(scanTo) /\ UNCHANGED ftLaunch
      <3>1. /\ IsLaunch(ftLaunch') /\ ftLaunch'.pool \in DOMAIN Pools
            /\ ftLaunch'.tokenAge \in AgesOK /\ Counts
        BY <2>2, NothingChanges
      <3>2. ftFailures' # 0
        <4>1. CASE Fails
          BY <4>1, NothingChanges
        <4>2. CASE scanTo > ftHead /\ UNCHANGED ftFailures
          <5>1. ftJob.head = -1 => ftFailures # 0
            BY <1>1, NothingChanges DEF FtInv, FtJobInv
          <5>2. ftJob.head = -1
            <6> SUFFICES ASSUME ftJob.head # -1 PROVE FALSE
              OBVIOUS
            <6> DEFINE h == ftJob.head
                       b == LaunchBlock + ScanBlocks
            <6>1. h \in FtHeads /\ h <= ftHead
              BY <1>1 DEF FtInv, FtJobInv
            <6>2. h \in Nat /\ b \in Nat /\ ftHead \in Nat
              BY <1>1, <6>1, FtConstants
            <6>3. scanTo = IF b > h THEN h ELSE b
              BY DEF scanTo, Clamp
            <6> HIDE DEF h, b
            <6> QED  BY <4>2, <6>1, <6>2, <6>3
          <5> QED  BY <4>2, <5>1, <5>2
        <4> QED  BY <2>2, <4>1, <4>2 DEF ReadFails
      <3> QED  BY <3>1, <3>2
    <2>3. CASE ~ftWorld.v4 /\ UNCHANGED <<ftLaunch, ftFailures>>
      BY <2>3, NothingChanges
    <2> QED  BY <2>1, <2>2, <2>3 DEF PickPool
  <1>5. Passes /\ ImpactsOK \subseteq ImpactsOK' /\ FoundOK \subseteq FoundOK'
    <2>1. Passes
      BY <1>1, <1>4, NothingChanges
    <2> QED  BY <2>1, NothingChanges, PassingGrows
  <1>6. FtRowInv'
    <2>1. /\ ftDecimals' \in ImpactsOK'
          /\ \A r \in ftReports' : <<r.members, r.began>> \in FoundOK
      BY <1>1, <1>5 DEF FtInv, FtRowInv
    <2> QED  BY <1>1, <1>4, <1>5, <2>1, RowRests DEF FtInv
  <1>7. /\ CreatorsOK' = CreatorsOK /\ SharesOK' = SharesOK /\ Everyone' = Everyone
        /\ PoolsOK' = PoolsOK
    BY <1>1, <1>3, WorldSame, PoolsSame
  <1>8. /\ ftJob.members \subseteq Everyone /\ ftJob.features.creatorAge \in CreatorsOK
        /\ Sells(ftJob.features) /\ IsVector(ftJob.features)
        /\ ftJob.features.impact \in ImpactsOK
        /\ <<ftJob.features.clusterSupply, ftJob.members>> \in SharesOK
        /\ ftJob.features.clusterSupply = -1
    BY <1>1, NothingChanges DEF Measured
  <1>9. IsVector(ftJob.features)' /\ Sells(ftJob.features)'
    BY <1>3, <1>8 DEF IsVector, Sells
  <1>10. ftJob'.at \in Stages /\ ftJob'.at \notin Late \cup {"direct", "reports"}
    BY <1>3 DEF Stages, Late, Early
  <1>11. ftWorld'.v4 /\ ftFailures' = 0 => ftLaunch'.pool \in PoolsOK'
    BY <1>1, <1>4, <1>7
  <1>12. /\ ftJob'.members = {} /\ ftJob'.began \in FtHeads /\ ftJob'.began <= ftHead'
         /\ ftJob'.head \in {ftJob'.began, -1} /\ (ftJob'.head = -1 => ftFailures' > 0)
    <2>1. /\ ftJob.members = {} /\ ftJob.began \in FtHeads /\ ftJob.began <= ftHead
          /\ ftJob.head \in {ftJob.began, -1} /\ (ftJob.head = -1 => ftFailures > 0)
      BY <1>1 DEF FtInv, FtJobInv, Early
    <2>2. ftFailures > 0 => ftFailures' > 0
      BY <1>4, NothingChanges DEF Counts
    <2> QED  BY <1>1, <1>3, <2>1, <2>2
  <1>13. FtJobInv'
    BY <1>1, <1>3, <1>5, <1>7, <1>8, <1>9, <1>10, <1>11, <1>12 DEF FtJobInv
  <1> QED  BY <1>6, <1>13 DEF FtInv

\* What a step that only reads leaves alone.
LEMMA ReadsRest ==
    ASSUME FtInv, UNCHANGED <<ftChain, ftRow, ftReports, ftRuns>>, ftDecimals' = ftDecimals,
           Counts
    PROVE  RowKept /\ ImpactsOK \subseteq ImpactsOK'
  <1>1. RowStays /\ ftReports' = ftReports
    BY DEF RowStays, ftRow, ftChain
  <1>2. Passes
    BY <1>1, NothingChanges DEF RowStays
  <1>3. ImpactsOK \subseteq ImpactsOK'
    BY <1>2, NothingChanges, PassingGrows
  <1> QED  BY <1>1, <1>3, NothingChanges DEF RowKept

LEMMA BuyersKeeps ==
    ASSUME FtInv, Buyers
    PROVE  FtInv'
  <1>1. RowKept /\ ftJob.at = "buyers" /\ ImpactsOK \subseteq ImpactsOK'
    <2>1. Counts
      BY NothingChanges DEF Buyers
    <2> QED  BY <2>1, ReadsRest DEF Buyers
  <1>2. /\ "launch_block" \in Stages /\ "launch_block" \notin Late \cup Measured
        /\ "buyers" \notin Measured /\ "buyers" \in Early
    BY DEF Stages, Late, Measured, Early
  <1>3. CASE Goes("launch_block", ftJob)
    BY <1>1, <1>2, <1>3, NothingChanges, SkippingKeeps
  <1>4. ASSUME NEW x, Reads("launch_block", [ftJob.features EXCEPT !.buyers = x])
        PROVE  FtInv'
    <2> DEFINE g == ftJob.features
               f == [g EXCEPT !.buyers = x]
    <2>1. /\ f.creatorAge = ftJob.features.creatorAge /\ f.impact = ftJob.features.impact
          /\ f.clusterSupply = ftJob.features.clusterSupply /\ f.sellable = ftJob.features.sellable
          /\ IsVector(f)
      <3>1. IsVector(g)
        BY NothingChanges
      <3> HIDE DEF g
      <3>2. /\ IsVector(f) /\ f.creatorAge = g.creatorAge /\ f.clusterSupply = g.clusterSupply
            /\ f.sellable = g.sellable /\ f.impact = g.impact
        <4>1. f = Vector(x, g.creatorAge, g.clusterSize, g.clusterSupply,
                         g.top10, g.sidePools, g.sellable, g.impact)
          BY <3>1, VectorReads, Zenon
        <4> HIDE DEF f
        <4> QED  BY <4>1, VectorIs
      <3> QED  BY <3>2 DEF g
    <2>2. Reads("launch_block", f)
      BY <1>4
    <2> HIDE DEF f
    <2>3. Onto("launch_block", f, ftJob.members, ftJob.partial)
      BY <2>2, NothingChanges, JobMoves, Zenon
    <2>4. /\ f.creatorAge \in CreatorsOK /\ Sells(f) /\ f.impact \in ImpactsOK'
          /\ <<f.clusterSupply, ftJob.members>> \in SharesOK /\ f.clusterSupply = -1
      BY <1>1, <1>2, <2>1, NothingChanges DEF Sells
    <2> QED  BY <1>1, <1>2, <1>4, <2>1, <2>3, <2>4, NothingChanges, ReadingKeeps
  <1> QED  BY <1>3, <1>4 DEF Buyers

LEMMA ClusterKeeps ==
    ASSUME FtInv, Cluster
    PROVE  FtInv'
  <1>1. ASSUME NEW at, NEW rule, NEW to, NEW found, NEW next,
               ClusterRule(at, rule, to, found, next),
               \/ at = "launch_block" /\ next = "direct" /\ found = LaunchBuyers
               \/ at = "direct" /\ next = "token_age" /\ found = Recipients(ftHead)
        PROVE  FtInv'
    <2>1. RowKept /\ ftJob.at = at /\ ImpactsOK \subseteq ImpactsOK' /\ Counts
      <3>1. Counts /\ ftJob.at = at
        BY <1>1, NothingChanges DEF ClusterRule
      <3> QED  BY <1>1, <3>1, ReadsRest DEF ClusterRule
    <2>2. /\ at \notin Measured /\ at \notin {"idle", "pool"} /\ next \notin {"idle", "reports"}
          /\ next \in Stages /\ next \notin Measured \cup Early
      BY <1>1 DEF Stages, Late, Measured, Early
    <2>3. /\ IsLaunch(ftLaunch') /\ ftLaunch'.tokenAge \in AgesOK /\ ftLaunch'.pool = ftLaunch.pool
          /\ ftJob.features.clusterSupply = -1 /\ IsVector(ftJob.features)
          /\ ftJob.features.creatorAge \in CreatorsOK /\ Sells(ftJob.features)
          /\ ftJob.features.impact \in ImpactsOK'
          /\ ftJob.members \subseteq Everyone /\ IsJob(ftJob)
      BY <2>1, <2>2, NothingChanges DEF RowKept, RowStays
    <2>4. ASSUME NEW m \in SUBSET Everyone, NEW p, Onto(next, ftJob.features, m, p),
                 next = "direct" /\ p = {} => m = Creators \cup LaunchBuyers,
                 next \in Late /\ p = {} => <<m, ftJob.began>> \in FoundOK
          PROVE  FtInv'
      <3>1. <<ftJob.features.clusterSupply, m>> \in SharesOK
        BY <2>3, NullIsOK
      <3> QED  BY <2>1, <2>2, <2>3, <2>4, <3>1, JobSteps DEF RowKept, RowStays
    <2>5. Creators \subseteq Everyone /\ found \subseteq Everyone
      <3>1. Recipients(ftHead) \subseteq AllRecipients
        BY DEF Recipients, AllRecipients
      <3> QED  BY <1>1, <3>1 DEF Everyone
    <2>6. CASE Goes(next, [ftJob EXCEPT !.members = @ \cup Creators \cup found])
      <3> DEFINE m == ftJob.members \cup Creators \cup found
      <3>1. Onto(next, ftJob.features, m, ftJob.partial)
        <4>1. Goes(next, [ftJob EXCEPT !.members = m])
          BY <2>6
        <4> HIDE DEF m
        <4> QED  BY <2>3, <4>1, JobMoves, Zenon
      <3>2. m \in SUBSET Everyone
        BY <2>3, <2>5
      <3>3. next = "direct" /\ ftJob.partial = {} => m = Creators \cup LaunchBuyers
        <4>1. ASSUME next = "direct" PROVE m = Creators \cup LaunchBuyers
          <5>1. at = "launch_block" /\ found = LaunchBuyers
            BY <1>1, <4>1
          <5>2. ftJob.members = {}
            BY <2>1, <5>1 DEF FtInv, FtJobInv, Early
          <5> QED  BY <5>1, <5>2
        <4> QED  BY <4>1
      <3>4. next \in Late /\ ftJob.partial = {} => <<m, ftJob.began>> \in FoundOK
        <4>1. ASSUME next \in Late, ftJob.partial = {} PROVE <<m, ftJob.began>> \in FoundOK
          <5>1. at = "direct" /\ found = Recipients(ftHead)
            BY <1>1, <4>1 DEF Late
          <5>2. ftJob.members = Creators \cup LaunchBuyers
            BY <2>1, <4>1, <5>1 DEF FtInv, FtJobInv
          <5>3. m = Whole(ftHead)
            BY <5>1, <5>2 DEF Whole
          <5>4. ftJob.began \in FtHeads /\ ftJob.began <= ftHead
            BY <2>1, <5>1 DEF FtInv, FtJobInv
          <5>5. ftHead \in ftJob.began..ftHead
            <6>1. ftJob.began \in Nat /\ ftHead \in Nat
              BY <5>4, NothingChanges, FtConstants
            <6> QED  BY <5>4, <6>1
          <5> HIDE DEF m
          <5> QED  BY <3>2, <5>3, <5>4, <5>5 DEF FoundOK
        <4> QED  BY <4>1
      <3> HIDE DEF m
      <3> QED  BY <2>4, <3>1, <3>2, <3>3, <3>4
    <2>7. CASE Goes(next, [ftJob EXCEPT !.members = @ \cup Creators,
                                        !.partial = @ \cup {rule}])
      <3> DEFINE m == ftJob.members \cup Creators
                 p == ftJob.partial \cup {rule}
      <3>1. Onto(next, ftJob.features, m, p)
        <4>1. Goes(next, [ftJob EXCEPT !.members = m, !.partial = p])
          BY <2>7
        <4> HIDE DEF m, p
        <4> QED  BY <2>3, <4>1, JobMoves, Zenon
      <3>2. p # {} /\ m \in SUBSET Everyone
        BY <2>3, <2>5
      <3> HIDE DEF m, p
      <3> QED  BY <2>4, <3>1, <3>2
    <2> QED  BY <1>1, <2>6, <2>7 DEF ClusterRule
  <1>2. CASE ClusterRule("launch_block", "LAUNCH_BLOCK_BUY", LaunchBlock, LaunchBuyers,
                         "direct")
    BY <1>1, <1>2
  <1>3. CASE ClusterRule("direct", "DIRECT_TRANSFER", WindowEnd, Recipients(ftHead),
                         "token_age")
    BY <1>1, <1>3
  <1> QED  BY <1>2, <1>3 DEF Cluster

LEMMA TokenAgeKeeps ==
    ASSUME FtInv, TokenAge
    PROVE  FtInv'
  <1> DEFINE lo == IF LaunchBlock > FreshBlocks THEN LaunchBlock - FreshBlocks ELSE 0
             c == codeAt(lo)
  <1>1. /\ ftJob.at = "token_age" /\ ftWorld' = ftWorld /\ ftHead' = ftHead
        /\ ftFeature' = ftFeature /\ ftMembers' = ftMembers /\ ftComputed' = ftComputed
        /\ ftReports' = ftReports /\ ftDecimals' = ftDecimals /\ Goes("creator", ftJob)
    BY DEF TokenAge, ftChain
  <1>2. /\ LaunchBlock \in Nat /\ FreshBlocks \in Nat /\ ftWorld \in FtWorlds
        /\ ftWorld.deploy \in 0..LaunchBlock
    BY FtConstants, WorldIs, NothingChanges
  <1>3. lo \in Nat /\ LaunchBlock - lo - 1 <= FreshBlocks
    BY <1>2
  <1>4. ~(ftWorld.deploy <= lo) => LaunchBlock - c \in AgesOK
    <2>1. ASSUME ~(ftWorld.deploy <= lo) PROVE LaunchBlock - c \in AgesOK
      <3> DEFINE l == LeftOf(FreshBlocks, AgeIters - 2)
      <3> HIDE DEF lo
      <3>1. c \in 0..LaunchBlock /\ c - ftWorld.deploy \in 0..l
        BY <1>2, <1>3, <2>1, CodeAtIs
      <3>2. l \in Nat
        BY <1>2, FtConstants, LeftOfIs
      <3> DEFINE a == LaunchBlock - c
      <3>3. a \in Int /\ a >= -1 /\ LaunchBlock - ftWorld.deploy - a \in 0..l
        <4> HIDE DEF c, l
        <4> QED  BY <1>2, <3>1, <3>2
      <3> HIDE DEF a
      <3> QED  BY <3>3 DEF AgesOK, a
    <2> QED  BY <2>1
  <1> DEFINE Aged == IsLaunch(ftLaunch') /\ ftLaunch'.pool = ftLaunch.pool
                     /\ ftLaunch'.tokenAge \in AgesOK
  <1>5. Aged /\ Counts
    <2>1. CASE Fails /\ UNCHANGED ftLaunch
      BY <2>1, NothingChanges
    <2>2. CASE /\ ftLaunch' = IF ftLaunch.tokenAge # -1 \/ ftWorld.deploy <= lo THEN ftLaunch
                              ELSE [ftLaunch EXCEPT !.tokenAge = LaunchBlock - c]
               /\ UNCHANGED ftFailures
      <3> DEFINE a == LaunchBlock - c
      <3> HIDE DEF lo, c
      <3>1. CASE ftLaunch' = ftLaunch
        BY <2>2, <3>1, NothingChanges
      <3>2. CASE ~(ftWorld.deploy <= lo) /\ ftLaunch' = [ftLaunch EXCEPT !.tokenAge = a]
        <4>1. a \in AgesOK
          BY <1>4, <3>2
        <4> HIDE DEF a
        <4>2. IsLaunch(ftLaunch') /\ ftLaunch'.pool = ftLaunch.pool /\ ftLaunch'.tokenAge = a
          <5>1. IsLaunch(ftLaunch)
            BY NothingChanges
          <5> QED  BY <3>2, <5>1, LaunchIs
        <4> QED  BY <2>2, <4>1, <4>2, NothingChanges
      <3> QED  BY <2>2, <3>1, <3>2
    <2> QED  BY <2>1, <2>2 DEF TokenAge
  <1>6. Onto("creator", ftJob.features, ftJob.members, ftJob.partial)
    BY <1>1, NothingChanges, JobMoves, Zenon
  <1>7. "creator" \in Stages /\ "creator" \notin Measured \cup Early
        /\ "token_age" \notin Measured /\ "token_age" \in Late
    BY DEF Stages, Late, Measured, Early
  <1>8. ftJob.partial = {} => <<ftJob.members, ftJob.began>> \in FoundOK
    BY <1>1, <1>7 DEF FtInv, FtJobInv
  <1>9. /\ ftJob.features.clusterSupply = -1 /\ IsVector(ftJob.features)
        /\ ftJob.features.creatorAge \in CreatorsOK /\ Sells(ftJob.features)
        /\ ftJob.members \subseteq Everyone
        /\ <<ftJob.features.clusterSupply, ftJob.members>> \in SharesOK
    BY <1>1, <1>7, NothingChanges
  <1>10. ftJob.features.impact \in ImpactsOK' /\ ftDecimals' \in ImpactsOK'
    <2>1. Passes
      BY <1>1, <1>5, NothingChanges
    <2> QED  BY <1>1, <2>1, NothingChanges, PassingGrows
  <1> HIDE DEF lo, c
  <1> QED  BY <1>1, <1>5, <1>6, <1>7, <1>8, <1>9, <1>10, JobSteps

LEMMA CreatorKeeps ==
    ASSUME FtInv, Creator
    PROVE  FtInv'
  <1>1. RowKept /\ ftJob.at = "creator" /\ ImpactsOK \subseteq ImpactsOK'
    <2>1. Counts
      BY NothingChanges DEF Creator
    <2> QED  BY <2>1, ReadsRest DEF Creator
  <1>2. "holders" \in Stages /\ "creator" \in Late /\ "holders" \notin Measured
        /\ "creator" \notin Measured /\ "holders" \notin Early
    BY DEF Stages, Late, Measured, Early
  <1>3. CASE Goes("holders", ftJob)
    BY <1>1, <1>2, <1>3, NothingChanges, SkippingKeeps
  <1> DEFINE age == IF ftFeature.creatorAge # -1 THEN ftFeature.creatorAge
                    ELSE IF ftWorld.firstTx = -1 THEN -1 ELSE LaunchBlock - nonceAt
  <1>4. age \in CreatorsOK
    <2>1. ftFeature.creatorAge \in CreatorsOK /\ ftWorld \in FtWorlds
      BY DEF FtInv, FtRowInv
    <2>2. ASSUME ftWorld.firstTx # -1 PROVE LaunchBlock - nonceAt \in CreatorsOK
      <3> DEFINE l == LeftOf(LaunchBlock, NonceIters)
                 c == nonceAt
                 a == LaunchBlock - c
      <3>1. c \in 0..LaunchBlock /\ c - ftWorld.firstTx \in 0..l
        BY <2>1, <2>2, NonceAtIs
      <3>2. LaunchBlock \in Nat /\ l \in Nat /\ ftWorld.firstTx \in -1..LaunchBlock
        BY <2>1, FtConstants, LeftOfIs, WorldIs
      <3>3. a \in Int /\ LaunchBlock - ftWorld.firstTx - a \in 0..l
        <4> HIDE DEF c, l
        <4> QED  BY <3>1, <3>2
      <3> HIDE DEF a
      <3>4. a \in CreatorsOK
        BY <2>2, <3>3 DEF CreatorsOK
      <3> QED  BY <3>4 DEF a
    <2> QED  BY <2>1, <2>2, NullIsOK
  <1>5. ASSUME NEW x \in CreatorsOK,
               Reads("holders", [ftJob.features EXCEPT !.creatorAge = x])
        PROVE  FtInv'
    <2> DEFINE g == ftJob.features
               f == [g EXCEPT !.creatorAge = x]
    <2>1. /\ f.creatorAge = x /\ f.impact = ftJob.features.impact
          /\ f.clusterSupply = ftJob.features.clusterSupply /\ f.sellable = ftJob.features.sellable
          /\ IsVector(f)
      <3>1. IsVector(g)
        BY NothingChanges
      <3> HIDE DEF g
      <3>2. /\ IsVector(f) /\ f.creatorAge = x /\ f.clusterSupply = g.clusterSupply
            /\ f.sellable = g.sellable /\ f.impact = g.impact
        <4>1. f = Vector(g.buyers, x, g.clusterSize, g.clusterSupply,
                         g.top10, g.sidePools, g.sellable, g.impact)
          BY <3>1, VectorReads, Zenon
        <4> HIDE DEF f
        <4> QED  BY <4>1, VectorIs
      <3> QED  BY <3>2 DEF g
    <2>2. Reads("holders", f)
      BY <1>5
    <2> HIDE DEF f
    <2>3. Onto("holders", f, ftJob.members, ftJob.partial)
      BY <2>2, NothingChanges, JobMoves, Zenon
    <2>4. /\ f.creatorAge \in CreatorsOK /\ Sells(f) /\ f.impact \in ImpactsOK'
          /\ <<f.clusterSupply, ftJob.members>> \in SharesOK /\ f.clusterSupply = -1
      BY <1>1, <1>2, <2>1, NothingChanges DEF Sells
    <2> QED  BY <1>1, <1>2, <1>5, <2>1, <2>3, <2>4, NothingChanges, ReadingKeeps
  <1>6. CASE Reads("holders", [ftJob.features EXCEPT !.creatorAge = age])
    <2> HIDE DEF age
    <2> QED  BY <1>4, <1>5, <1>6
  <1> QED  BY <1>3, <1>6 DEF Creator

LEMMA WindowEnds ==
    ASSUME ftHead \in FtHeads, ftJob.head \in FtHeads \cup {-1}
    PROVE  Reached(toBlock) \in LaunchBlock..WindowEnd
  <1> DEFINE h == ftJob.head
             w == LaunchBlock + T10Blocks
  <1>1. LaunchBlock \in Nat /\ w \in Nat /\ w >= LaunchBlock /\ WindowEnd = w
    BY FtConstants DEF WindowEnd
  <1>2. h = -1 \/ (h \in Nat /\ h >= LaunchBlock)
    BY FtConstants
  <1>3. ftHead \in Nat /\ ftHead >= LaunchBlock
    BY FtConstants
  <1>4. toBlock = IF h # -1 /\ w > h THEN h ELSE w
    BY DEF toBlock, Clamp, WindowEnd
  <1> HIDE DEF h, w
  <1>5. toBlock \in LaunchBlock..w
    BY <1>1, <1>2, <1>4
  <1> QED  BY <1>1, <1>3, <1>5 DEF Reached

LEMMA HoldersKeeps ==
    ASSUME FtInv, Holders
    PROVE  FtInv'
  <1>1. RowKept /\ ftJob.at = "holders" /\ ImpactsOK \subseteq ImpactsOK'
    <2>1. Counts
      BY NothingChanges DEF Holders
    <2> QED  BY <2>1, ReadsRest DEF Holders
  <1>2. /\ "sides" \in Stages /\ "holders" \in Late /\ "sides" \in Measured
        /\ "sides" \notin Early
    BY DEF Stages, Late, Measured, Early
  <1>3. CASE Goes("sides", ftJob)
    BY <1>1, <1>2, <1>3, NothingChanges, SkippingKeeps
  <1> DEFINE to == Reached(toBlock)
             held == Share({m.address : m \in ftJob.members} \cap Addresses, to)
             top == Share(Largest(Addresses \ {"creator", "pool"}, to), to)
  <1>4. to \in LaunchBlock..WindowEnd
    BY WindowEnds, NothingChanges
  <1>5. <<held, ftJob.members>> \in SharesOK
    <2>1. ftJob.members \in SUBSET Everyone
      BY NothingChanges
    <2>2. held = Held(ftJob.members, to)
      BY DEF Held
    <2> HIDE DEF held, to
    <2> QED  BY <1>4, <2>1, <2>2 DEF SharesOK
  <1>6. ASSUME NEW x, NEW y, <<x, ftJob.members>> \in SharesOK,
               Reads("sides", [ftJob.features EXCEPT !.clusterSupply = x, !.top10 = y])
        PROVE  FtInv'
    <2> DEFINE g == ftJob.features
               f == [g EXCEPT !.clusterSupply = x, !.top10 = y]
    <2>1. /\ IsVector(f) /\ f.creatorAge = g.creatorAge /\ f.clusterSupply = x
          /\ f.sellable = g.sellable /\ f.impact = g.impact
      <3>1. IsVector(g)
        BY NothingChanges
      <3> HIDE DEF g
      <3>2. f = Vector(g.buyers, g.creatorAge, g.clusterSize, x,
                       y, g.sidePools, g.sellable, g.impact)
        BY <3>1, VectorReads, Zenon
      <3> HIDE DEF f
      <3> QED  BY <3>2, VectorIs
    <2>2. Reads("sides", f)
      BY <1>6
    <2> HIDE DEF f
    <2>3. Onto("sides", f, ftJob.members, ftJob.partial)
      BY <2>2, NothingChanges, JobMoves, Zenon
    <2>4. /\ f.creatorAge \in CreatorsOK /\ Sells(f) /\ f.impact \in ImpactsOK'
          /\ <<f.clusterSupply, ftJob.members>> \in SharesOK
      BY <1>1, <1>6, <2>1, NothingChanges DEF Sells
    <2> QED  BY <1>1, <1>2, <1>6, <2>1, <2>3, <2>4, NothingChanges, ReadingKeeps
  <1>7. CASE Reads("sides", [ftJob.features EXCEPT !.clusterSupply = held, !.top10 = top])
    <2> HIDE DEF held, top
    <2> QED  BY <1>5, <1>6, <1>7, Zenon
  <1> QED  BY <1>3, <1>7 DEF Holders

LEMMA SidesKeeps ==
    ASSUME FtInv, Sides
    PROVE  FtInv'
  <1>1. RowKept /\ ftJob.at = "sides" /\ ImpactsOK \subseteq ImpactsOK'
    <2>1. Counts
      BY NothingChanges DEF Sides
    <2> QED  BY <2>1, ReadsRest DEF Sides
  <1>2. /\ "scanners" \in Stages /\ "sides" \in Late /\ "scanners" \in Measured
        /\ "scanners" \notin Early
    BY DEF Stages, Late, Measured, Early
  <1>3. CASE Goes("scanners", ftJob)
    BY <1>1, <1>2, <1>3, NothingChanges, SkippingKeeps
  <1>4. ASSUME NEW x, Reads("scanners", [ftJob.features EXCEPT !.sidePools = x])
        PROVE  FtInv'
    <2> DEFINE g == ftJob.features
               f == [g EXCEPT !.sidePools = x]
    <2>1. /\ IsVector(f) /\ f.creatorAge = g.creatorAge /\ f.clusterSupply = g.clusterSupply
          /\ f.sellable = g.sellable /\ f.impact = g.impact
      <3>1. IsVector(g)
        BY NothingChanges
      <3> HIDE DEF g
      <3>2. f = Vector(g.buyers, g.creatorAge, g.clusterSize, g.clusterSupply,
                       g.top10, x, g.sellable, g.impact)
        BY <3>1, VectorReads, Zenon
      <3> HIDE DEF f
      <3> QED  BY <3>2, VectorIs
    <2>2. Reads("scanners", f)
      BY <1>4
    <2> HIDE DEF f
    <2>3. Onto("scanners", f, ftJob.members, ftJob.partial)
      BY <2>2, NothingChanges, JobMoves, Zenon
    <2>4. /\ f.creatorAge \in CreatorsOK /\ Sells(f) /\ f.impact \in ImpactsOK'
          /\ <<f.clusterSupply, ftJob.members>> \in SharesOK
      BY <1>1, <2>1, NothingChanges DEF Sells
    <2> QED  BY <1>1, <1>2, <1>4, <2>1, <2>3, <2>4, NothingChanges, ReadingKeeps
  <1> QED  BY <1>3, <1>4 DEF Sides

\* An impact is only known of a token whose reference quote was answered.
LEMMA ScannersKeeps ==
    ASSUME FtInv, Scanners
    PROVE  FtInv'
  <1>1. /\ RowStays /\ ftReports' = ftReports /\ ftJob.at = "scanners"
        /\ readQuoteDecimals \/ UNCHANGED <<ftDecimals, ftFailures>>
    <2>1. RowStays /\ ftReports' = ftReports /\ ftJob.at = "scanners"
      <3>1. ftJob.at = "scanners" /\ UNCHANGED <<ftChain, ftRow, ftReports, ftRuns>>
        BY Zenon DEF Scanners
      <3> QED  BY <3>1 DEF RowStays, ftRow, ftChain
    <2>2. readQuoteDecimals \/ UNCHANGED <<ftDecimals, ftFailures>>
      BY Zenon DEF Scanners
    <2> QED  BY <2>1, <2>2
  <1>2. RowKept /\ ImpactsOK \subseteq ImpactsOK'
    <2>1. Counts /\ (ftDecimals' \in {ftDecimals, ftWorld.decimals}
                     \/ (ftDecimals' = DefaultDecimals /\ ftFailures' # 0))
      BY <1>1, NothingChanges DEF readQuoteDecimals
    <2>2. Passes
      BY <1>1, <2>1, NothingChanges DEF RowStays
    <2>3. ImpactsOK \subseteq ImpactsOK'
      BY <2>2, NothingChanges, PassingGrows
    <2>4. ftDecimals' \in ImpactsOK'
      <3>1. CASE ftDecimals' = ftDecimals
        BY <2>3, <3>1, NothingChanges
      <3>2. CASE ftDecimals' = ftWorld.decimals
        BY <1>1, <3>2 DEF RowStays, ImpactsOK
      <3>3. CASE ftDecimals' = DefaultDecimals /\ ftFailures' # 0
        <4>1. ftFailures' > 0
          BY <2>1, <3>3 DEF Counts
        <4> QED  BY <3>3, <4>1 DEF ImpactsOK
      <3> QED  BY <2>1, <3>1, <3>2, <3>3
    <2> QED  BY <1>1, <2>1, <2>3, <2>4 DEF RowKept
  <1>3. /\ "save" \in Stages /\ "scanners" \in Late /\ "save" \in Measured
        /\ "save" \notin Early
    BY DEF Stages, Late, Measured, Early
  <1>4. CASE Goes("save", ftJob)
    BY <1>1, <1>2, <1>3, <1>4, NothingChanges, SkippingKeeps
  <1>5. ASSUME NEW x, NEW y \in ImpactsOK', y # -1 => x = 1,
               Reads("save", [ftJob.features EXCEPT !.sellable = x, !.impact = y])
        PROVE  FtInv'
    <2> DEFINE g == ftJob.features
               f == [g EXCEPT !.sellable = x, !.impact = y]
    <2>1. /\ IsVector(f) /\ f.creatorAge = g.creatorAge /\ f.clusterSupply = g.clusterSupply
          /\ f.sellable = x /\ f.impact = y
      <3>1. IsVector(g)
        BY NothingChanges
      <3> HIDE DEF g
      <3>2. f = Vector(g.buyers, g.creatorAge, g.clusterSize, g.clusterSupply,
                       g.top10, g.sidePools, x, y)
        <4>1. \A u, v : [g EXCEPT !.sellable = u, !.impact = v]
                  = Vector(g.buyers, g.creatorAge, g.clusterSize, g.clusterSupply,
                           g.top10, g.sidePools, u, v)
          BY <3>1, VectorReads, Zenon
        <4> QED  BY <4>1, Zenon
      <3> HIDE DEF f
      <3> QED  BY <3>2, VectorIs
    <2>2. Reads("save", f)
      BY <1>5
    <2> HIDE DEF f
    <2>3. Onto("save", f, ftJob.members, ftJob.partial)
      BY <2>2, NothingChanges, JobMoves, Zenon
    <2>4. /\ f.creatorAge \in CreatorsOK /\ Sells(f) /\ f.impact \in ImpactsOK'
          /\ <<f.clusterSupply, ftJob.members>> \in SharesOK
      BY <1>5, <2>1, NothingChanges DEF Sells
    <2> QED  BY <1>1, <1>2, <1>3, <2>1, <2>3, <2>4, NothingChanges, ReadingKeeps
  <1>6. ASSUME NEW quote \in ownQuotes(ftDecimals'), NEW scanner \in {-1, 0, 1},
               Reads("save", [ftJob.features EXCEPT
                    !.sellable = IF quote.ok # -1 THEN quote.ok ELSE scanner,
                    !.impact = quote.impact])
        PROVE  FtInv'
    <2> DEFINE x == IF quote.ok # -1 THEN quote.ok ELSE scanner
               y == quote.impact
    <2>1. (y # -1 => x = 1) /\ y \in {-1, ftDecimals'}
      BY <1>6 DEF ownQuotes
    <2>2. y \in ImpactsOK'
      BY <1>2, <2>1, NullIsOK DEF RowKept
    <2> HIDE DEF x
    <2>3. Reads("save", [ftJob.features EXCEPT !.sellable = x, !.impact = y])
      BY <1>6 DEF x
    <2> HIDE DEF y
    <2> QED  BY <1>5, <2>1, <2>2, <2>3, Zenon
  <1> QED  BY <1>4, <1>6 DEF Scanners

LEMMA EveryoneFinite ==
    ASSUME ftWorld \in FtWorlds
    PROVE  IsFiniteSet(Everyone)
  <1>1. IsFiniteSet(DOMAIN ftWorld.moves)
    <2>1. ftWorld.moves \in Seq(MoveRow)
      BY WorldIs
    <2>2. DOMAIN ftWorld.moves = 1..Len(ftWorld.moves) /\ Len(ftWorld.moves) \in Nat
      BY <2>1
    <2>3. 1 \in Int /\ Len(ftWorld.moves) \in Int
      BY <2>2
    <2> QED  BY <2>2, <2>3, FS_Interval
  <1>2. ASSUME NEW S \in SUBSET DOMAIN ftWorld.moves, NEW rule
        PROVE  IsFiniteSet({Member(i, rule) : i \in S})
    <2> DEFINE f == [i \in S |-> Member(i, rule)]
    <2>1. IsFiniteSet(S)
      BY <1>1, FS_Subset
    <2>2. \A i \in S : f[i] = Member(i, rule)
      OBVIOUS
    <2> HIDE DEF f
    <2>3. IsFiniteSet({f[i] : i \in S})
      BY <2>1, FiniteImage
    <2>4. {f[i] : i \in S} = {Member(i, rule) : i \in S}
      BY <2>2
    <2> QED  BY <2>3, <2>4
  <1>3. IsFiniteSet(LaunchBuyers)
    <2> DEFINE S == {j \in Moves(LaunchBlock, LaunchBlock) :
                         /\ ftWorld.moves[j].from = "pool"
                         /\ ftWorld.moves[j].to \notin {"pool", "creator"}}
    <2>1. S \in SUBSET DOMAIN ftWorld.moves
      BY DEF Moves
    <2>2. LaunchBuyers = {Member(i, "LAUNCH_BLOCK_BUY") : i \in S}
      BY DEF LaunchBuyers
    <2> HIDE DEF S
    <2> QED  BY <1>2, <2>1, <2>2
  <1>4. IsFiniteSet(AllRecipients)
    <2> DEFINE S == {j \in Moves(LaunchBlock, WindowEnd) :
                         /\ ftWorld.moves[j].from = "creator"
                         /\ ftWorld.moves[j].to \notin {"pool", "creator"}}
    <2>1. S \in SUBSET DOMAIN ftWorld.moves
      BY DEF Moves
    <2>2. AllRecipients = {Member(i, "DIRECT_TRANSFER") : i \in S}
      BY DEF AllRecipients
    <2> HIDE DEF S
    <2> QED  BY <1>2, <2>1, <2>2
  <1>5. IsFiniteSet(Creators)
    BY FS_Singleton DEF Creators
  <1>6. IsFiniteSet(Creators \cup LaunchBuyers)
    BY <1>3, <1>5, FS_Union
  <1>7. IsFiniteSet((Creators \cup LaunchBuyers) \cup AllRecipients)
    BY <1>4, <1>6, FS_Union
  <1> QED  BY <1>7 DEF Everyone

\* A wallet found by two rules is counted once.
LEMMA WalletsCounted ==
    ASSUME ftWorld \in FtWorlds, NEW ms \in SUBSET Everyone
    PROVE  Cardinality({m.address : m \in ms}) \in 0..Cardinality(ms)
  <1> DEFINE f == [m \in ms |-> m.address]
             A == {m.address : m \in ms}
  <1>1. IsFiniteSet(ms)
    BY EveryoneFinite, FS_Subset
  <1>2. f \in Surjection(ms, A)
    BY DEF Surjection
  <1> HIDE DEF f, A
  <1>3. IsFiniteSet(A) /\ Cardinality(A) <= Cardinality(ms)
    BY <1>1, <1>2, FS_Surjection
  <1>4. Cardinality(A) \in Nat /\ Cardinality(ms) \in Nat
    BY <1>1, <1>3, FS_CardinalityType
  <1>5. Cardinality(A) \in 0..Cardinality(ms)
    BY <1>3, <1>4
  <1> QED  BY <1>5 DEF A

LEMMA SaveKeeps ==
    ASSUME FtInv, Save
    PROVE  FtInv'
  <1>1. /\ ftJob.at = "save" /\ ftMembers' = ftJob.members
        /\ ftComputed' = IF complete THEN ftJob.began ELSE -1
        /\ ftLaunch' = [ftLaunch EXCEPT !.qualified = ftLaunch.qualified \/ qualified]
        /\ ftWorld' = ftWorld /\ ftHead' = ftHead /\ ftDecimals' = ftDecimals
        /\ ftReports' = ftReports /\ ftFailures' = ftFailures
    BY DEF Save, ftChain
  <1>2. /\ ftWorld \in FtWorlds /\ ftJob.members \subseteq Everyone /\ ftFailures \in Nat
        /\ ftJob.head \in FtHeads \cup {-1} /\ IsVector(ftJob.features)
        /\ ftHead \in FtHeads /\ ftDecimals \in ImpactsOK /\ Passes
    BY <1>1, NothingChanges
  <1>3. ImpactsOK' = ImpactsOK /\ FoundOK \subseteq FoundOK'
    BY <1>1, <1>2, PassingGrows DEF ImpactsOK
  <1> DEFINE g == ftJob.features
             n == Cardinality({m.address : m \in ftJob.members})
             x == IF qualified THEN g.sellable ELSE ftFeature.sellable
             y == IF qualified THEN g.impact ELSE ftFeature.impact
  <1>4. ftFeature' = [g EXCEPT !.clusterSize = n, !.sellable = x, !.impact = y]
    BY DEF Save
  <1>5. y # -1 => x = 1
    BY NothingChanges DEF FtInv, FtRowInv, Sells
  <1>6. y \in ImpactsOK
    BY NothingChanges DEF FtInv, FtRowInv
  <1>7. n \in -1..Cardinality(ftJob.members)
    <2>1. n \in 0..Cardinality(ftJob.members)
      BY <1>2, WalletsCounted
    <2> HIDE DEF n
    <2> QED  BY <2>1
  <1>8. /\ IsVector(ftFeature') /\ ftFeature'.creatorAge = g.creatorAge
        /\ ftFeature'.clusterSupply = g.clusterSupply /\ ftFeature'.clusterSize = n
        /\ ftFeature'.sellable = x /\ ftFeature'.impact = y
    <2>1. IsVector(g)
      BY <1>2
    <2> HIDE DEF g, n, x, y
    <2>2. \A u, v, w : [g EXCEPT !.clusterSize = u, !.sellable = v, !.impact = w]
                       = Vector(g.buyers, g.creatorAge, u, g.clusterSupply,
                                g.top10, g.sidePools, v, w)
      BY <2>1, VectorReads, Zenon
    <2>3. ftFeature' = Vector(g.buyers, g.creatorAge, n, g.clusterSupply,
                              g.top10, g.sidePools, x, y)
      BY <1>4, <2>2, Zenon
    <2> QED  BY <2>3, VectorIs
  <1> HIDE DEF n, x, y
  <1>9. IsLaunch(ftLaunch') /\ ftLaunch'.pool = ftLaunch.pool
        /\ ftLaunch'.tokenAge = ftLaunch.tokenAge
    <2>1. IsLaunch(ftLaunch)
      BY NothingChanges
    <2> DEFINE q == ftLaunch.qualified \/ qualified
    <2>2. ftLaunch' = [ftLaunch EXCEPT !.qualified = q]
      BY <1>1
    <2> HIDE DEF q
    <2> QED  BY <2>1, <2>2, LaunchIs
  <1>10. ftJob.began \in FtHeads /\ ftJob.began <= ftHead /\ ftJob.head \in {ftJob.began, -1}
        /\ (ftJob.head = -1 => ftFailures > 0) /\ ftJob.began # -1
        /\ (complete => <<ftJob.members, ftJob.began>> \in FoundOK)
    <2>1. ftJob.at \in Late /\ ftJob.at # "idle"
      BY <1>1 DEF Late
    <2>2. /\ ftJob.began \in FtHeads /\ ftJob.began <= ftHead /\ ftJob.head \in {ftJob.began, -1}
          /\ (ftJob.head = -1 => ftFailures > 0)
      BY <2>1 DEF FtInv, FtJobInv
    <2>3. complete => <<ftJob.members, ftJob.began>> \in FoundOK
      BY <2>1 DEF complete, FtInv, FtJobInv
    <2>4. ftJob.began # -1
      BY <2>2, FtConstants
    <2> QED  BY <2>2, <2>3, <2>4
  <1>11. FtRowInv'
    <2>1. /\ AgesOK' = AgesOK /\ CreatorsOK' = CreatorsOK /\ SharesOK' = SharesOK
          /\ Everyone' = Everyone /\ Pools' = Pools
      BY <1>1, WorldSame
    <2>2. /\ ftWorld' \in FtWorlds /\ ftHead' \in FtHeads /\ ftFailures' \in Nat
          /\ ftDecimals' \in ImpactsOK' /\ IsLaunch(ftLaunch)'
          /\ ftLaunch'.pool \in DOMAIN Pools' /\ ftLaunch'.tokenAge \in AgesOK'
      <3>1. ftLaunch.pool \in DOMAIN Pools /\ ftLaunch.tokenAge \in AgesOK
        BY NothingChanges
      <3> QED  BY <1>1, <1>2, <1>3, <1>9, <2>1, <3>1 DEF IsLaunch
    <2>3. /\ IsVector(ftFeature)' /\ Sells(ftFeature)' /\ ftFeature'.creatorAge \in CreatorsOK'
          /\ ftFeature'.impact \in ImpactsOK'
      <3>1. g.creatorAge \in CreatorsOK
        BY NothingChanges
      <3> QED  BY <1>3, <1>5, <1>6, <1>8, <2>1, <3>1 DEF IsVector, Sells
    <2>4. /\ <<ftFeature'.clusterSupply, ftMembers'>> \in SharesOK'
          /\ ftMembers' \subseteq Everyone'
          /\ ftFeature'.clusterSize \in -1..Cardinality(ftMembers')
      <3>1. <<g.clusterSupply, ftJob.members>> \in SharesOK
        BY NothingChanges
      <3> QED  BY <1>1, <1>2, <1>7, <1>8, <2>1, <3>1
    <2>5. ftComputed' # -1 => <<ftMembers', ftComputed'>> \in FoundOK'
      BY <1>1, <1>3, <1>10
    <2>6. /\ ftMembers' = ftJob.members
          /\ \A r \in ftReports' : <<r.members, r.began>> \in FoundOK'
      BY <1>1, <1>3 DEF FtInv, FtRowInv
    <2> QED  BY <2>2, <2>3, <2>4, <2>5, <2>6 DEF FtRowInv
  <1>12. CASE complete
    <2>1. ftJob' = Anew("reports", ftJob.head, ftJob.began)
      BY <1>12, NoJobIs, Zenon DEF Save
    <2>2. ftComputed' # -1
      BY <1>1, <1>10, <1>12
    <2>3. ftWorld.v4 /\ ftFailures' = 0 => ftLaunch'.pool \in PoolsOK'
      <3>1. ftJob'.head = ftJob.head
        BY <2>1, JobIs DEF Anew
      <3>2. PoolsOK' = PoolsOK
        BY <1>1, <1>2, <3>1, PoolsSame
      <3>3. ftWorld.v4 /\ ftFailures = 0 => ftLaunch.pool \in PoolsOK
        BY <1>1 DEF FtInv, FtJobInv
      <3> QED  BY <1>1, <1>9, <3>2, <3>3
    <2>4. /\ ftJob.began <= ftHead' /\ (ftJob.head = -1 => ftFailures' > 0)
      BY <1>1, <1>10
    <2> QED  BY <1>1, <1>2, <1>10, <1>11, <2>1, <2>2, <2>3, <2>4, JobAnew
  <1>13. CASE ~complete
    <2>1. ftJob' = Anew("idle", -1, -1)
      BY <1>13, NoJobIs, Zenon DEF Save
    <2>2. -1 \in FtHeads \cup {-1}
      OBVIOUS
    <2> QED  BY <1>1, <1>11, <2>1, <2>2, JobAnew
  <1> QED  BY <1>12, <1>13

-----------------------------------------------------------------------------
LEMMA FtImplies == FtInv => FtTypeOK /\ FeaturesHonest
  <1> SUFFICES ASSUME FtInv PROVE FtTypeOK /\ FeaturesHonest
    OBVIOUS
  <1>1. ftLaunch.pool \in DOMAIN Pools /\ ftLaunch.tokenAge \in AgesOK
        /\ ftJob.members \subseteq Everyone /\ ftMembers \subseteq Everyone
        /\ ftFeature.clusterSize \in -1..Cardinality(ftMembers) /\ IsVector(ftFeature)
        /\ ftFeature.creatorAge \in CreatorsOK /\ Sells(ftFeature)
        /\ ftFeature.impact \in ImpactsOK /\ ftFailures \in Nat
        /\ <<ftFeature.clusterSupply, ftMembers>> \in SharesOK
    BY DEF FtInv, FtRowInv, FtJobInv
  <1>2. FtTypeOK
    <2>1. \A m \in Everyone : m.rule \in {"CREATOR", "LAUNCH_BLOCK_BUY", "DIRECT_TRANSFER"}
      BY DEF Everyone, LaunchBuyers, AllRecipients, Creators, Member
    <2>2. ftLaunch.tokenAge >= -1
      BY <1>1 DEF AgesOK
    <2>3. DOMAIN ftFeature = DOMAIN Unread
      BY <1>1, VectorIs DEF IsVector
    <2> QED  BY <1>1, <2>1, <2>2, <2>3 DEF FtTypeOK
  <1>3. ftLaunch.tokenAge # -1 =>
            LaunchBlock - ftWorld.deploy - ftLaunch.tokenAge
                \in 0..LeftOf(FreshBlocks, AgeIters - 2)
    BY <1>1 DEF AgesOK
  <1>4. ftFeature.creatorAge # -1 =>
            /\ ftWorld.firstTx # -1
            /\ LaunchBlock - ftWorld.firstTx - ftFeature.creatorAge
                   \in 0..LeftOf(LaunchBlock, NonceIters)
    BY <1>1 DEF CreatorsOK
  <1>5. ftFeature.clusterSupply # -1 =>
            \E to \in LaunchBlock..WindowEnd :
                ftFeature.clusterSupply =
                    Share({m.address : m \in ftMembers} \cap Addresses, to)
    <2>1. ASSUME ftFeature.clusterSupply # -1
          PROVE  \E to \in LaunchBlock..WindowEnd :
                     ftFeature.clusterSupply = Held(ftMembers, to)
      <3>1. PICK ms \in SUBSET Everyone, to \in LaunchBlock..WindowEnd :
                <<ftFeature.clusterSupply, ftMembers>> = <<Held(ms, to), ms>>
        BY <1>1, <2>1 DEF SharesOK
      <3> QED  BY <3>1
    <2> QED  BY <2>1 DEF Held
  <1>6. ftFeature.impact # -1 =>
            /\ ftFeature.sellable = 1
            /\ ftFeature.impact = ftWorld.decimals
               \/ (ftFeature.impact = DefaultDecimals /\ ftFailures > 0)
    <2>1. ftFeature.impact # -1 => ftFeature.sellable = 1
      BY <1>1 DEF Sells
    <2>2. ftFeature.impact # -1 =>
              ftFeature.impact = ftWorld.decimals
              \/ (ftFeature.impact = DefaultDecimals /\ ftFailures > 0)
      BY <1>1 DEF ImpactsOK
    <2> QED  BY <2>1, <2>2
  <1>7. \A r \in ftReports \cup IF ftComputed = -1 THEN {}
                              ELSE {[members |-> ftMembers, began |-> ftComputed]} :
            \E head \in r.began..ftHead : r.members = Whole(head)
    <2> DEFINE row == [members |-> ftMembers, began |-> ftComputed]
    <2>1. ftHead \in FtHeads /\ \A r \in ftReports : <<r.members, r.began>> \in FoundOK
      BY DEF FtInv, FtRowInv
    <2>2. ftComputed # -1 => <<row.members, row.began>> \in FoundOK
      BY DEF FtInv, FtRowInv
    <2> HIDE DEF row
    <2>3. ASSUME NEW r, <<r.members, r.began>> \in FoundOK
          PROVE  \E head \in r.began..ftHead : r.members = Whole(head)
      BY <2>3 DEF FoundOK
    <2> DEFINE Sound(r) == \E head \in r.began..ftHead : r.members = Whole(head)
    <2>4. (\A r \in ftReports : Sound(r)) /\ (ftComputed # -1 => Sound(row))
      BY <2>1, <2>2, <2>3
    <2> HIDE DEF Sound
    <2>5. \A r \in ftReports \cup IF ftComputed = -1 THEN {} ELSE {row} : Sound(r)
      <3>1. CASE ftComputed = -1
        BY <2>4, <3>1
      <3>2. CASE ftComputed # -1
        BY <2>4, <3>2
      <3> QED  BY <3>1, <3>2
    <2> QED  BY <2>5 DEF row, Sound
  <1>8. ftWorld.v4 /\ ftJob.at \notin {"idle", "pool"} /\ ftFailures = 0 =>
            \A i \in Cand :
                ~Ahead(i, ftLaunch.pool, [j \in Probed |-> Pools[j].swaps])
    <2>1. ftWorld.v4 /\ ftJob.at \notin {"idle", "pool"} /\ ftFailures = 0 =>
              ftLaunch.pool \in PoolsOK
      BY DEF FtInv, FtJobInv
    <2> QED  BY <2>1 DEF PoolsOK
  <1>9. FeaturesHonest
    BY <1>3, <1>4, <1>5, <1>6, <1>7, <1>8 DEF FeaturesHonest
  <1> QED  BY <1>2, <1>9

\* Whatever the chain holds, however its head moves and whichever reads fail, runs are
\* lost and repeated, what runT10ForLaunch leaves in the rows is true of the token, an
\* understatement, or null, but for a failed reference quote and failed decimals; a
\* report's cluster is whole as of a head no earlier than the one its job began at, which
\* before the end of the window is not yet the whole cluster.
THEOREM FeaturesAreHonest == FtSpec => [](FtTypeOK /\ FeaturesHonest)
  <1>1. ASSUME FtInv, [FtNext]_ftVars PROVE FtInv'
    <2>1. CASE FtNext
      BY <1>1, <2>1, BlocksMinedKeeps, T10StartKeeps, PickPoolKeeps, BuyersKeeps, ClusterKeeps, TokenAgeKeeps,
         CreatorKeeps, HoldersKeeps, SidesKeeps, ScannersKeeps, SaveKeeps, ReportsKeeps,
         LostKeeps DEF FtNext
    <2>2. CASE UNCHANGED ftVars
      BY <1>1, <2>2, FtStays
    <2> QED  BY <1>1, <2>1, <2>2
  <1> QED  BY <1>1, FtInitially, FtImplies, PTL DEF FtSpec

-----------------------------------------------------------------------------
(***************************************************************************)
(* Services: a behaviour of the services is one of each of them, in which  *)
(* all but one rest.                                                       *)
(***************************************************************************)

\* Who takes a step of Next, and who rests.
LEMMA OneServiceSteps ==
    ASSUME Next
    PROVE  /\ [ArtNext]_artVars /\ [RcNext]_rcVars /\ [LlNext]_llVars /\ [AcNext]_acVars
           /\ [FeedNext \/ AlertsNext]_ntVars /\ [BfNext]_bfVars /\ [ScNext]_scVars
           /\ [RvNext]_rvVars /\ [FtNext]_ftVars
BY Zenon DEF Next

LEMMA ServicesTogether ==
    Spec => /\ ArtSpec /\ RcSpec /\ LlSpec /\ AcSpec /\ NtSpec
            /\ BfSpec /\ ScSpec /\ RvSpec /\ FtSpec
  <1>1. Init => /\ ArtInit /\ RcInit /\ LlInit /\ AcInit /\ NtInit
                /\ BfInit /\ ScInit /\ RvInit /\ FtInit
    BY DEF Init
  <1>2. ASSUME [Next]_vars
        PROVE  /\ [ArtNext]_artVars /\ [RcNext]_rcVars /\ [LlNext]_llVars /\ [AcNext]_acVars
               /\ [FeedNext \/ AlertsNext]_ntVars /\ [BfNext]_bfVars /\ [ScNext]_scVars
               /\ [RvNext]_rvVars /\ [FtNext]_ftVars
    <2>1. CASE Next
      BY <2>1, OneServiceSteps
    <2>2. CASE UNCHANGED vars
      BY <2>2 DEF vars
    <2> QED  BY <1>2, <2>1, <2>2
  <1> QED
    BY <1>1, <1>2, PTL
    DEF Spec, ArtSpec, RcSpec, LlSpec, AcSpec, NtSpec, BfSpec, ScSpec, RvSpec, FtSpec

\* Whichever of the services runs, whatever fails in it, the stored rows and the locals of
\* all of them keep their types.
THEOREM ServicesTypeCorrect == Spec => []ServicesTypeOK
  <1>1. Spec => [](ArtTypeOK /\ RcTypeOK /\ LlTypeOK /\ AcTypeOK)
    BY ServicesTogether, ArtifactsAgree, ReceiptsProve, LogTypeCorrect, DayBounded, PTL
  <1>2. Spec => [](NtTypeOK /\ BfTypeOK /\ ScTypeOK /\ RvTypeOK /\ FtTypeOK)
    BY ServicesTogether, MessagesSaidOnce, BackfillOmitsNothing, ScoresAreEarned,
       VerdictsHold, FeaturesAreHonest, PTL
  <1> QED  BY <1>1, <1>2, PTL DEF ServicesTypeOK

\* Whichever of the services runs, all that was proved of each of them holds: of its own
\* states, and of the state in which it rests.
THEOREM ServicesSafe ==
    Spec => []( /\ ArtifactsSettle /\ ReceiptSound /\ ChainLinked /\ ActivationBounded
                /\ SaidOnce /\ AlertsOnEdge /\ NothingLeftOut /\ ScoresEarned
                /\ VerdictsFounded /\ FeaturesHonest )
  <1>1. Spec => [](ArtifactsSettle /\ ReceiptSound /\ ChainLinked /\ ActivationBounded)
    BY ServicesTogether, ArtifactsAgree, ReceiptsProve, LogNeverForks, DayBounded, PTL
  <1>2. Spec => [](SaidOnce /\ AlertsOnEdge /\ NothingLeftOut /\ ScoresEarned
                    /\ VerdictsFounded /\ FeaturesHonest)
    BY ServicesTogether, MessagesSaidOnce, AlertsOnlyOnEdges, BackfillOmitsNothing,
       ScoresAreEarned, VerdictsHold, FeaturesAreHonest, PTL
  <1> QED  BY <1>1, <1>2, PTL
=============================================================================
