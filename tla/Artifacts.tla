------------------------------ MODULE Artifacts ------------------------------
(***************************************************************************)
(* The frozen artifacts of apps/worker: the weights, the feature code and  *)
(* the outcome rules are files whose hashes are posted to CommitRegistry,  *)
(* each post followed by an ARTIFACT row of the commit table.  The worker  *)
(* posts the first three once, before a batch; the operator re-posts what  *)
(* has changed (commit:run --artifacts); a third script inserts rows that  *)
(* a lost receipt left out.  Sending and recording are separate steps, and *)
(* none of the three looks at the status of its transaction.               *)
(***************************************************************************)
EXTENDS Ascending, Sequences, SequencesExt

CONSTANTS
    ArtifactLabels,     \* the labels, in the order of computeArtifactHashes
    EnsureLabels,       \* those ensureArtifactsCommitted posts, in its order
    FileHashes,         \* what a file's hash may be
    MaxPosts,           \* bound: transactions
    MaxDeploys          \* bound: changes of the files

ASSUME ArtifactsAssumption ==
    /\ {ArtifactLabels, EnsureLabels} \subseteq Seq(STRING)
    /\ ToSet(EnsureLabels) \subseteq ToSet(ArtifactLabels)
    /\ FileHashes # {}
    /\ {MaxPosts, MaxDeploys} \subseteq Nat

VARIABLES
    artFile,    \* the hash of each artifact's file
    artEvents,  \* ArtifactCommitted events, oldest first
    artSent,    \* transactions sent
    artRows,    \* ARTIFACT rows by createdAt; event 0: the transaction reverted
    artRun,     \* what the worker and the operator are doing; clean: no revert,
                \* and nobody else posts or repairs meanwhile
    artInserts, \* the rows the reconcile script has found missing
    artDeploys

artVars == <<artFile, artEvents, artSent, artRows, artRun, artInserts, artDeploys>>

Labels == ToSet(ArtifactLabels)
inOrder(S) == LET at == Ascending({i \in DOMAIN ArtifactLabels : ArtifactLabels[i] \in S})
              IN  [k \in DOMAIN at |-> ArtifactLabels[at[k]]]
NoRun == [at |-> "idle", todo |-> <<>>, hash |-> <<>>, event |-> 0, clean |-> TRUE]

ArtInit ==
    /\ artFile = [l \in Labels |-> CHOOSE h \in FileHashes : TRUE]
    /\ artEvents = <<>> /\ artSent = 0
    /\ artRows = <<>>
    /\ artRun = [a \in {"worker", "operator"} |-> NoRun]
    /\ artInserts = <<>>
    /\ artDeploys = 0

Deploy ==
    /\ artDeploys < MaxDeploys
    /\ artDeploys' = artDeploys + 1
    /\ \E l \in Labels, h \in FileHashes : artFile' = [artFile EXCEPT ![l] = h]
    /\ UNCHANGED <<artEvents, artSent, artRows, artRun, artInserts>>

\* The newest of a label's rows or events.
newest(s, l) == SelectLastInSeq(s, LAMBDA r : r.label = l)

\* Mutant of recorded: any row with the hash will do.
RecordedEver(l, h) == \E i \in DOMAIN artRows : artRows[i].label = l
                                                /\ artRows[i].hash = h

\* The map `last`: the newest row of the label has this hash.
recorded(l, h) == LET i == newest(artRows, l)
                  IN  i # 0 /\ artRows[i].hash = h

Disturbed(run) == IF run.at = "idle" THEN run ELSE [run EXCEPT !.clean = FALSE]

Begin(a, todo) ==
    artRun' = [b \in DOMAIN artRun |->
                  IF b = a
                  THEN [at |-> "send", todo |-> todo, hash |-> artFile, event |-> 0,
                        clean |-> /\ artInserts = <<>>
                                  /\ \A c \in DOMAIN artRun \ {a} :
                                        artRun[c].at = "idle"]
                  ELSE Disturbed(artRun[b])]

\* ensureArtifactsCommitted returns at once when the table has an ARTIFACT row.
EnsureStarts ==
    /\ artRun["worker"].at = "idle"
    /\ artRows = <<>>
    /\ Begin("worker", EnsureLabels)
    /\ UNCHANGED <<artFile, artEvents, artSent, artRows, artInserts, artDeploys>>

\* recommitArtifacts, with and without --force.
RecommitStarts ==
    /\ artRun["operator"].at = "idle"
    /\ \/ Begin("operator", ArtifactLabels)
       \/ Begin("operator", inOrder({l \in Labels : ~recorded(l, artFile[l])}))
    /\ UNCHANGED <<artFile, artEvents, artSent, artRows, artInserts, artDeploys>>

\* writeContract: the transaction emits its event, or reverts once mined.
Post(a) ==
    LET run == artRun[a]
        l   == Head(run.todo)
    IN  /\ run.at = "send"
        /\ run.todo # <<>> /\ artSent < MaxPosts
        /\ artSent' = artSent + 1
        /\ \/ /\ artEvents' = Append(artEvents, [label |-> l, hash |-> run.hash[l]])
              /\ artRun' = [artRun EXCEPT ![a].at = "wait",
                               ![a].event = Len(artEvents) + 1]
           \/ /\ artRun' = [artRun EXCEPT ![a].at = "wait", ![a].event = 0,
                               ![a].clean = FALSE]
              /\ UNCHANGED artEvents
        /\ UNCHANGED <<artFile, artRows, artInserts, artDeploys>>

\* The receipt is there, whatever its status: the row, and on to the next label.
RecordArtifact(a) ==
    LET run == artRun[a]
        l   == Head(run.todo)
    IN  /\ run.at = "wait"
        /\ artRows' = Append(artRows, [label |-> l, hash |-> run.hash[l],
                                       event |-> run.event])
        /\ artRun' = [artRun EXCEPT ![a].todo = Tail(@), ![a].at = "send",
                                    ![a].event = 0]
        /\ UNCHANGED <<artFile, artEvents, artSent, artInserts, artDeploys>>

\* The labels are done; or the call throws, no receipt within the deadline, the
\* row cannot be created, the process dies: whatever was sent is forgotten.
ArtifactRunStops(a) ==
    /\ artRun[a].at # "idle"
    /\ artRun' = [artRun EXCEPT ![a] = NoRun]
    /\ UNCHANGED <<artFile, artEvents, artSent, artRows, artInserts, artDeploys>>

\* commit-reconcile: a label whose newest event, if recent enough to be found,
\* has the file's hash while its newest row has not.
ReconcileReads ==
    /\ artInserts = <<>>
    /\ LET event(l) == newest(artEvents, l)
           missing  == inOrder({l \in Labels :
                                   /\ event(l) # 0
                                   /\ artEvents[event(l)].hash = artFile[l]
                                   /\ ~recorded(l, artFile[l])})
       IN  /\ missing # <<>>
           /\ artInserts' = [i \in DOMAIN missing |->
                                [label |-> missing[i], hash |-> artFile[missing[i]],
                                 event |-> event(missing[i])]]
    /\ artRun' = [a \in DOMAIN artRun |-> Disturbed(artRun[a])]
    /\ UNCHANGED <<artFile, artEvents, artSent, artRows, artDeploys>>

\* createMany when --commit was given.
ReconcileEnds ==
    /\ artInserts # <<>>
    /\ artRows' \in {artRows, artRows \o artInserts}
    /\ artInserts' = <<>>
    /\ UNCHANGED <<artFile, artEvents, artSent, artRun, artDeploys>>

ArtNext ==
    \/ Deploy
    \/ EnsureStarts \/ RecommitStarts
    \/ \E a \in DOMAIN artRun : Post(a) \/ RecordArtifact(a) \/ ArtifactRunStops(a)
    \/ ReconcileReads \/ ReconcileEnds

ArtTypeOK ==
    /\ artFile \in [Labels -> FileHashes]
    /\ artEvents \in Seq([label : Labels, hash : FileHashes])
    /\ \A i \in DOMAIN artRows : artRows[i].event \in 0..Len(artEvents)
    /\ \A a \in DOMAIN artRun : artRun[a].event \in 0..Len(artEvents)
    /\ Len(artEvents) <= artSent

\* The table knows the label's newest event as such.
UpToDate(l) ==
    LET i == newest(artRows, l)
    IN  /\ i # 0 /\ newest(artEvents, l) # 0
        /\ artRows[i].event = newest(artEvents, l)

\* recommitArtifacts: when the operator's run ends, none of its transactions has
\* reverted and nobody else has posted meanwhile, then an artifact whose newest event
\* the table knows is the file's on chain, whatever was lost, re-posted, inserted by
\* the reconcile script or rolled back before.  (An artifact whose newest event it
\* does not know may not be.)
ArtifactsSettle ==
    LET run == artRun["operator"]
    IN  run.at = "send" /\ run.todo = <<>> /\ run.clean =>
            \A l \in Labels : UpToDate(l) =>
                artEvents[newest(artEvents, l)].hash = run.hash[l]
=============================================================================
