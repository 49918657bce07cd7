----------------------------- MODULE LaunchLane -----------------------------
(***************************************************************************)
(* What the index lane promises about a launch, without polls, cursors,    *)
(* replays or queues: a token is indexed once and its job queued once; the *)
(* job, while it has not ended, may be delivered again and again; it       *)
(* publishes reports only of the complete features it has just stored; and *)
(* the lane never touches a launch whose job has ended.                    *)
(***************************************************************************)
CONSTANT Tokens

VARIABLES
    stage,      \* of each token: see Stages
    complete,   \* the tokens whose stored features are complete
    published   \* the tokens with stored reports

vars == <<stage, complete, published>>

Stages == {"absent", "indexed", "queued", "computed", "ending", "ended"}

Init ==
    /\ stage = [t \in Tokens |-> "absent"]
    /\ complete = {}
    /\ published = {}

Move(T, from, to) ==
    /\ \A t \in T : stage[t] \in from
    /\ stage' = [t \in Tokens |-> IF t \in T THEN to ELSE stage[t]]

Index(T) == Move(T, {"absent"}, "indexed") /\ UNCHANGED <<complete, published>>

Enqueue(T) == Move(T, {"indexed"}, "queued") /\ UNCHANGED <<complete, published>>

Compute(t) ==
    /\ Move({t}, {"queued"}, "computed")
    /\ complete' = complete \union {t}
    /\ UNCHANGED published

\* The features are incomplete, or there are none.
GiveUp(t) ==
    /\ Move({t}, {"queued"}, "ending")
    /\ complete' \in {complete, complete \ {t}}
    /\ UNCHANGED published

Publish(t) ==
    /\ t \in complete
    /\ Move({t}, {"computed"}, "ending")
    /\ published' \in {published, published \union {t}}
    /\ UNCHANGED complete

End(t) == Move({t}, {"ending"}, "ended") /\ UNCHANGED <<complete, published>>

Redeliver(T) == Move(T, {"computed", "ending"}, "queued") /\ UNCHANGED <<complete, published>>

Next ==
    \/ \E T \in SUBSET Tokens : Index(T) \/ Enqueue(T) \/ Redeliver(T)
    \/ \E t \in Tokens : Compute(t) \/ GiveUp(t) \/ Publish(t) \/ End(t)

Spec == Init /\ [][Next]_vars
=============================================================================
