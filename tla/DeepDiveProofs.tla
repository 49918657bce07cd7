--------------------------- MODULE DeepDiveProofs ---------------------------
(***************************************************************************)
(* A halted runner makes no key, the runner's decisions are those of the   *)
(* reference machine, every figure keeps its type, and a day's dives stay  *)
(* within the cap but for what the gate cannot see, in any mode, for any   *)
(* money and any faults.                                                   *)
(***************************************************************************)
EXTENDS DeepDive, DataInduction, TLAPS

Item == [op : {"row", "mint", "revoke"}, to : States, ids : BOOLEAN,
         sets : {"none", "state", "halt"}]

\* What is left of a decision, once a row of it has halted the runner, makes no key
\* and leaves the runner in NO_KEY.
Harmless(p) ==
    \A i \in DOMAIN p : /\ p[i].op # "mint"
                        /\ p[i].sets # "none" => p[i].to = "NO_KEY"

\* A plan's row that halts is one of NO_KEY, and what comes after it is harmless.
HaltsCleanly(p) ==
    \A i \in DOMAIN p : p[i].sets = "halt" =>
        /\ p[i].to = "NO_KEY"
        /\ \A j \in DOMAIN p : j > i => /\ p[j].op # "mint"
                                        /\ p[j].sets # "none" => p[j].to = "NO_KEY"

LoopTypes ==
    /\ plan \in Seq(Item)
    /\ state \in States
    /\ last.state \in States
    /\ pc = "down" => plan = <<>>

ReadingTypes ==
    /\ balance \in Nat
    /\ reading.balance \in Nat
    /\ reading.ids \in BOOLEAN

HaltInv ==
    /\ LoopTypes
    /\ HaltsCleanly(plan)
    /\ halted => state = "NO_KEY" /\ Harmless(plan)

-----------------------------------------------------------------------------
\* decideLifecycle, state by state.
LEMMA Decides ==
    ASSUME state \in States, ReadingTypes, NEW phantom \in BOOLEAN
    PROVE  LET d == decideLifecycle(state, phantom)
           IN  \/ d = Steady(state)
               \/ /\ d = Move("NO_KEY", "REVOKED", FALSE)
                  /\ state = "REVOKING" \/ (state \in {"ACTIVE", "DRAINING"} /\ ~hasKey)
               \/ /\ d = Move("STARVED", "NO_CREDITS", FALSE)
                  /\ state \in {"NO_KEY", "ACTIVE", "DRAINING"}
               \/ /\ \E m \in BOOLEAN : d = Move("ACTIVE", "KEY_CLAIMED", m)
                  /\ state \in {"NO_KEY", "ROTATING", "STARVED"}
               \/ /\ d = Move("DRAINING", "LOW_BALANCE", FALSE)
                  /\ state = "ACTIVE"
               \/ /\ d = Move("ACTIVE", "STATUS_OK", FALSE)
                  /\ state = "DRAINING"
               \/ /\ d = Rotate
                  /\ state \in {"ACTIVE", "DRAINING"}
               \/ /\ d = Revoke("IDS_MISMATCH") \/ d = Revoke("PHANTOM_SPEND")
                  /\ state \notin {"NO_KEY", "REVOKING"}
  <1> DEFINE d == decideLifecycle(state, phantom)
  <1>1. CASE state = "REVOKING"
    <2>1. d = Move("NO_KEY", "REVOKED", FALSE)
      BY <1>1 DEF decideLifecycle
    <2> QED  BY <1>1, <2>1
  <1>2. CASE state = "NO_KEY"
    <2>1. ~(spendable <= 0) <=> spendable > 0
      BY KeyLifecycleAssumption DEF spendable, ReadingTypes
    <2>2. CASE halted
      <3>1. d = Steady(state)
        BY <1>2, <2>2 DEF decideLifecycle
      <3> QED  BY <3>1
    <2>3. CASE ~halted /\ spendable <= 0
      <3>1. d = Move("STARVED", "NO_CREDITS", FALSE)
        BY <1>2, <2>1, <2>3 DEF decideLifecycle
      <3> QED  BY <1>2, <3>1
    <2>4. CASE ~halted /\ ~(spendable <= 0)
      <3>1. d = Move("ACTIVE", "KEY_CLAIMED", TRUE)
        BY <1>2, <2>1, <2>4 DEF decideLifecycle
      <3> QED  BY <1>2, <3>1
    <2> QED  BY <2>2, <2>3, <2>4
  <1>3. CASE phantom /\ state \notin {"NO_KEY", "REVOKING"}
    <2>1. d = Revoke("PHANTOM_SPEND")
      BY <1>3 DEF decideLifecycle
    <2> QED  BY <1>3, <2>1
  <1>4. CASE ~phantom /\ state = "ROTATING"
    <2>1. d = Move("ACTIVE", "KEY_CLAIMED", TRUE)
      BY <1>4 DEF decideLifecycle
    <2> QED  BY <1>4, <2>1
  <1>5. CASE ~phantom /\ state = "STARVED"
    <2>1. d = IF spendable > 0
              THEN Move("ACTIVE", "KEY_CLAIMED", ~(hasKey /\ reading.holds))
              ELSE Steady(state)
      BY <1>5 DEF decideLifecycle
    <2>2. CASE spendable > 0
      <3>1. d = Move("ACTIVE", "KEY_CLAIMED", ~(hasKey /\ reading.holds))
        BY <2>1, <2>2
      <3> QED  BY <1>5, <3>1
    <2>3. CASE ~(spendable > 0)
      <3>1. d = Steady(state)
        BY <2>1, <2>3
      <3> QED  BY <3>1
    <2> QED  BY <2>2, <2>3
  <1>6. CASE ~phantom /\ state \in {"ACTIVE", "DRAINING"}
    <2>1. d = IF ~hasKey THEN Move("NO_KEY", "REVOKED", FALSE)
              ELSE IF ~reading.holds THEN Revoke("IDS_MISMATCH")
              ELSE IF reading.old THEN Rotate
              ELSE IF spendable <= 0 THEN Move("STARVED", "NO_CREDITS", FALSE)
              ELSE IF reading.balance < LowWater
                   THEN IF state = "ACTIVE" THEN Move("DRAINING", "LOW_BALANCE", FALSE)
                        ELSE Steady(state)
              ELSE IF state = "DRAINING" THEN Move("ACTIVE", "STATUS_OK", FALSE)
              ELSE Steady(state)
      BY <1>6 DEF decideLifecycle
    <2>2. \/ d = Move("NO_KEY", "REVOKED", FALSE) /\ ~hasKey
          \/ d = Revoke("IDS_MISMATCH")
          \/ d = Rotate
          \/ d = Move("STARVED", "NO_CREDITS", FALSE)
          \/ d = Move("DRAINING", "LOW_BALANCE", FALSE) /\ state = "ACTIVE"
          \/ d = Move("ACTIVE", "STATUS_OK", FALSE) /\ state = "DRAINING"
          \/ d = Steady(state)
      BY <2>1, Zenon
    <2> QED  BY <1>6, <2>2
  <1> QED  BY <1>1, <1>2, <1>3, <1>4, <1>5, <1>6 DEF States

\* What a decision may be.
Decision ==
    [kind : {"steady", "transition", "rotate", "revoke"}, to : States,
     event : {"none", "KEY_CLAIMED", "REVOKED", "NO_CREDITS", "LOW_BALANCE",
              "STATUS_OK", "HYGIENE_DUE", "PHANTOM_SPEND", "IDS_MISMATCH"},
     mint : BOOLEAN]

LEMMA DecideType ==
    ASSUME state \in States, ReadingTypes, NEW phantom \in BOOLEAN
    PROVE  decideLifecycle(state, phantom) \in Decision
  <1>1. /\ Steady(state) \in Decision
        /\ Move("NO_KEY", "REVOKED", FALSE) \in Decision
        /\ Move("STARVED", "NO_CREDITS", FALSE) \in Decision
        /\ \A m \in BOOLEAN : Move("ACTIVE", "KEY_CLAIMED", m) \in Decision
        /\ Move("DRAINING", "LOW_BALANCE", FALSE) \in Decision
        /\ Move("ACTIVE", "STATUS_OK", FALSE) \in Decision
        /\ Rotate \in Decision
        /\ Revoke("IDS_MISMATCH") \in Decision /\ Revoke("PHANTOM_SPEND") \in Decision
    BY DEF Steady, Move, Rotate, Revoke, Decision, States
  <1> QED  BY <1>1, Decides

\* What observe mode leaves of a decision differs in mint, or is nothing.
LEMMA Observed ==
    ASSUME state \in States, NEW d \in Decision
    PROVE  LET r == restrictToObserve(d, state)
           IN  /\ r \in Decision
               /\ \/ r = Steady(state)
                  \/ r.kind = d.kind /\ r.to = d.to /\ r.event = d.event
  <1> DEFINE q == [d EXCEPT !.mint = FALSE]
             r == restrictToObserve(d, state)
  <1>1. Steady(state) \in Decision
    BY DEF Steady, Decision
  <1>2. q \in Decision /\ q.kind = d.kind /\ q.to = d.to /\ q.event = d.event
    BY DEF Decision
  <1>3. r = d \/ r = q \/ r = Steady(state)
    BY DEF restrictToObserve
  <1> HIDE DEF q, r
  <1> QED  BY <1>1, <1>2, <1>3 DEF r

LEMMA DecisionType ==
    ASSUME state \in States, ReadingTypes, NEW phantom \in BOOLEAN
    PROVE  decision(phantom) \in Decision
  BY DecideType, Observed DEF decision

\* A halted runner in NO_KEY decides for nothing.
LEMMA HaltedIsSteady ==
    ASSUME halted, state = "NO_KEY", NEW phantom \in BOOLEAN
    PROVE  decision(phantom) = Steady("NO_KEY")
  <1>1. decideLifecycle(state, phantom) = Steady("NO_KEY")
    BY DEF decideLifecycle
  <1>2. Steady("NO_KEY").kind = "steady"
    BY DEF Steady
  <1>3. restrictToObserve(Steady("NO_KEY"), state) = Steady("NO_KEY")
    BY <1>2 DEF restrictToObserve
  <1> QED  BY <1>1, <1>3 DEF decision

\* The rows and calls of a decision.
LEMMA FourSteps ==
    ASSUME NEW a \in Item, NEW b \in Item, NEW c \in Item, NEW e \in Item
    PROVE  <<a, b, c, e>> \in Seq(Item)
  <1> HIDE DEF Item
  <1> QED  OBVIOUS

LEMMA PlanShape ==
    ASSUME state \in States, NEW d \in Decision, NEW phantom \in BOOLEAN,
           NEW ids \in BOOLEAN
    PROVE  /\ Plan(d, phantom, ids) \in Seq(Item)
           /\ HaltsCleanly(Plan(d, phantom, ids))
  <1> DEFINE p == Plan(d, phantom, ids)
  <1>1. /\ \A s \in States, b \in BOOLEAN, x \in {"none", "state", "halt"} :
               Row(s, b, x) \in Item
        /\ \A c \in {"mint", "revoke"} : Call(c) \in Item
    BY DEF Row, Call, Item, States
  <1>2. CASE d.kind = "steady"
    <2>1. p = <<Row(state, ids, "none")>>
      BY <1>2 DEF Plan
    <2>2. p \in Seq(Item)
      BY <1>1, <2>1
    <2>3. HaltsCleanly(p)
      BY <2>1 DEF HaltsCleanly, Row
    <2> QED  BY <2>2, <2>3
  <1>3. CASE d.kind = "transition"
    <2>1. d.to \in States /\ Row(d.to, ids, "state") \in Item /\ Call("mint") \in Item
      BY <1>1 DEF Decision
    <2>3. \/ p = <<Call("mint"), Row(d.to, ids, "state")>>
          \/ p = <<Row(d.to, ids, "state")>>
      BY <1>3 DEF Plan
    <2> HIDE DEF p
    <2>5. p \in Seq(Item)
      <3>1. CASE p = <<Call("mint"), Row(d.to, ids, "state")>>
        BY <2>1, <3>1
      <3>2. CASE p = <<Row(d.to, ids, "state")>>
        BY <2>1, <3>2
      <3> QED  BY <2>3, <3>1, <3>2
    <2>4. HaltsCleanly(p)
      BY <2>3 DEF HaltsCleanly, Row, Call
    <2> QED  BY <2>4, <2>5 DEF p
  <1>4. CASE d.kind = "rotate"
    <2>1. p = <<Row("ROTATING", ids, "none"), Call("mint"), Row("ACTIVE", ids, "state")>>
      BY <1>4 DEF Plan
    <2>2. p \in Seq(Item)
      BY <1>1, <2>1 DEF States
    <2>3. HaltsCleanly(p)
      BY <2>1 DEF HaltsCleanly, Row, Call
    <2> QED  BY <2>2, <2>3
  <1>5. CASE d.kind = "revoke"
    <2>1. p = <<Row("REVOKING", phantom, "none"), Call("revoke"),
                Row("NO_KEY", phantom, "halt"), Row("NO_KEY", TRUE, "none")>>
      BY <1>5 DEF Plan
    <2>2. p \in Seq(Item)
      <3>1. /\ Row("REVOKING", phantom, "none") \in Item /\ Call("revoke") \in Item
            /\ Row("NO_KEY", phantom, "halt") \in Item
            /\ Row("NO_KEY", TRUE, "none") \in Item
        BY <1>1 DEF States
      <3> HIDE DEF p
      <3> QED  BY <2>1, <3>1, FourSteps
    <2>3. HaltsCleanly(p)
      BY <2>1 DEF HaltsCleanly, Row, Call
    <2> QED  BY <2>2, <2>3
  <1> QED  BY <1>2, <1>3, <1>4, <1>5 DEF Decision

-----------------------------------------------------------------------------
\* A step that leaves the loop's variables and the newest row alone.
LEMMA RestKeepsHalt ==
    ASSUME HaltInv, UNCHANGED <<plan, state, halted, last, pc>>
    PROVE  HaltInv'
  BY DEF HaltInv, LoopTypes, HaltsCleanly, Harmless

\* A tick that ends with nothing left of its decision.
LEMMA EndKeepsHalt ==
    ASSUME HaltInv, plan' = <<>>, state' \in States, last'.state \in States,
           halted' => state' = "NO_KEY"
    PROVE  HaltInv'
  <1>1. plan' \in Seq(Item) /\ DOMAIN plan' = {}
    OBVIOUS
  <1> QED  BY <1>1 DEF HaltInv, LoopTypes, HaltsCleanly, Harmless

LEMMA InitHalt == DInit => HaltInv
  BY DEF DInit, Init, NoRow, HaltInv, LoopTypes, HaltsCleanly, Harmless, States

LEMMA GradeKeepsHalt == HaltInv /\ Grade => HaltInv'
  <1> SUFFICES ASSUME HaltInv, Grade PROVE HaltInv'
    OBVIOUS
  <1>1. UNCHANGED <<plan, state, halted, last>> /\ pc = "idle" /\ pc' = "apply"
    BY DEF Grade
  <1> QED  BY <1>1 DEF HaltInv, LoopTypes, HaltsCleanly, Harmless

LEMMA ApplyKeepsHalt == HaltInv /\ ReadingTypes /\ Apply => HaltInv'
  <1> SUFFICES ASSUME HaltInv, ReadingTypes, Apply PROVE HaltInv'
    OBVIOUS
  <1> DEFINE phantom == reading.billing = "phantom"
  <1>1. /\ plan' = Plan(decision(phantom), phantom, reading.ids)
        /\ UNCHANGED <<state, halted, last>> /\ pc' = "act"
    BY DEF Apply
  <1>2. state \in States /\ reading.ids \in BOOLEAN /\ phantom \in BOOLEAN
    BY DEF HaltInv, LoopTypes, ReadingTypes
  <1>3. decision(phantom) \in Decision
    BY <1>2, DecisionType
  <1>4. plan' \in Seq(Item) /\ HaltsCleanly(plan')
    BY <1>1, <1>2, <1>3, PlanShape
  <1>5. ASSUME halted PROVE state = "NO_KEY" /\ Harmless(plan')
    <2>1. state = "NO_KEY"
      BY <1>5 DEF HaltInv
    <2>2. decision(phantom) = Steady("NO_KEY")
      BY <1>2, <1>5, <2>1, HaltedIsSteady
    <2>3. plan' = <<Row("NO_KEY", reading.ids, "none")>>
      BY <1>1, <2>1, <2>2 DEF Plan, Steady
    <2> QED  BY <2>1, <2>3 DEF Harmless, Row
  <1> QED  BY <1>1, <1>2, <1>4, <1>5 DEF HaltInv, LoopTypes

\* The rest of a plan.
LEMMA ContinueKeepsHalt ==
    ASSUME HaltInv, plan # <<>>, pc = "act", Continue,
           state' \in States, last'.state \in States,
           halted' => state' = "NO_KEY",
           halted' => halted \/ Head(plan).sets = "halt"
    PROVE  HaltInv'
  <1>1. plan \in Seq(Item) /\ Len(plan) \in Nat /\ Len(plan) > 0
    BY DEF HaltInv, LoopTypes
  <1>2. CASE Len(plan) = 1
    BY <1>2, EndKeepsHalt DEF Continue, EndTick
  <1>3. CASE Len(plan) # 1
    <2>1. plan' = Tail(plan) /\ UNCHANGED <<pc, reading>>
      BY <1>3 DEF Continue
    <2>2. /\ plan' \in Seq(Item)
          /\ DOMAIN plan' = 1..(Len(plan) - 1)
          /\ DOMAIN plan = 1..Len(plan)
          /\ \A i \in DOMAIN plan' : plan'[i] = plan[i + 1]
      BY <1>1, <2>1
    <2>3. \A i \in DOMAIN plan' : i + 1 \in DOMAIN plan
      BY <1>1, <2>2
    <2>4. HaltsCleanly(plan')
      BY <1>1, <2>2, <2>3 DEF HaltInv, HaltsCleanly
    <2>5. ASSUME halted' PROVE Harmless(plan')
      <3>1. CASE halted
        BY <2>2, <2>3, <3>1 DEF HaltInv, Harmless
      <3>2. CASE Head(plan).sets = "halt"
        <4>1. 1 \in DOMAIN plan /\ plan[1].sets = "halt"
          BY <1>1, <2>2, <3>2
        <4>2. \A j \in DOMAIN plan :
                  j > 1 => /\ plan[j].op # "mint"
                           /\ plan[j].sets # "none" => plan[j].to = "NO_KEY"
          BY <4>1 DEF HaltInv, HaltsCleanly
        <4>3. \A i \in DOMAIN plan' : i + 1 > 1
          BY <2>2
        <4>4. ASSUME NEW i \in DOMAIN plan'
              PROVE  /\ plan'[i].op # "mint"
                     /\ plan'[i].sets # "none" => plan'[i].to = "NO_KEY"
          <5>1. /\ plan'[i] = plan[i + 1] /\ i + 1 \in DOMAIN plan /\ i + 1 > 1
            BY <2>2, <2>3, <4>3
          <5>2. /\ plan[i + 1].op # "mint"
                /\ plan[i + 1].sets # "none" => plan[i + 1].to = "NO_KEY"
            BY <4>2, <5>1
          <5> QED  BY <5>1, <5>2
        <4> QED  BY <4>4 DEF Harmless
      <3> QED  BY <2>5, <3>1, <3>2
    <2> QED  BY <1>1, <2>1, <2>2, <2>4, <2>5 DEF HaltInv, LoopTypes
  <1> QED  BY <1>2, <1>3

LEMMA HeadIsItem ==
    ASSUME HaltInv, plan # <<>>
    PROVE  /\ 1 \in DOMAIN plan /\ Head(plan) = plan[1] /\ Head(plan) \in Item
  BY DEF HaltInv, LoopTypes

LEMMA WriteRowKeepsHalt == HaltInv /\ WriteRow => HaltInv'
  <1> SUFFICES ASSUME HaltInv, WriteRow PROVE HaltInv'
    OBVIOUS
  <1>1. /\ plan # <<>> /\ pc = "act" /\ Continue
        /\ last' = appended
        /\ state' = IF Head(plan).sets = "none" THEN state ELSE Head(plan).to
        /\ halted' = (halted \/ Head(plan).sets = "halt")
    BY DEF WriteRow, Doing
  <1>2. /\ 1 \in DOMAIN plan /\ Head(plan) = plan[1]
        /\ Head(plan).to \in States
    BY <1>1, HeadIsItem DEF Item
  <1>3. state' \in States /\ last'.state \in States
    BY <1>1, <1>2 DEF appended, HaltInv, LoopTypes
  <1>4. ASSUME halted' PROVE state' = "NO_KEY"
    <2>1. CASE halted
      BY <1>1, <1>2, <2>1 DEF HaltInv, Harmless
    <2>2. CASE Head(plan).sets = "halt"
      BY <1>1, <1>2, <2>2 DEF HaltInv, HaltsCleanly
    <2> QED  BY <1>1, <1>4, <2>1, <2>2
  <1> QED  BY <1>1, <1>3, <1>4, ContinueKeepsHalt

LEMMA CallKeepsHalt == HaltInv /\ (Mint \/ RevokeKey) => HaltInv'
  <1> SUFFICES ASSUME HaltInv, Mint \/ RevokeKey PROVE HaltInv'
    OBVIOUS
  <1>1. plan # <<>> /\ pc = "act" /\ Continue /\ UNCHANGED <<state, halted, last>>
    BY DEF Mint, RevokeKey, Doing
  <1>2. state' \in States /\ last'.state \in States /\ (halted' => state' = "NO_KEY")
    BY <1>1 DEF HaltInv, LoopTypes
  <1> QED  BY <1>1, <1>2, ContinueKeepsHalt

\* A row that was written before the tick failed is one of the plan.
LEMMA InterruptedLast ==
    ASSUME HaltInv, Interrupted
    PROVE  last'.state \in States
  <1>1. last.state \in States
    BY DEF HaltInv, LoopTypes
  <1>2. CASE Doing("row") /\ last' \in {last, appended}
    <2>1. Head(plan).to \in States
      BY <1>2, HeadIsItem DEF Doing, Item
    <2> QED  BY <1>1, <1>2, <2>1 DEF appended
  <1>3. CASE UNCHANGED last
    BY <1>1, <1>3
  <1> QED  BY <1>2, <1>3 DEF Interrupted

LEMMA TickFailsKeepsHalt == HaltInv /\ TickFails => HaltInv'
  <1> SUFFICES ASSUME HaltInv, TickFails PROVE HaltInv'
    OBVIOUS
  <1>1. plan' = <<>> /\ UNCHANGED <<state, halted>>
    BY DEF TickFails, EndTick
  <1>2. last'.state \in States
    BY InterruptedLast DEF TickFails
  <1>3. state' \in States /\ (halted' => state' = "NO_KEY")
    BY <1>1 DEF HaltInv, LoopTypes
  <1> QED  BY <1>1, <1>2, <1>3, EndKeepsHalt

LEMMA DiesKeepsHalt == HaltInv /\ Dies => HaltInv'
  <1> SUFFICES ASSUME HaltInv, Dies PROVE HaltInv'
    OBVIOUS
  <1>1. plan' = <<>> /\ state' = "NO_KEY" /\ halted' = FALSE
    BY DEF Dies
  <1>2. last'.state \in States
    <2>1. CASE Interrupted
      BY <2>1, InterruptedLast
    <2>2. CASE UNCHANGED last
      BY <2>2 DEF HaltInv, LoopTypes
    <2> QED  BY <2>1, <2>2 DEF Dies
  <1> QED  BY <1>1, <1>2, EndKeepsHalt DEF States

LEMMA BootKeepsHalt == HaltInv /\ Boot => HaltInv'
  <1> SUFFICES ASSUME HaltInv, Boot PROVE HaltInv'
    OBVIOUS
  <1>1. /\ plan = <<>> /\ UNCHANGED <<plan, last>> /\ state' = last.state
        /\ halted' => last.state = "NO_KEY"
    BY DEF Boot, HaltInv, LoopTypes
  <1>2. plan' = <<>> /\ state' \in States /\ last'.state \in States
    BY <1>1 DEF HaltInv, LoopTypes
  <1> QED  BY <1>1, <1>2, EndKeepsHalt

LEMMA NextHalt == HaltInv /\ ReadingTypes /\ [DNext]_allVars => HaltInv'
  <1> SUFFICES ASSUME HaltInv, ReadingTypes, [DNext]_allVars PROVE HaltInv'
    OBVIOUS
  <1> DEFINE Rest == UNCHANGED <<plan, state, halted, last, pc>>
  <1>1. CASE External
    <2>1. Rest
      BY <1>1 DEF External, Settle, ForeignCall, TopUp, KeyLost, memory
    <2> QED  BY <2>1, RestKeepsHalt
  <1>2. CASE Tick \/ TickFails
    BY <1>2, GradeKeepsHalt, ApplyKeepsHalt, WriteRowKeepsHalt, CallKeepsHalt,
       BootKeepsHalt, TickFailsKeepsHalt DEF Tick
  <1>3. CASE SweepStarts \/ Sweep \/ Job
    <2>1. Rest
      BY <1>3 DEF SweepStarts, Sweep, Job, vars
    <2> QED  BY <2>1, RestKeepsHalt
  <1>4. ASSUME NEW l \in Lanes, Lane(l) PROVE HaltInv'
    <2>1. CASE Invoke(l)
      BY <2>1, RestKeepsHalt DEF Invoke, memory
    <2>2. CASE DiveFails(l)
      BY <2>2, RestKeepsHalt DEF DiveFails, memory
    <2>3. CASE Record(l)
      BY <2>3, RestKeepsHalt DEF Record, memory
    <2> QED  BY <1>4, <2>1, <2>2, <2>3 DEF Lane
  <1>5. CASE Crash
    BY <1>5, DiesKeepsHalt DEF Crash
  <1>6. CASE UNCHANGED allVars
    BY <1>6, RestKeepsHalt DEF allVars, vars
  <1> QED  BY <1>1, <1>2, <1>3, <1>4, <1>5, <1>6 DEF DNext, Lifecycle

\* The money the tick reads is a number of dollars.
LEMMA InitReading == DInit => ReadingTypes
  BY KeyLifecycleAssumption DEF DInit, Init, NoReading, ReadingTypes

LEMMA NextReading == ReadingTypes /\ [DNext]_allVars => ReadingTypes'
  <1> SUFFICES ASSUME ReadingTypes, [DNext]_allVars PROVE ReadingTypes'
    OBVIOUS
  <1>1. CASE External
    <2>1. UNCHANGED reading
      BY <1>1 DEF External, Settle, ForeignCall, TopUp, KeyLost, memory
    <2>2. balance' \in Nat
      <3>1. CASE Settle
        BY <3>1 DEF Settle, ReadingTypes
      <3>2. CASE TopUp
        BY <3>2, KeyLifecycleAssumption DEF TopUp, ReadingTypes
      <3>3. CASE ForeignCall \/ KeyLost
        BY <3>3 DEF ForeignCall, KeyLost, ReadingTypes
      <3> QED  BY <1>1, <3>1, <3>2, <3>3 DEF External
    <2> QED  BY <2>1, <2>2 DEF ReadingTypes
  <1>2. CASE Grade
    BY <1>2 DEF Grade, reconcileIds, provider, ReadingTypes
  <1>3. CASE Apply
    BY <1>3 DEF Apply, NoReading, provider, ReadingTypes
  <1>a. NoReading.balance = 0 /\ NoReading.ids = FALSE
    BY DEF NoReading
  <1>b. ASSUME UNCHANGED balance, reading' \in {reading, NoReading} PROVE ReadingTypes'
    <2>1. CASE reading' = reading
      BY <1>b, <2>1 DEF ReadingTypes
    <2>2. CASE reading' = NoReading
      <3>1. reading'.balance = 0 /\ reading'.ids = FALSE
        BY <1>a, <2>2
      <3>2. balance' \in Nat
        BY <1>b DEF ReadingTypes
      <3>3. reading'.ids \in BOOLEAN
        BY <3>1
      <3> QED  BY <3>1, <3>2, <3>3 DEF ReadingTypes
    <2> QED  BY <1>b, <2>1, <2>2
  <1>4. CASE WriteRow \/ Mint \/ RevokeKey \/ TickFails
    <2>1. UNCHANGED balance
      BY <1>4 DEF WriteRow, Mint, RevokeKey, TickFails, provider
    <2>2. Continue \/ EndTick
      BY <1>4 DEF WriteRow, Mint, RevokeKey, TickFails
    <2> QED  BY <1>b, <2>1, <2>2 DEF Continue, EndTick
  <1>5. CASE Dies \/ Boot
    <2>1. UNCHANGED balance /\ reading' \in {reading, NoReading}
      BY <1>5 DEF Dies, Boot, provider
    <2> QED  BY <1>b, <2>1
  <1>6. CASE UNCHANGED <<balance, reading>>
    BY <1>6 DEF ReadingTypes
  <1>7. CASE SweepStarts \/ Sweep \/ Job \/ UNCHANGED allVars
    BY <1>6, <1>7 DEF SweepStarts, Sweep, Job, allVars, vars
  <1>8. ASSUME NEW l \in Lanes, Lane(l) PROVE ReadingTypes'
    BY <1>6, <1>8 DEF Lane, Invoke, DiveFails, Record, memory, provider
  <1> QED
    BY <1>1, <1>2, <1>3, <1>4, <1>5, <1>7, <1>8 DEF DNext, Lifecycle, Tick, Crash

\* revoke in runLifecycleLoop: a halted runner is in NO_KEY and makes no key, in any
\* mode, for any money, whatever fails or dies and whatever the dives do beside it.
THEOREM HaltedMintsNothing == DSpec => []HaltHolds
  <1>1. HaltInv => HaltHolds
    BY DEF HaltInv, HaltHolds, Harmless
  <1> QED  BY <1>1, InitHalt, NextHalt, InitReading, NextReading, PTL DEF DSpec

-----------------------------------------------------------------------------
\* checkAgainstStateMachine, for each state the runner may be in.
LEMMA DecisionAgrees ==
    ASSUME state \in States, ReadingTypes, NEW phantom \in BOOLEAN
    PROVE  LET d == decision(phantom)
           IN  agrees(state, d) \/ (d.event = "REVOKED" /\ ~hasKey)
  <1> DEFINE d == decideLifecycle(state, phantom)
             r == decision(phantom)
             Fine(x) == agrees(state, x) \/ (x.event = "REVOKED" /\ ~hasKey)
  <1>1. Fine(Steady(state))
    BY DEF Steady, agrees
  <1>2. Fine(d)
    <2>0. CASE d = Steady(state)
      <3> QED  BY <1>1, <2>0
    <2>1. CASE /\ d = Move("NO_KEY", "REVOKED", FALSE)
               /\ state = "REVOKING" \/ (state \in {"ACTIVE", "DRAINING"} /\ ~hasKey)
      <3>1. Move("NO_KEY", "REVOKED", FALSE).event = "REVOKED"
        BY DEF Move
      <3>2. CASE state = "REVOKING"
        BY <2>1, <3>2 DEF Move, agrees, nextState
      <3>3. CASE ~hasKey
        <4> QED  BY <2>1, <3>1, <3>3
      <3> QED  BY <2>1, <3>2, <3>3
    <2>2. CASE /\ d = Move("STARVED", "NO_CREDITS", FALSE)
               /\ state \in {"NO_KEY", "ACTIVE", "DRAINING"}
      BY <2>2 DEF Move, agrees, nextState
    <2>3. CASE /\ \E m \in BOOLEAN : d = Move("ACTIVE", "KEY_CLAIMED", m)
               /\ state \in {"NO_KEY", "ROTATING", "STARVED"}
      BY <2>3 DEF Move, agrees, nextState
    <2>4. CASE \/ /\ d = Move("DRAINING", "LOW_BALANCE", FALSE)
                  /\ state = "ACTIVE"
               \/ /\ d = Move("ACTIVE", "STATUS_OK", FALSE)
                  /\ state = "DRAINING"
      BY <2>4 DEF Move, agrees, nextState
    <2>5. CASE /\ d = Rotate
               /\ state \in {"ACTIVE", "DRAINING"}
      BY <2>5 DEF Rotate, agrees, nextState
    <2>6. CASE /\ d = Revoke("IDS_MISMATCH") \/ d = Revoke("PHANTOM_SPEND")
               /\ state \notin {"NO_KEY", "REVOKING"}
      BY <2>6 DEF Revoke, agrees, nextState
    <2> QED  BY <2>0, <2>1, <2>2, <2>3, <2>4, <2>5, <2>6, Decides DEF d
  <1>3. d \in Decision
    BY DecideType
  <1>4. \/ r = d \/ r = Steady(state)
        \/ r.kind = d.kind /\ r.to = d.to /\ r.event = d.event
    BY <1>3, Observed DEF decision
  <1>5. ASSUME r.kind = d.kind, r.to = d.to, r.event = d.event PROVE Fine(r)
    <2> QED  BY <1>2, <1>5 DEF agrees
  <1>6. CASE r = d
    <2> QED  BY <1>2, <1>6
  <1>7. CASE r = Steady(state)
    <2> QED  BY <1>1, <1>7
  <1> QED  BY <1>4, <1>5, <1>6, <1>7

\* checkAgainstStateMachine: of all decisions the runner reaches, only that of a key
\* lost outside it is unknown to the machine of state.ts.
THEOREM OnlyLostKeys == DSpec => []OnlyLostKeyDiverges
  <1>1. HaltInv /\ ReadingTypes => OnlyLostKeyDiverges
    <2> SUFFICES ASSUME HaltInv, ReadingTypes PROVE OnlyLostKeyDiverges
      OBVIOUS
    <2>1. state \in States
      BY DEF HaltInv, LoopTypes
    <2> QED  BY <2>1, DecisionAgrees DEF OnlyLostKeyDiverges
  <1> QED  BY <1>1, InitHalt, NextHalt, InitReading, NextReading, PTL DEF DSpec

-----------------------------------------------------------------------------
(***************************************************************************)
(* The sum of the ledger, row by row.                                      *)
(***************************************************************************)

costOf(rows) == SumFunctionOnSet([i \in DOMAIN rows |-> rows[i].cost], DOMAIN rows)

LEMMA TotalIsCost ==
    /\ totalSpendUsd = costOf(ledger)
    /\ totalSpendUsd' = costOf(ledger')
  BY DEF totalSpendUsd, SumFunction, costOf

LEMMA CostType ==
    ASSUME NEW rows \in Seq(RowType)
    PROVE  costOf(rows) \in Nat
  <1> DEFINE f == [i \in DOMAIN rows |-> rows[i].cost]
  <1>1. IsFiniteSet(DOMAIN rows)
    <2>1. DOMAIN rows = 1..Len(rows) /\ Len(rows) \in Nat
      OBVIOUS
    <2> QED  BY <2>1, FS_Interval
  <1>2. \A i \in DOMAIN rows : f[i] \in Nat
    <2>1. \A i \in DOMAIN rows : rows[i] \in RowType
      OBVIOUS
    <2> QED  BY <2>1 DEF RowType
  <1> HIDE DEF f
  <1>3. SumFunctionOnSet(f, DOMAIN rows) \in Nat
    BY <1>1, <1>2, SumType
  <1> QED  BY <1>3 DEF costOf, f

\* recordDeepdiveSpend adds its row's cost to the sum.
LEMMA CostAppend ==
    ASSUME NEW rows \in Seq(RowType), NEW row \in RowType
    PROVE  costOf(Append(rows, row)) = costOf(rows) + row.cost
  <1> DEFINE n == Len(rows)
             more == Append(rows, row)
             f == [i \in DOMAIN rows |-> rows[i].cost]
             g == [i \in DOMAIN more |-> more[i].cost]
  <1>1. /\ n \in Nat /\ DOMAIN rows = 1..n /\ DOMAIN more = 1..(n + 1)
        /\ more[n + 1] = row /\ \A i \in 1..n : more[i] = rows[i]
    OBVIOUS
  <1>2. \A i \in 1..n : rows[i] \in RowType
    BY <1>1
  <1>3. /\ \A i \in 1..n : f[i] \in Int /\ g[i] = f[i]
        /\ \A i \in 1..(n + 1) : g[i] \in Int
        /\ g[n + 1] = row.cost
    <2>1. \A i \in 1..n : rows[i].cost \in Int
      BY <1>2 DEF RowType
    <2>2. row.cost \in Int
      BY DEF RowType
    <2> HIDE DEF more
    <2> QED  BY <1>1, <2>1, <2>2
  <1> HIDE DEF f, g, n, more
  <1>4. IsFiniteSet(1..n) /\ IsFiniteSet(1..(n + 1))
    <2>1. 1 \in Int /\ n \in Int /\ n + 1 \in Int
      BY <1>1
    <2> QED  BY <2>1, FS_Interval
  <1>5. n + 1 \in 1..(n + 1) /\ (1..(n + 1)) \ {n + 1} = 1..n
    BY <1>1
  <1>6. SumFunctionOnSet(g, 1..(n + 1)) =
            SumFunctionOnSet(g, (1..(n + 1)) \ {n + 1}) + g[n + 1]
    <2> DEFINE S == 1..(n + 1)
               z == n + 1
    <2>1. IsFiniteSet(S) /\ (\A y \in S : g[y] \in Int) /\ z \in S
      BY <1>3, <1>4, <1>5
    <2> HIDE DEF S, z
    <2>2. SumFunctionOnSet(g, S) = SumFunctionOnSet(g, S \ {z}) + g[z]
      BY <2>1, SumAdd
    <2> QED  BY <2>2 DEF S, z
  <1>7. SumFunctionOnSet(g, 1..n) = SumFunctionOnSet(f, 1..n)
    <2> DEFINE S == 1..n
    <2>1. /\ IsFiniteSet(S) /\ (\A y \in S : f[y] \in Int) /\ (\A y \in S : g[y] \in Int)
          /\ \A y \in S : g[y] = f[y]
      BY <1>3, <1>4
    <2> HIDE DEF S
    <2>2. SumFunctionOnSet(g, S) = SumFunctionOnSet(f, S)
      BY <2>1, SumEqual
    <2> QED  BY <2>2 DEF S
  <1>8. costOf(rows) = SumFunctionOnSet(f, 1..n)
    BY <1>1 DEF costOf, f
  <1>9. costOf(more) = SumFunctionOnSet(g, 1..(n + 1))
    BY <1>1 DEF costOf, g
  <1> QED  BY <1>3, <1>5, <1>6, <1>7, <1>8, <1>9 DEF more

LEMMA EstimateType ==
    ASSUME ledger \in Seq(RowType), NEW rows, rows \subseteq DOMAIN ledger
    PROVE  windowEstimate(rows) \in Nat
  <1> DEFINE f == [i \in rows |-> ledger[i].est]
  <1>1. IsFiniteSet(rows)
    <2>1. DOMAIN ledger = 1..Len(ledger) /\ Len(ledger) \in Nat
      OBVIOUS
    <2>2. IsFiniteSet(DOMAIN ledger)
      BY <2>1, FS_Interval
    <2> QED  BY <2>2, FS_Subset
  <1>2. \A i \in rows : f[i] \in Nat
    <2>1. \A i \in rows : ledger[i] \in RowType
      OBVIOUS
    <2> QED  BY <2>1 DEF RowType
  <1> HIDE DEF f
  <1>3. SumFunctionOnSet(f, rows) \in Nat
    BY <1>1, <1>2, SumType
  <1> QED  BY <1>3 DEF windowEstimate, f

-----------------------------------------------------------------------------
(***************************************************************************)
(* The types of what the lifecycle loop and the provider keep.             *)
(***************************************************************************)

Secrets == {"none", "current", "stale"}
Baseline == [of : Secrets, spent : Nat, cost : Nat]
Epochs == [any : BOOLEAN, spent : Nat, mark : Nat, prevMark : Nat, today : Nat]
Grades == Billing \cup {"null"}

ProviderTypes ==
    /\ mode \in Modes
    /\ balance \in Nat /\ spent \in Nat /\ owed \in Nat /\ foreign \in Nat
    /\ events \in Nat
    /\ key \in BOOLEAN
    /\ secret \in Secrets
    /\ baseline \in Baseline

\* What a tick has read, when it stamps and scales the rows of its window.
WindowTypes ==
    /\ reading.win \subseteq DOMAIN ledger
    /\ reading.delta \in Nat
    /\ reading.graded => reading.est \in Nat /\ reading.est > 0
    /\ reading.spent \in Nat /\ reading.cost \in Nat
    /\ reading.billing \in Grades

LedgerTypes ==
    /\ ledger \in Seq(RowType)
    /\ epochs \in Epochs
    /\ epochs.prevMark <= epochs.mark /\ epochs.mark <= Len(ledger)

ControlTypes ==
    /\ pc \in {"idle", "apply", "act", "down"}
    /\ halted \in BOOLEAN
    /\ anomalies \in Nat
    /\ last.billing \in Grades
    /\ last.balance \in Int

KeyTypes == ProviderTypes /\ WindowTypes /\ LedgerTypes /\ ControlTypes

keyVars == <<mode, provider, secret, baseline, ledger, epochs, last, pc, halted,
             anomalies, reading, events>>

LEMMA KeyTypesStutter ==
    ASSUME KeyTypes, UNCHANGED keyVars
    PROVE  KeyTypes'
  BY DEF KeyTypes, ProviderTypes, WindowTypes, LedgerTypes, ControlTypes, keyVars, provider

LEMMA InitKeyTypes == DInit => KeyTypes
  <1> SUFFICES ASSUME Init PROVE KeyTypes
    BY DEF DInit
  <1>1. ProviderTypes
    <2>1. baseline \in Baseline
      BY DEF Init, NoBaseline, Baseline, Secrets
    <2>2. key \in BOOLEAN
      BY KeyLifecycleAssumption DEF Init
    <2>3. secret \in Secrets
      BY DEF Init, Secrets
    <2> QED  BY <2>1, <2>2, <2>3, KeyLifecycleAssumption DEF Init, ProviderTypes
  <1>2. WindowTypes
    BY DEF Init, NoReading, WindowTypes, Grades
  <1>3. LedgerTypes
    BY DEF Init, LedgerTypes, Epochs
  <1>4. ControlTypes
    <2>1. /\ last.billing = "null" /\ last.balance = -1
          /\ pc = "idle" /\ halted = FALSE /\ anomalies = 0
      BY DEF Init, NoRow
    <2>2. last.balance \in Int
      BY <2>1
    <2>3. last.billing \in Grades
      BY <2>1 DEF Grades
    <2>4. halted \in BOOLEAN /\ anomalies \in Nat
      BY <2>1
    <2> QED  BY <2>1, <2>2, <2>3, <2>4 DEF ControlTypes
  <1> QED  BY <1>1, <1>2, <1>3, <1>4 DEF KeyTypes

LEMMA EventType ==
    ASSUME KeyTypes, Event
    PROVE  events' \in Nat
  BY DEF KeyTypes, ProviderTypes, Event

LEMMA OutdatedType ==
    ASSUME KeyTypes
    PROVE  /\ Outdated(secret) \in Secrets
           /\ [baseline EXCEPT !.of = Outdated(@)] \in Baseline
  <1>1. \A k \in Secrets : Outdated(k) \in Secrets
    BY DEF Outdated, Secrets
  <1> QED  BY <1>1 DEF KeyTypes, ProviderTypes, Baseline

LEMMA ExternalKeyTypes ==
    ASSUME KeyTypes, External
    PROVE  KeyTypes'
  <1>1. UNCHANGED <<ledger, epochs, last, pc, halted, anomalies, reading>>
    BY DEF External, Settle, ForeignCall, TopUp, KeyLost, memory
  <1>2. ProviderTypes'
    <2>1. CASE Settle
      <3>1. owed' \in Nat /\ spent' \in Nat /\ balance' \in Nat
        BY <2>1 DEF Settle, KeyTypes, ProviderTypes
      <3> QED  BY <2>1, <3>1 DEF Settle, KeyTypes, ProviderTypes
    <2>2. CASE ForeignCall
      BY <2>2, EventType DEF ForeignCall, KeyTypes, ProviderTypes
    <2>3. CASE TopUp
      <3>1. balance' \in Nat /\ key' \in BOOLEAN
        BY <2>3, KeyLifecycleAssumption DEF TopUp, KeyTypes, ProviderTypes
      <3> QED  BY <2>3, <3>1, EventType DEF TopUp, KeyTypes, ProviderTypes
    <2>4. CASE KeyLost
      BY <2>4, EventType, OutdatedType DEF KeyLost, KeyTypes, ProviderTypes
    <2> QED  BY <2>1, <2>2, <2>3, <2>4 DEF External
  <1> QED  BY <1>1, <1>2 DEF KeyTypes, WindowTypes, LedgerTypes, ControlTypes

\* reconcileEpoch, and what the epoch says of the billing.
LEMMA GradeIs ==
    ASSUME NEW delta \in Nat, NEW est \in Nat, NEW count \in Nat, NEW lag \in Nat
    PROVE  /\ reconcileEpoch(delta, est, count, lag) \in Billing
           /\ graded(delta, est, count) => est > 0
  BY DEF reconcileEpoch, graded, Billing

LEMMA GradeKeyTypes ==
    ASSUME KeyTypes, Grade
    PROVE  KeyTypes'
  <1> DEFINE blank == mode = "gateway" /\ ~key
             now   == Len(ledger)
             total == IF blank THEN 0 ELSE spent
             base  == IF key /\ baseline.of # "current"
                      THEN [of |-> "current", spent |-> spent, cost |-> totalSpendUsd]
                      ELSE baseline
             prev  == IF epochs.any THEN epochs.spent ELSE total
             win   == IF epochs.any THEN windowRows(epochs.mark, now) ELSE {}
             lag   == windowRows(epochs.prevMark, epochs.mark)
             delta == IF total > prev THEN total - prev ELSE 0
             est   == windowEstimate(win)
             g     == reconcileEpoch(delta, est, Cardinality(win), Cardinality(lag))
             more  == IF g # "anomaly" THEN 0
                      ELSE IF anomalies < AnomalyEpochs THEN anomalies + 1
                      ELSE anomalies
             says  == IF g = "phantom" THEN g
                      ELSE IF more >= AnomalyEpochs THEN "anomaly"
                      ELSE IF g = "anomaly" THEN "aggregate_only"
                      ELSE g
  <1>0. PICK old \in {FALSE, key} :
            reading' =
               [balance |-> IF blank THEN 0 ELSE balance, spent |-> total,
                key |-> key, old |-> old, holds |-> holdSecret(key),
                cost |-> totalSpendUsd, win |-> win, delta |-> delta, est |-> est,
                graded |-> graded(delta, est, Cardinality(win)), billing |-> says,
                ids |-> reconcileIds(key, base, totalSpendUsd)]
    BY DEF Grade
  <1>a. /\ reading'.win = win /\ reading'.delta = delta /\ reading'.est = est
        /\ reading'.graded = graded(delta, est, Cardinality(win))
        /\ reading'.spent = total /\ reading'.cost = totalSpendUsd
        /\ reading'.billing = says
    <2> HIDE DEF blank, now, total, base, prev, win, lag, delta, est, g, more, says
    <2> QED  BY <1>0
  <1>1. /\ pc = "idle" /\ pc' = "apply"
        /\ baseline' = base /\ anomalies' = more
        /\ epochs' = [any |-> TRUE, spent |-> total, mark |-> now,
                      prevMark |-> epochs.mark, today |-> epochs.today + delta]
        /\ UNCHANGED <<mode, provider, secret, ledger, last, halted, events>>
    BY DEF Grade
  <1>2. /\ ledger \in Seq(RowType) /\ now \in Nat /\ DOMAIN ledger = 1..now
        /\ epochs \in Epochs /\ epochs.mark <= now /\ anomalies \in Nat
    BY DEF KeyTypes, LedgerTypes, ControlTypes
  <1>3. total \in Nat /\ prev \in Nat /\ delta \in Nat
    BY <1>2 DEF KeyTypes, ProviderTypes, Epochs
  <1>4. totalSpendUsd \in Nat
    BY <1>2, TotalIsCost, CostType
  <1>5. win \subseteq DOMAIN ledger /\ lag \subseteq DOMAIN ledger
    BY DEF windowRows
  <1>6. est \in Nat
    BY <1>2, <1>5, EstimateType
  <1>7. Cardinality(win) \in Nat /\ Cardinality(lag) \in Nat
    <2>1. IsFiniteSet(DOMAIN ledger)
      BY <1>2, FS_Interval
    <2> HIDE DEF win, lag
    <2> QED  BY <1>5, <2>1, FS_Subset, FS_CardinalityType
  <1>8. base \in Baseline
    BY <1>4 DEF KeyTypes, ProviderTypes, Baseline, Secrets
  <1> HIDE DEF blank, now, total, base, prev, win, lag, delta, est
  <1>9. g \in Billing /\ (graded(delta, est, Cardinality(win)) => est > 0)
    BY <1>3, <1>6, <1>7, GradeIs
  <1> HIDE DEF g
  <1>10. more \in Nat
    BY <1>2
  <1>11. says \in Grades
    BY <1>9 DEF Grades, Billing
  <1> HIDE DEF more, says
  <1>12. ProviderTypes'
    BY <1>1, <1>8 DEF KeyTypes, ProviderTypes, provider
  <1>13. WindowTypes'
    BY <1>1, <1>a, <1>3, <1>4, <1>5, <1>6, <1>9, <1>11 DEF WindowTypes
  <1>14. LedgerTypes'
    <2>1. epochs' \in Epochs
      BY <1>1, <1>2, <1>3 DEF Epochs
    <2>2. epochs'.prevMark = epochs.mark /\ epochs'.mark = now
      BY <1>1
    <2> QED  BY <1>1, <1>2, <2>1, <2>2 DEF LedgerTypes, now
  <1>15. ControlTypes'
    BY <1>1, <1>10 DEF KeyTypes, ControlTypes
  <1> QED  BY <1>12, <1>13, <1>14, <1>15 DEF KeyTypes

\* Stamping and scaling changes no row's place, and every figure stays a number.
LEMMA Reconciled ==
    ASSUME KeyTypes, NEW rows, rows \subseteq DOMAIN ledger
    PROVE  /\ applyReconciliation(rows) \in Seq(RowType)
           /\ Len(applyReconciliation(rows)) = Len(ledger)
  <1>1. ledger \in Seq(RowType)
    BY DEF KeyTypes, LedgerTypes
  <1>2. Len(ledger) \in Nat /\ DOMAIN ledger = 1..Len(ledger)
    BY <1>1
  <1> DEFINE after == applyReconciliation(rows)
  <1>3. ASSUME NEW i \in DOMAIN ledger PROVE after[i] \in RowType
    <2> DEFINE scales == reading.graded /\ reading.delta > 0 /\ ledger[i].est > 0
               cost == IF scales THEN (ledger[i].est * reading.delta) \div reading.est
                       ELSE ledger[i].cost
    <2>1. ledger[i] \in RowType
      BY <1>1
    <2>2. ledger[i].est \in Nat /\ ledger[i].cost \in Nat
      BY <2>1 DEF RowType
    <2>3. cost \in Nat
      <3>1. CASE scales
        <4>1. reading.delta \in Nat /\ reading.est \in Nat /\ reading.est > 0
          BY <3>1 DEF KeyTypes, WindowTypes
        <4>2. ledger[i].est * reading.delta \in Nat
          BY <2>2, <4>1
        <4>3. (ledger[i].est * reading.delta) \div reading.est \in Nat
          BY <4>1, <4>2
        <4> QED  BY <3>1, <4>3
      <3>2. CASE ~scales
        BY <2>2, <3>2
      <3> QED  BY <3>1, <3>2
    <2>4. \/ after[i] = ledger[i]
          \/ after[i] = [ledger[i] EXCEPT !.stamped = TRUE, !.cost = cost]
      BY DEF applyReconciliation
    <2> HIDE DEF cost, after
    <2>5. [ledger[i] EXCEPT !.stamped = TRUE, !.cost = cost] \in RowType
      BY <2>1, <2>3 DEF RowType
    <2> QED  BY <2>1, <2>4, <2>5
  <1>4. DOMAIN after = 1..Len(ledger) /\ after = [i \in 1..Len(ledger) |-> after[i]]
    BY <1>2 DEF applyReconciliation
  <1> HIDE DEF after
  <1>5. after \in Seq(RowType)
    <2>1. \A i \in 1..Len(ledger) : after[i] \in RowType
      BY <1>2, <1>3
    <2>2. after \in [1..Len(ledger) -> RowType]
      BY <1>4, <2>1
    <2> QED  BY <1>2, <2>2
  <1>6. Len(after) = Len(ledger)
    BY <1>2, <1>4, <1>5
  <1> QED  BY <1>5, <1>6 DEF after

LEMMA ApplyKeyTypes ==
    ASSUME KeyTypes, Apply
    PROVE  KeyTypes'
  <1>1. /\ pc = "apply" /\ pc' = "act"
        /\ ledger' = applyReconciliation(reading.win)
        /\ reading' = [NoReading EXCEPT !.balance = reading.balance,
                          !.spent = reading.spent, !.cost = reading.cost,
                          !.billing = reading.billing]
        /\ UNCHANGED <<mode, provider, secret, baseline, epochs, last, halted,
                       anomalies, events>>
    BY DEF Apply
  <1>2. /\ reading'.win = {} /\ reading'.delta = 0 /\ reading'.graded = FALSE
        /\ reading'.spent = reading.spent /\ reading'.cost = reading.cost
        /\ reading'.billing = reading.billing
    BY <1>1 DEF NoReading
  <1>3. /\ ledger' \in Seq(RowType) /\ Len(ledger') = Len(ledger)
    BY <1>1, Reconciled DEF KeyTypes, WindowTypes
  <1>4. ProviderTypes'
    BY <1>1 DEF KeyTypes, ProviderTypes, provider
  <1>5. WindowTypes'
    BY <1>2 DEF KeyTypes, WindowTypes
  <1>6. LedgerTypes'
    BY <1>1, <1>3 DEF KeyTypes, LedgerTypes
  <1>7. ControlTypes'
    BY <1>1 DEF KeyTypes, ControlTypes
  <1> QED  BY <1>4, <1>5, <1>6, <1>7 DEF KeyTypes

\* What a tick that ends leaves of its reading.
LEMMA ReadingEnds ==
    ASSUME KeyTypes, reading' \in {reading, NoReading}, UNCHANGED ledger
    PROVE  WindowTypes'
  <1>1. CASE reading' = reading
    BY <1>1 DEF KeyTypes, WindowTypes
  <1>2. CASE reading' = NoReading
    <2>1. /\ reading'.win = {} /\ reading'.delta = 0 /\ reading'.graded = FALSE
          /\ reading'.spent = 0 /\ reading'.cost = 0 /\ reading'.billing = "null"
      BY <1>2 DEF NoReading
    <2> QED  BY <2>1 DEF WindowTypes, Grades
  <1> QED  BY <1>1, <1>2

LEMMA AppendedType ==
    ASSUME KeyTypes, ReadingTypes, last' \in {last, appended}
    PROVE  last'.billing \in Grades /\ last'.balance \in Int
  <1>1. appended.billing = reading.billing /\ appended.balance = reading.balance
    BY DEF appended
  <1>2. reading.balance \in Int
    BY DEF ReadingTypes
  <1> QED  BY <1>1, <1>2 DEF KeyTypes, WindowTypes, ControlTypes

LEMMA ContinueTypes ==
    ASSUME pc = "act", Continue
    PROVE  reading' \in {reading, NoReading} /\ pc' \in {"idle", "act"}
  BY DEF Continue, EndTick

LEMMA ActKeyTypes ==
    ASSUME KeyTypes, ReadingTypes, WriteRow \/ Mint \/ RevokeKey
    PROVE  KeyTypes'
  <1>1. /\ pc = "act" /\ Continue
        /\ UNCHANGED <<mode, balance, spent, owed, foreign, ledger, epochs, anomalies>>
    BY DEF WriteRow, Mint, RevokeKey, Doing, provider
  <1>2. WindowTypes'
    BY <1>1, ContinueTypes, ReadingEnds
  <1>3. LedgerTypes'
    BY <1>1 DEF KeyTypes, LedgerTypes
  <1>4. ControlTypes'
    <2>1. last' \in {last, appended} /\ halted' \in BOOLEAN
      BY DEF WriteRow, Mint, RevokeKey, KeyTypes, ControlTypes
    <2> QED  BY <1>1, <2>1, AppendedType, ContinueTypes DEF KeyTypes, ControlTypes
  <1>5. ProviderTypes'
    <2>1. events' \in Nat
      <3>1. CASE UNCHANGED events
        BY <3>1 DEF KeyTypes, ProviderTypes
      <3>2. CASE Event
        BY <3>2, EventType
      <3> QED  BY <3>1, <3>2 DEF WriteRow, Mint, RevokeKey
    <2>2. key' \in BOOLEAN /\ secret' \in Secrets
      BY DEF WriteRow, Mint, RevokeKey, KeyTypes, ProviderTypes, Secrets, provider
    <2>3. baseline' \in Baseline
      <3>1. CASE UNCHANGED baseline
        BY <3>1 DEF KeyTypes, ProviderTypes
      <3>2. CASE baseline' = NoBaseline
        BY <3>2 DEF NoBaseline, Baseline, Secrets
      <3>3. CASE baseline' = [of |-> "current", spent |-> reading.spent,
                              cost |-> reading.cost]
        BY <3>3 DEF Baseline, Secrets, KeyTypes, WindowTypes
      <3> QED  BY <3>1, <3>2, <3>3 DEF WriteRow, Mint, RevokeKey
    <2> QED  BY <1>1, <2>1, <2>2, <2>3 DEF KeyTypes, ProviderTypes
  <1> QED  BY <1>2, <1>3, <1>4, <1>5 DEF KeyTypes

LEMMA BootKeyTypes ==
    ASSUME KeyTypes, Boot
    PROVE  KeyTypes'
  <1>1. /\ pc' = "idle" /\ halted' \in BOOLEAN
        /\ UNCHANGED <<mode, provider, secret, baseline, ledger, epochs, last,
                       anomalies, reading, events>>
    BY DEF Boot
  <1>2. ProviderTypes' /\ LedgerTypes' /\ ControlTypes'
    BY <1>1 DEF KeyTypes, ProviderTypes, LedgerTypes, ControlTypes, provider
  <1>3. WindowTypes'
    BY <1>1, ReadingEnds
  <1> QED  BY <1>2, <1>3 DEF KeyTypes

\* What an interrupted call may have done.
LEMMA InterruptedTypes ==
    ASSUME KeyTypes, ReadingTypes, Interrupted
    PROVE  /\ key' \in BOOLEAN /\ secret' \in Secrets /\ baseline' \in Baseline
           /\ ledger' \in Seq(RowType) /\ Len(ledger') = Len(ledger)
           /\ last'.billing \in Grades /\ last'.balance \in Int
  <1>0. /\ key \in BOOLEAN /\ secret \in Secrets /\ baseline \in Baseline
        /\ ledger \in Seq(RowType)
        /\ last.billing \in Grades /\ last.balance \in Int
    BY DEF KeyTypes, ProviderTypes, LedgerTypes, ControlTypes
  <1>1. CASE UNCHANGED <<key, secret, baseline, ledger, last>>
    BY <1>0, <1>1
  <1>2. CASE /\ \E done \in IF reading.graded THEN SUBSET reading.win
                            ELSE {{}, reading.win} :
                    ledger' = applyReconciliation(done)
             /\ UNCHANGED <<key, secret, baseline, last>>
    <2>1. PICK done : /\ done \subseteq reading.win
                      /\ ledger' = applyReconciliation(done)
      BY <1>2
    <2>2. done \subseteq DOMAIN ledger
      BY <2>1 DEF KeyTypes, WindowTypes
    <2> QED  BY <1>0, <1>2, <2>1, <2>2, Reconciled
  <1>3. CASE /\ last' \in {last, appended}
             /\ UNCHANGED <<key, secret, baseline, ledger>>
    BY <1>0, <1>3, AppendedType
  <1>4. CASE /\ key' = TRUE
             /\ secret' = Outdated(secret)
             /\ baseline' = [baseline EXCEPT !.of = Outdated(@)]
             /\ UNCHANGED <<ledger, last>>
    BY <1>0, <1>4, OutdatedType
  <1> QED  BY <1>1, <1>2, <1>3, <1>4 DEF Interrupted

LEMMA FailKeyTypes ==
    ASSUME KeyTypes, ReadingTypes, TickFails \/ Dies
    PROVE  KeyTypes'
  <1>1. /\ events' \in Nat /\ reading' = NoReading
        /\ pc' \in {"idle", "down"} /\ halted' \in BOOLEAN /\ anomalies' \in Nat
        /\ UNCHANGED <<mode, balance, spent, owed, epochs, foreign>>
    <2>1. Event
      BY DEF TickFails, Dies
    <2>2. events' \in Nat
      BY <2>1, EventType
    <2>3. CASE TickFails
      BY <2>2, <2>3 DEF TickFails, EndTick, KeyTypes, ControlTypes
    <2>4. CASE Dies
      BY <2>2, <2>4 DEF Dies
    <2> QED  BY <2>3, <2>4
  <1>2. /\ key' \in BOOLEAN /\ secret' \in Secrets /\ baseline' \in Baseline
        /\ ledger' \in Seq(RowType) /\ Len(ledger') = Len(ledger)
        /\ last'.billing \in Grades /\ last'.balance \in Int
    <2>1. CASE Interrupted
      BY <2>1, InterruptedTypes
    <2>2. CASE /\ \/ /\ key' = FALSE
                     /\ secret' = Outdated(secret)
                     /\ baseline' = [baseline EXCEPT !.of = Outdated(@)]
                  \/ UNCHANGED <<key, secret, baseline>>
               /\ UNCHANGED <<ledger, last>>
      BY <2>2, OutdatedType DEF KeyTypes, ProviderTypes, LedgerTypes, ControlTypes
    <2> QED  BY <2>1, <2>2 DEF TickFails, Dies
  <1>3. ProviderTypes'
    BY <1>1, <1>2 DEF KeyTypes, ProviderTypes
  <1>4. WindowTypes'
    <2>1. /\ reading'.win = {} /\ reading'.delta = 0 /\ reading'.graded = FALSE
          /\ reading'.spent = 0 /\ reading'.cost = 0 /\ reading'.billing = "null"
      BY <1>1 DEF NoReading
    <2> QED  BY <2>1 DEF WindowTypes, Grades
  <1>5. LedgerTypes'
    BY <1>1, <1>2 DEF KeyTypes, LedgerTypes
  <1>6. ControlTypes'
    BY <1>1, <1>2 DEF ControlTypes
  <1> QED  BY <1>3, <1>4, <1>5, <1>6 DEF KeyTypes

-----------------------------------------------------------------------------
(***************************************************************************)
(* The types of the lanes.                                                 *)
(***************************************************************************)

Dive == [at : {"idle", "call", "answer"}, launch : Nat, max : Nat, bill : Nat]

\* A dive that runs has passed the gate, and its calls cost no more than it may
\* and the last step's overrun.
Sound(d) ==
    /\ d \in Dive
    /\ d.at = "idle" => d.max = 0 /\ d.bill = 0
    /\ d.at # "idle" => /\ d.max \in 1..CapPerRun
                        /\ d.launch \in Launches
                        /\ d.bill <= d.max + StepOver
    /\ d.at = "call" => d.bill = 0

LaneTypes ==
    /\ DOMAIN lane = Lanes /\ lane = [l \in Lanes |-> lane[l]]
    /\ \A l \in Lanes : Sound(lane[l])
    /\ todo \in Seq(Launches)
    /\ jobs \in Nat /\ hidden \in Nat
    /\ reported \subseteq Launches

\* What a step of one lane leaves to show.
LEMMA OneLane ==
    ASSUME LaneTypes, NEW l \in Lanes, NEW d, Sound(d),
           lane' = [lane EXCEPT ![l] = d],
           todo' \in Seq(Launches), jobs' \in Nat, hidden' \in Nat,
           reported' \subseteq Launches
    PROVE  LaneTypes'
  <1>1. DOMAIN lane' = Lanes /\ lane' = [m \in Lanes |-> lane'[m]]
    BY DEF LaneTypes
  <1>2. \A m \in Lanes : Sound(lane'[m])
    <2>1. \A m \in Lanes : lane'[m] = d \/ lane'[m] = lane[m]
      BY DEF LaneTypes
    <2> QED  BY <2>1 DEF LaneTypes
  <1> QED  BY <1>1, <1>2 DEF LaneTypes, Sound

LEMMA NoDiveSound == Sound(NoDive)
  BY DEF Sound, NoDive, Dive

LEMMA InitLanes == DInit => LaneTypes
  <1> SUFFICES ASSUME DInit PROVE LaneTypes
    OBVIOUS
  <1>1. \A l \in Lanes : lane[l] = NoDive
    BY DEF DInit
  <1> QED  BY <1>1, NoDiveSound, DeepDiveAssumption DEF DInit, LaneTypes

-----------------------------------------------------------------------------
(***************************************************************************)
(* The gate: a run may cost no more than what the ledger leaves of the cap.*)
(***************************************************************************)

LEMMA CapIs ==
    ASSUME KeyTypes, NEW cap \in dynamicDailyCapUsd(spendableUsd)
    PROVE  cap \in Nat /\ cap <= DailyCap
  <1>1. spendableUsd \in Int
    BY KeyLifecycleAssumption, DeepDiveAssumption
       DEF spendableUsd, KeyTypes, ControlTypes
  <1>2. DailyCap \in Nat
    BY DeepDiveAssumption
  <1>3. CASE cap = DailyCap
    BY <1>2, <1>3
  <1>4. ASSUME NEW t \in Trailing, cap = dailyDeepdiveBudget(t, spendableUsd)
        PROVE  cap \in Nat /\ cap <= DailyCap
    <2> DEFINE left == spendableUsd
               half == t \div 2
    <2>1. half \in Int /\ left \in Int
      BY <1>1, DeepDiveAssumption
    <2>2. cap = MaxOf(0, MinOf(DailyCap, MinOf(half, left)))
      BY <1>4 DEF dailyDeepdiveBudget
    <2> HIDE DEF half, left
    <2> QED  BY <1>2, <2>1, <2>2 DEF MaxOf, MinOf
  <1> QED  BY <1>3, <1>4 DEF dynamicDailyCapUsd

LEMMA TotalType ==
    /\ KeyTypes => totalSpendUsd \in Nat
    /\ KeyTypes' => totalSpendUsd' \in Nat
  BY TotalIsCost, CostType DEF KeyTypes, LedgerTypes

LEMMA GateMax ==
    ASSUME KeyTypes, NEW cap \in dynamicDailyCapUsd(spendableUsd), NEW billing
    PROVE  LET max == maxRunCostUsd(cap, billing)
           IN  /\ max \in Nat /\ max <= CapPerRun
               /\ max > 0 => max <= DailyCap - totalSpendUsd
  <1> DEFINE max == maxRunCostUsd(cap, billing)
             total == totalSpendUsd
             left == spendableUsd
             today == spentToday
  <1>1. cap \in Nat /\ cap <= DailyCap
    BY CapIs
  <1>2. left \in Int
    BY KeyLifecycleAssumption, DeepDiveAssumption
       DEF spendableUsd, KeyTypes, ControlTypes
  <1>3. total \in Nat
    BY TotalType
  <1>4. today \in Nat /\ total <= today
    <2>1. epochs.today \in Nat
      BY DEF KeyTypes, LedgerTypes, Epochs
    <2>2. today = MaxOf(total, epochs.today)
      BY DEF spentToday
    <2> HIDE DEF today, total
    <2> QED  BY <1>3, <2>1, <2>2 DEF MaxOf
  <1>5. DailyCap \in Nat /\ CapPerRun \in Nat
    BY DeepDiveAssumption
  <1>6. \/ max = 0
        \/ max = MaxOf(0, MinOf(CapPerRun, MinOf(cap - today, left)))
    BY DEF maxRunCostUsd
  <1> HIDE DEF max, total, left, today
  <1>7. max \in Nat /\ max <= CapPerRun /\ (max > 0 => max <= DailyCap - total)
    BY <1>1, <1>2, <1>3, <1>4, <1>5, <1>6 DEF MaxOf, MinOf
  <1> QED  BY <1>7 DEF max, total

\* A gate that opens.
Opens(l, n, max) ==
    /\ max \in 1..CapPerRun
    /\ max <= DailyCap - totalSpendUsd
    /\ lane' = [lane EXCEPT ![l] =
                   [at |-> "call", launch |-> n, max |-> max, bill |-> 0]]

LEMMA GateIs ==
    ASSUME KeyTypes, NEW l \in Lanes, NEW n \in Launches, NEW rest \in Seq(Launches),
           Gate(l, n, rest)
    PROVE  /\ todo' \in Seq(Launches)
           /\ Free(l) \/ \E max \in 1..CapPerRun : Opens(l, n, max)
  <1>1. PICK cap \in dynamicDailyCapUsd(spendableUsd), billing \in billingSeen :
            LET max == maxRunCostUsd(cap, billing)
            IN  /\ todo' = IF l = "sweep" /\ max = 0 THEN <<>> ELSE rest
                /\ lane' = [lane EXCEPT ![l] =
                               IF max = 0 THEN NoDive
                               ELSE [at |-> "call", launch |-> n, max |-> max,
                                     bill |-> 0]]
    BY DEF Gate
  <1> DEFINE max == maxRunCostUsd(cap, billing)
  <1>2. todo' \in Seq(Launches)
    <2>1. todo' = IF l = "sweep" /\ max = 0 THEN <<>> ELSE rest
      BY <1>1
    <2> HIDE DEF max
    <2>2. todo' = <<>> \/ todo' = rest
      BY <2>1
    <2>3. <<>> \in Seq(Launches)
      OBVIOUS
    <2> QED  BY <2>2, <2>3, Zenon
  <1>3. lane' = [lane EXCEPT ![l] =
                    IF max = 0 THEN NoDive
                    ELSE [at |-> "call", launch |-> n, max |-> max, bill |-> 0]]
    BY <1>1
  <1>4. max \in Nat /\ max <= CapPerRun /\ (max > 0 => max <= DailyCap - totalSpendUsd)
    BY GateMax
  <1> HIDE DEF max
  <1>5. CASE max = 0
    <2>1. lane' = [lane EXCEPT ![l] = NoDive]
      BY <1>3, <1>5
    <2> QED  BY <1>2, <2>1 DEF Free
  <1>6. CASE max # 0
    <2>1. max \in 1..CapPerRun /\ max <= DailyCap - totalSpendUsd
      BY <1>4, <1>6, DeepDiveAssumption
    <2>2. lane' = [lane EXCEPT ![l] =
                      [at |-> "call", launch |-> n, max |-> max, bill |-> 0]]
      BY <1>3, <1>6
    <2>3. Opens(l, n, max)
      BY <2>1, <2>2 DEF Opens
    <2> QED  BY <1>2, <2>1, <2>3
  <1> QED  BY <1>5, <1>6

LEMMA OpensSound ==
    ASSUME NEW n \in Launches, NEW max \in 1..CapPerRun
    PROVE  Sound([at |-> "call", launch |-> n, max |-> max, bill |-> 0])
  <1> DEFINE d == [at |-> "call", launch |-> n, max |-> max, bill |-> 0]
  <1>1. max \in Nat /\ n \in Nat /\ 0 <= max + StepOver
    BY DeepDiveAssumption
  <1>2. d \in Dive
    BY <1>1 DEF Dive
  <1>3. d.at = "call" /\ d.launch = n /\ d.max = max /\ d.bill = 0
    OBVIOUS
  <1> HIDE DEF d
  <1>4. Sound(d)
    BY <1>1, <1>2, <1>3 DEF Sound
  <1> QED  BY <1>4 DEF d

LEMMA GateLanes ==
    ASSUME LaneTypes, KeyTypes, NEW l \in Lanes, NEW n \in Launches,
           NEW rest \in Seq(Launches), Gate(l, n, rest),
           jobs' \in Nat, UNCHANGED <<hidden, reported>>
    PROVE  LaneTypes'
  <1>1. todo' \in Seq(Launches) /\ hidden' \in Nat /\ reported' \subseteq Launches
    BY GateIs DEF LaneTypes
  <1>2. CASE Free(l)
    BY <1>1, <1>2, NoDiveSound, OneLane DEF Free
  <1>3. ASSUME NEW max \in 1..CapPerRun, Opens(l, n, max) PROVE LaneTypes'
    <2> DEFINE d == [at |-> "call", launch |-> n, max |-> max, bill |-> 0]
    <2>1. Sound(d)
      BY OpensSound
    <2>2. lane' = [lane EXCEPT ![l] = d]
      BY <1>3 DEF Opens
    <2> HIDE DEF d
    <2> QED  BY <1>1, <2>1, <2>2, OneLane
  <1> QED  BY <1>2, <1>3, GateIs

\* sweepDeepdiveEligible's launches are launches.
LEMMA SweepReads ==
    ASSUME LaneTypes, SweepStarts
    PROVE  todo' \in Seq(Launches)
  <1> DEFINE S == Launches \ reported
             s == Ascending(S)
             n == MinOf(SweepLimit, Cardinality(S))
  <1>1. S \in SUBSET Int /\ IsFiniteSet(S)
    <2>1. IsFiniteSet(Launches) /\ S \in SUBSET Launches
      BY DeepDiveAssumption, Zenon
    <2>2. IsFiniteSet(S)
      <3> HIDE DEF S
      <3> QED  BY <2>1, FS_Subset
    <2>3. Launches \subseteq Nat
      BY DeepDiveAssumption, Zenon
    <2> HIDE DEF S
    <2>4. \A x \in S : x \in Int
      BY <2>1, <2>3
    <2> QED  BY <2>2, <2>4
  <1>2. s \in Seq(S) /\ Len(s) = Cardinality(S)
    <2> HIDE DEF S
    <2> QED  BY <1>1, AscendingSeq
  <1>3. Cardinality(S) \in Nat
    <2> HIDE DEF S
    <2> QED  BY <1>1, FS_CardinalityType
  <1>4. n \in Nat /\ n <= Cardinality(S)
    <2> DEFINE c == Cardinality(S)
    <2>1. c \in Nat /\ SweepLimit \in Nat
      BY <1>3, DeepDiveAssumption
    <2> HIDE DEF c
    <2>2. MinOf(SweepLimit, c) \in Nat /\ MinOf(SweepLimit, c) <= c
      BY <2>1 DEF MinOf
    <2> QED  BY <2>2 DEF c
  <1>5. todo' = SubSeq(s, 1, n)
    BY DEF SweepStarts
  <1>6. S \subseteq Launches
    OBVIOUS
  <1> HIDE DEF S, s, n
  <1>7. SubSeq(s, 1, n) \in Seq(S)
    <2>1. \A i \in 1..n : s[i] \in S
      BY <1>2, <1>3, <1>4
    <2>2. SubSeq(s, 1, n) = [i \in 1..n |-> s[i]]
      BY <1>2, <1>3, <1>4
    <2> QED  BY <1>4, <2>1, <2>2
  <1> QED  BY <1>5, <1>6, <1>7

LEMMA SweepLanes ==
    ASSUME LaneTypes, KeyTypes, Sweep
    PROVE  LaneTypes'
  <1>1. /\ todo \in Seq(Launches) /\ todo # <<>>
        /\ UNCHANGED <<jobs, reported, hidden>>
    BY DEF Sweep, LaneTypes
  <1>2. Head(todo) \in Launches /\ Tail(todo) \in Seq(Launches)
    BY <1>1
  <1>3. jobs' \in Nat
    BY <1>1 DEF LaneTypes
  <1>4. CASE todo' = Tail(todo) /\ UNCHANGED lane
    BY <1>1, <1>2, <1>4 DEF LaneTypes, Sound
  <1>5. CASE Gate("sweep", Head(todo), Tail(todo))
    <2>1. "sweep" \in Lanes
      BY DEF Lanes
    <2> QED  BY <1>1, <1>2, <1>3, <1>5, <2>1, GateLanes
  <1> QED  BY <1>4, <1>5 DEF Sweep

LEMMA JobLanes ==
    ASSUME LaneTypes, KeyTypes, Job
    PROVE  LaneTypes'
  <1>1. jobs' \in Nat /\ UNCHANGED <<hidden, reported>> /\ todo \in Seq(Launches)
    BY DEF Job, LaneTypes
  <1>2. PICK n \in Launches : Gate("queue", n, todo)
    BY DEF Job
  <1>3. "queue" \in Lanes
    BY DEF Lanes
  <1> QED  BY <1>1, <1>2, <1>3, GateLanes

LEMMA InvokeLanes ==
    ASSUME LaneTypes, NEW l \in Lanes, Invoke(l)
    PROVE  LaneTypes'
  <1>1. PICK c \in 1..(lane[l].max + StepOver) :
            lane' = [lane EXCEPT ![l].bill = c, ![l].at = "answer"]
    BY DEF Invoke
  <1> DEFINE d == [lane[l] EXCEPT !.bill = c, !.at = "answer"]
  <1>2. lane[l] \in Dive /\ lane[l].at = "call" /\ Sound(lane[l])
    BY DEF Invoke, LaneTypes, Sound
  <1>3. lane[l].max \in 1..CapPerRun /\ lane[l].launch \in Launches
    BY <1>2 DEF Sound
  <1>5. c \in Nat /\ c <= lane[l].max + StepOver
    BY <1>3, DeepDiveAssumption
  <1>6. d.at = "answer" /\ d.launch = lane[l].launch /\ d.max = lane[l].max /\ d.bill = c
    BY <1>2 DEF Dive
  <1>7. d \in Dive
    BY <1>2, <1>5 DEF Dive
  <1>8. lane' = [lane EXCEPT ![l] = d]
    BY <1>1 DEF LaneTypes
  <1> HIDE DEF d
  <1>9. Sound(d)
    BY <1>3, <1>5, <1>6, <1>7 DEF Sound
  <1>10. UNCHANGED <<todo, jobs, reported, hidden>>
    BY DEF Invoke
  <1> QED  BY <1>8, <1>9, <1>10, OneLane DEF LaneTypes

LEMMA DiveFailsLanes ==
    ASSUME LaneTypes, NEW l \in Lanes, DiveFails(l)
    PROVE  LaneTypes'
  <1>1. Sound(lane[l]) /\ lane[l].at \in {"call", "answer"}
    BY DEF LaneTypes, DiveFails
  <1>2. lane[l].bill \in Nat /\ lane[l].launch \in Launches
    BY <1>1 DEF Sound, Dive
  <1>3. /\ lane' = [lane EXCEPT ![l] = NoDive]
        /\ hidden' = hidden + lane[l].bill
        /\ reported' = reported \/ reported' = reported \union {lane[l].launch}
        /\ UNCHANGED <<todo, jobs>>
    BY DEF DiveFails, Free
  <1>4. hidden' \in Nat /\ reported' \subseteq Launches
    BY <1>2, <1>3 DEF LaneTypes
  <1> QED  BY <1>3, <1>4, NoDiveSound, OneLane DEF LaneTypes

\* What the row carries of the bill.
LEMMA RecordIs ==
    ASSUME LaneTypes, NEW l \in Lanes, Record(l)
    PROVE  \E row \in RowType : /\ ledger' = Append(ledger, row)
                                /\ row.cost \in {0, lane[l].bill}
                                /\ hidden' = hidden + lane[l].bill - row.cost
  <1>1. PICK basis \in costBasis(lane[l].bill) :
          /\ ledger' = Append(ledger, [est |-> basis.est, cost |-> basis.cost,
                                       stamped |-> FALSE])
          /\ hidden' = hidden + lane[l].bill - basis.cost
    BY DEF Record
  <1> DEFINE row == [est |-> basis.est, cost |-> basis.cost, stamped |-> FALSE]
  <1>2. lane[l].bill \in Nat
    BY DEF LaneTypes, Sound, Dive
  <1>3. basis.est \in Nat /\ basis.cost \in Nat /\ basis.cost \in {0, lane[l].bill}
    BY <1>2 DEF costBasis
  <1>4. row \in RowType /\ row.cost = basis.cost
    BY <1>3 DEF RowType
  <1> QED  BY <1>1, <1>3, <1>4

LEMMA RecordLanes ==
    ASSUME LaneTypes, NEW l \in Lanes, Record(l)
    PROVE  LaneTypes'
  <1>1. Sound(lane[l]) /\ lane[l].at = "answer"
    BY DEF LaneTypes, Record
  <1>2. lane[l].bill \in Nat /\ lane[l].launch \in Launches
    BY <1>1 DEF Sound, Dive
  <1>3. /\ lane' = [lane EXCEPT ![l] = NoDive]
        /\ reported' = reported \union {lane[l].launch}
        /\ UNCHANGED <<todo, jobs>>
    BY DEF Record, Free
  <1>4. hidden' \in Nat
    BY <1>2, RecordIs DEF LaneTypes
  <1> QED  BY <1>2, <1>3, <1>4, NoDiveSound, OneLane DEF LaneTypes

LEMMA CrashLanes ==
    ASSUME LaneTypes, KeyTypes, KeyTypes', Crash
    PROVE  LaneTypes'
  <1>1. /\ lane' = [l \in Lanes |-> NoDive] /\ todo' = <<>>
        /\ jobs' \in {jobs, jobs + 1}
        /\ hidden' = hidden + lane["sweep"].bill + lane["queue"].bill
                         + MaxOf(0, totalSpendUsd - totalSpendUsd')
        /\ reported' \subseteq reported \union
               {lane[l].launch : l \in {m \in Lanes : lane[m].at = "answer"}}
    BY DEF Crash
  <1>2. \A l \in Lanes : /\ lane[l].bill \in Nat
                         /\ lane[l].at = "answer" => lane[l].launch \in Launches
    BY DEF LaneTypes, Sound, Dive
  <1>3. MaxOf(0, totalSpendUsd - totalSpendUsd') \in Nat
    <2> DEFINE a == totalSpendUsd
               b == totalSpendUsd'
    <2>1. a \in Nat /\ b \in Nat
      BY TotalType
    <2> HIDE DEF a, b
    <2>2. MaxOf(0, a - b) \in Nat
      BY <2>1 DEF MaxOf
    <2> QED  BY <2>2 DEF a, b
  <1>4. hidden' \in Nat
    <2>1. lane["sweep"].bill \in Nat /\ lane["queue"].bill \in Nat
      BY <1>2 DEF Lanes
    <2> DEFINE m == MaxOf(0, totalSpendUsd - totalSpendUsd')
    <2> HIDE DEF m
    <2>2. m \in Nat /\ hidden' = hidden + lane["sweep"].bill + lane["queue"].bill + m
      BY <1>1, <1>3 DEF m
    <2> QED  BY <2>1, <2>2 DEF LaneTypes
  <1>5. reported' \subseteq Launches
    BY <1>1, <1>2 DEF LaneTypes
  <1>6. jobs' \in Nat /\ todo' \in Seq(Launches)
    BY <1>1 DEF LaneTypes
  <1>7. /\ DOMAIN lane' = Lanes /\ lane' = [l \in Lanes |-> lane'[l]]
        /\ \A l \in Lanes : Sound(lane'[l])
    BY <1>1, NoDiveSound
  <1> QED  BY <1>4, <1>5, <1>6, <1>7 DEF LaneTypes, Sound

LEMMA LaneKeyTypes ==
    ASSUME KeyTypes, LaneTypes, NEW l \in Lanes, Lane(l)
    PROVE  KeyTypes'
  <1>1. lane[l].bill \in Nat
    BY DEF LaneTypes, Sound, Dive
  <1>2. CASE Invoke(l)
    <2>1. owed' \in Nat
      <3>1. PICK c \in 1..(lane[l].max + StepOver) : owed' = owed + c
        BY <1>2 DEF Invoke
      <3>2. c \in Nat
        BY DeepDiveAssumption DEF LaneTypes, Sound, Dive
      <3> QED  BY <3>1, <3>2 DEF KeyTypes, ProviderTypes
    <2>2. UNCHANGED <<mode, balance, spent, key, secret, baseline, ledger, epochs,
                      last, memory, events, foreign>>
      BY <1>2 DEF Invoke
    <2> QED  BY <2>1, <2>2 DEF KeyTypes, ProviderTypes, WindowTypes, LedgerTypes,
                               ControlTypes, memory
  <1>3. CASE DiveFails(l)
    <2>1. events' \in Nat
      BY <1>3, EventType DEF DiveFails
    <2>2. UNCHANGED <<mode, provider, secret, baseline, ledger, epochs, last, memory>>
      BY <1>3 DEF DiveFails
    <2> QED  BY <2>1, <2>2 DEF KeyTypes, ProviderTypes, WindowTypes, LedgerTypes,
                               ControlTypes, memory, provider
  <1>4. CASE Record(l)
    <2>1. PICK row \in RowType : ledger' = Append(ledger, row)
      BY <1>4, RecordIs
    <2>2. UNCHANGED <<mode, provider, secret, baseline, epochs, last, memory, events>>
      BY <1>4 DEF Record
    <2>3. ledger \in Seq(RowType) /\ Len(ledger) \in Nat
      BY DEF KeyTypes, LedgerTypes
    <2>4. /\ ledger' \in Seq(RowType) /\ Len(ledger') = Len(ledger) + 1
          /\ DOMAIN ledger \subseteq DOMAIN ledger'
      BY <2>1, <2>3
    <2>5. ProviderTypes' /\ ControlTypes'
      BY <2>2 DEF KeyTypes, ProviderTypes, ControlTypes, memory, provider
    <2>6. WindowTypes'
      BY <2>2, <2>4 DEF KeyTypes, WindowTypes, memory
    <2>7. LedgerTypes'
      <3>1. epochs' = epochs /\ epochs \in Epochs
        BY <2>2 DEF KeyTypes, LedgerTypes
      <3>2. epochs.prevMark <= epochs.mark /\ epochs.mark <= Len(ledger)
        BY DEF KeyTypes, LedgerTypes
      <3>3. epochs.mark \in Nat
        BY <3>1 DEF Epochs
      <3>4. epochs.mark <= Len(ledger')
        BY <2>3, <2>4, <3>2, <3>3
      <3> QED  BY <2>4, <3>1, <3>2, <3>4 DEF LedgerTypes
    <2> QED  BY <2>5, <2>6, <2>7 DEF KeyTypes
  <1> QED  BY <1>2, <1>3, <1>4 DEF Lane

LEMMA NextKeyTypes == KeyTypes /\ ReadingTypes /\ LaneTypes /\ [DNext]_allVars => KeyTypes'
  <1> SUFFICES ASSUME KeyTypes, ReadingTypes, LaneTypes, [DNext]_allVars PROVE KeyTypes'
    OBVIOUS
  <1>1. CASE External
    BY <1>1, ExternalKeyTypes
  <1>2. CASE Tick \/ TickFails
    BY <1>2, GradeKeyTypes, ApplyKeyTypes, ActKeyTypes, BootKeyTypes, FailKeyTypes DEF Tick
  <1>3. CASE SweepStarts \/ Sweep \/ Job \/ UNCHANGED allVars
    <2>1. UNCHANGED keyVars
      BY <1>3 DEF SweepStarts, Sweep, Job, allVars, vars, keyVars, provider
    <2> QED  BY <2>1, KeyTypesStutter
  <1>4. ASSUME NEW l \in Lanes, Lane(l) PROVE KeyTypes'
    BY <1>4, LaneKeyTypes
  <1>5. CASE Crash
    BY <1>5, FailKeyTypes DEF Crash
  <1> QED  BY <1>1, <1>2, <1>3, <1>4, <1>5 DEF DNext, Lifecycle

\* What the lifecycle's step hides of the ledger is an amount.
LEMMA Lowered ==
    ASSUME KeyTypes, KeyTypes'
    PROVE  /\ MaxOf(0, totalSpendUsd - totalSpendUsd') \in Nat
           /\ totalSpendUsd - totalSpendUsd' <= MaxOf(0, totalSpendUsd - totalSpendUsd')
  <1> DEFINE a == totalSpendUsd
             b == totalSpendUsd'
  <1>1. a \in Nat /\ b \in Nat
    BY TotalType
  <1> HIDE DEF a, b
  <1>2. MaxOf(0, a - b) \in Nat /\ a - b <= MaxOf(0, a - b)
    BY <1>1 DEF MaxOf
  <1> QED  BY <1>2 DEF a, b

LEMMA NextLanes ==
    KeyTypes /\ KeyTypes' /\ LaneTypes /\ [DNext]_allVars => LaneTypes'
  <1> SUFFICES ASSUME KeyTypes, KeyTypes', LaneTypes, [DNext]_allVars PROVE LaneTypes'
    OBVIOUS
  <1>1. CASE UNCHANGED dives
    BY <1>1 DEF dives, LaneTypes, Sound
  <1>2. CASE Lifecycle
    <2>1. UNCHANGED <<lane, todo, jobs, reported>>
      BY <1>2 DEF Lifecycle
    <2>2. hidden' \in Nat
      BY <1>2, Lowered DEF Lifecycle, LaneTypes
    <2> QED  BY <2>1, <2>2 DEF LaneTypes, Sound
  <1>3. CASE SweepStarts
    <2>1. UNCHANGED <<lane, jobs, reported, hidden>>
      BY <1>3 DEF SweepStarts
    <2> QED  BY <1>3, <2>1, SweepReads DEF LaneTypes, Sound
  <1>4. CASE Sweep \/ Job
    BY <1>4, SweepLanes, JobLanes
  <1>5. ASSUME NEW l \in Lanes, Lane(l) PROVE LaneTypes'
    BY <1>5, InvokeLanes, DiveFailsLanes, RecordLanes DEF Lane
  <1>6. CASE Crash
    BY <1>6, CrashLanes
  <1>7. CASE UNCHANGED allVars
    BY <1>1, <1>7 DEF allVars, dives
  <1> QED  BY <1>1, <1>2, <1>3, <1>4, <1>5, <1>6, <1>7 DEF DNext

\* The whole type invariant: every figure of the ledger, the epochs and the
\* provider stays a number, every run's allowance within the cap per run.
THEOREM TypesHold == DSpec => []DTypeOK
  <1>1. HaltInv /\ ReadingTypes /\ KeyTypes /\ LaneTypes => DTypeOK
    <2> SUFFICES ASSUME HaltInv, ReadingTypes, KeyTypes, LaneTypes PROVE DTypeOK
      OBVIOUS
    <2>1. /\ mode \in Modes
          /\ {balance, spent, owed, foreign, events, anomalies, jobs, hidden} \subseteq Nat
          /\ {key, halted} \subseteq BOOLEAN
      BY DEF KeyTypes, ProviderTypes, ControlTypes, LaneTypes
    <2>2. epochs.today \in Nat
      BY DEF KeyTypes, LedgerTypes, Epochs
    <2>3. {secret, baseline.of} \subseteq {"none", "current", "stale"}
      BY DEF KeyTypes, ProviderTypes, Baseline, Secrets
    <2>4. {state, last.state} \subseteq States
      BY DEF HaltInv, LoopTypes
    <2>5. {reading.billing, last.billing} \subseteq Billing \union {"null"}
      BY DEF KeyTypes, WindowTypes, ControlTypes, Grades
    <2>6. /\ ledger \in Seq(RowType)
          /\ epochs.prevMark <= epochs.mark /\ epochs.mark <= Len(ledger)
          /\ pc \in {"idle", "apply", "act", "down"}
          /\ reading.win \subseteq DOMAIN ledger
          /\ reported \subseteq Launches
      BY DEF KeyTypes, LedgerTypes, ControlTypes, WindowTypes, LaneTypes
    <2>7. \A l \in Lanes : /\ lane[l].at \in {"idle", "call", "answer"}
                           /\ lane[l].max \in IF lane[l].at = "idle" THEN {0}
                                              ELSE 1..CapPerRun
      BY DEF LaneTypes, Sound, Dive
    <2> QED  BY <2>1, <2>2, <2>3, <2>4, <2>5, <2>6, <2>7 DEF DTypeOK
  <1> QED  BY <1>1, InitHalt, NextHalt, InitReading, NextReading, InitKeyTypes,
              NextKeyTypes, InitLanes, NextLanes, PTL DEF DSpec

-----------------------------------------------------------------------------
(***************************************************************************)
(* The day's spend.  What the gate has let through and no call has cost    *)
(* yet counts as if it had been charged: with that the bound is inductive. *)
(***************************************************************************)

reserved(d) == IF d.at = "call" THEN d.max + StepOver ELSE 0

\* For dives d and e: what was charged is in the ledger, in a run that has not
\* recorded it yet, or hidden; and what may still be charged is within the bound.
Within(c, h, total, d, e) ==
    /\ c <= total + d.bill + e.bill + h
    /\ c - h + reserved(d) + reserved(e) <= DailyCap + CapPerRun + 2 * StepOver

SpendInv == Within(charged, hidden, totalSpendUsd, lane["sweep"], lane["queue"])

Other(l) == IF l = "sweep" THEN "queue" ELSE "sweep"

LEMMA DiveFigures ==
    /\ DailyCap \in Nat /\ CapPerRun \in Nat /\ StepOver \in Nat
    /\ \A d : Sound(d) => d.bill \in Nat /\ d.max \in Nat /\ reserved(d) \in Nat
  <1>1. DailyCap \in Nat /\ CapPerRun \in Nat /\ StepOver \in Nat
    BY DeepDiveAssumption
  <1>2. ASSUME NEW d, Sound(d)
        PROVE  d.bill \in Nat /\ d.max \in Nat /\ reserved(d) \in Nat
    <2>1. d.bill \in Nat /\ d.max \in Nat
      BY <1>2 DEF Sound, Dive
    <2> QED  BY <1>1, <2>1 DEF reserved
  <1> QED  BY <1>1, <1>2

\* It is the same whichever lane comes first.
LEMMA Swap ==
    ASSUME NEW l \in Lanes, NEW f, \A m \in Lanes : Sound(f[m]),
           NEW c \in Int, NEW h \in Int, NEW total \in Int
    PROVE  /\ Other(l) \in Lanes /\ Other(l) # l
           /\ Within(c, h, total, f["sweep"], f["queue"]) <=>
                  Within(c, h, total, f[l], f[Other(l)])
  <1>1. "sweep" \in Lanes /\ "queue" \in Lanes /\ (l = "sweep" \/ l = "queue")
    BY DEF Lanes
  <1> DEFINE d == f["sweep"]
             e == f["queue"]
  <1>2. /\ d.bill \in Nat /\ reserved(d) \in Nat
        /\ e.bill \in Nat /\ reserved(e) \in Nat
        /\ DailyCap \in Nat /\ CapPerRun \in Nat /\ StepOver \in Nat
    BY <1>1, DiveFigures
  <1> HIDE DEF d, e
  <1>3. Within(c, h, total, d, e) <=> Within(c, h, total, e, d)
    BY <1>2 DEF Within
  <1>4. CASE l = "sweep"
    BY <1>1, <1>4 DEF Other
  <1>5. CASE l = "queue"
    BY <1>1, <1>3, <1>5 DEF Other, d, e
  <1> QED  BY <1>1, <1>4, <1>5

LEMMA Amounts ==
    /\ KeyTypes => charged \in Int
    /\ KeyTypes' => charged' \in Int
  BY DEF charged, KeyTypes, ProviderTypes

\* A step of lane l, which leaves the other lane alone.
LEMMA LaneStep ==
    ASSUME KeyTypes, KeyTypes', LaneTypes, LaneTypes', NEW l \in Lanes, NEW d,
           lane' = [lane EXCEPT ![l] = d], SpendInv,
           ASSUME NEW e, Sound(e), Sound(lane[l]), Sound(d),
                  Within(charged, hidden, totalSpendUsd, lane[l], e)
           PROVE  Within(charged', hidden', totalSpendUsd', d, e)
    PROVE  SpendInv'
  <1> DEFINE o == Other(l)
  <1>1. charged \in Int /\ totalSpendUsd \in Int /\ hidden \in Int
    BY Amounts, TotalType DEF LaneTypes
  <1>2. charged' \in Int /\ totalSpendUsd' \in Int /\ hidden' \in Int
    BY Amounts, TotalType DEF LaneTypes
  <1>3. /\ \A m \in Lanes : Sound(lane[m])
        /\ \A m \in Lanes : Sound(lane'[m])
    BY DEF LaneTypes, Sound
  <1>4. o \in Lanes /\ o # l /\ Within(charged, hidden, totalSpendUsd, lane[l], lane[o])
    BY <1>1, <1>3, Swap DEF SpendInv
  <1>5. lane'[l] = d /\ lane'[o] = lane[o]
    BY <1>4 DEF LaneTypes
  <1>6. Sound(lane[l]) /\ Sound(lane[o]) /\ Sound(d)
    BY <1>3, <1>4, <1>5
  <1>7. Within(charged', hidden', totalSpendUsd', d, lane[o])
    BY <1>4, <1>6
  <1>8. Within(charged', hidden', totalSpendUsd', lane'[l], lane'[o])
    BY <1>5, <1>7
  <1> HIDE DEF o
  <1>9. Within(charged', hidden', totalSpendUsd', lane'["sweep"], lane'["queue"])
    BY <1>2, <1>3, <1>8, Swap DEF o
  <1> QED  BY <1>9 DEF SpendInv

\* A step that touches no lane, and hides at least what it lowers the ledger by.
LEMMA QuietStep ==
    ASSUME KeyTypes, KeyTypes', LaneTypes, LaneTypes', UNCHANGED lane, SpendInv,
           charged' = charged, hidden' >= hidden,
           hidden' >= hidden + (totalSpendUsd - totalSpendUsd')
    PROVE  SpendInv'
  <1> DEFINE d == lane["sweep"]
             e == lane["queue"]
             a == totalSpendUsd
             b == totalSpendUsd'
  <1>1. charged \in Int /\ a \in Int /\ b \in Int /\ hidden \in Int /\ hidden' \in Int
    BY Amounts, TotalType DEF LaneTypes
  <1>2. /\ d.bill \in Nat /\ reserved(d) \in Nat
        /\ e.bill \in Nat /\ reserved(e) \in Nat
        /\ DailyCap \in Nat /\ CapPerRun \in Nat /\ StepOver \in Nat
    BY DiveFigures DEF LaneTypes, Lanes
  <1>3. Within(charged, hidden, a, d, e)
    BY DEF SpendInv
  <1>4. hidden' >= hidden + (a - b) /\ hidden' >= hidden
    OBVIOUS
  <1>5. SpendInv' <=> Within(charged', hidden', b, d, e)
    BY DEF SpendInv
  <1> HIDE DEF d, e, a, b
  <1>6. Within(charged, hidden', b, d, e)
    BY <1>1, <1>2, <1>3, <1>4 DEF Within
  <1> QED  BY <1>5, <1>6

\* The ledger alone decides the sum.
LEMMA SameTotal == UNCHANGED ledger => totalSpendUsd' = totalSpendUsd
  BY TotalIsCost

\* The gate's comparison with the ledger: what was charged and is not in the
\* ledger is the other lane's, and so is what may still be charged.
LEMMA GateWithin ==
    ASSUME NEW c \in Int, NEW h \in Int, NEW total \in Nat, NEW d, NEW e, NEW n,
           Sound(d), Sound(e), d.at = "idle", Within(c, h, total, d, e),
           NEW max \in 1..CapPerRun, max <= DailyCap - total
    PROVE  Within(c, h, total,
                  [at |-> "call", launch |-> n, max |-> max, bill |-> 0], e)
  <1> DEFINE r == [at |-> "call", launch |-> n, max |-> max, bill |-> 0]
             bound == DailyCap + CapPerRun + 2 * StepOver
  <1>1. /\ e.bill \in Nat /\ e.max \in Nat /\ max \in Nat
        /\ DailyCap \in Nat /\ CapPerRun \in Nat /\ StepOver \in Nat
    BY DiveFigures
  <1>2. d.bill = 0
    BY DEF Sound
  <1>3. reserved(r) = max + StepOver /\ r.bill = 0
    BY DEF reserved
  <1>4. c <= total + e.bill + h
    BY <1>1, <1>2 DEF Within
  <1> HIDE DEF r
  <1>5. c - h + (max + StepOver) + reserved(e) <= bound
    <2>1. CASE e.at = "call"
      <3>1. e.bill = 0 /\ e.max <= CapPerRun /\ reserved(e) = e.max + StepOver
        BY <1>1, <2>1 DEF Sound, reserved
      <3> QED  BY <1>1, <1>4, <3>1
    <2>2. CASE e.at # "call"
      <3>1. reserved(e) = 0 /\ e.bill <= CapPerRun + StepOver
        BY <1>1, <2>2 DEF Sound, reserved, Dive
      <3> QED  BY <1>1, <1>4, <3>1
    <2> QED  BY <2>1, <2>2
  <1>6. Within(c, h, total, r, e)
    BY <1>1, <1>3, <1>4, <1>5 DEF Within
  <1> QED  BY <1>6 DEF r

LEMMA GateSpend ==
    ASSUME KeyTypes, KeyTypes', LaneTypes, LaneTypes', SpendInv,
           NEW l \in Lanes, NEW n \in Launches, NEW rest \in Seq(Launches),
           Gate(l, n, rest), lane[l].at = "idle",
           UNCHANGED <<vars, hidden>>
    PROVE  SpendInv'
  <1>1. charged' = charged /\ totalSpendUsd' = totalSpendUsd /\ hidden' = hidden
    BY SameTotal DEF vars, charged
  <1>2. charged \in Int /\ totalSpendUsd \in Nat /\ hidden \in Int
    BY Amounts, TotalType DEF LaneTypes
  <1>3. CASE Free(l)
    <2>1. ASSUME NEW e, Sound(e), Sound(lane[l]), Sound(NoDive),
                 Within(charged, hidden, totalSpendUsd, lane[l], e)
          PROVE  Within(charged', hidden', totalSpendUsd', NoDive, e)
      <3>1. /\ lane[l].bill = 0 /\ reserved(lane[l]) = 0
            /\ NoDive.bill = 0 /\ reserved(NoDive) = 0
        BY <2>1 DEF Sound, reserved, NoDive
      <3> QED  BY <1>1, <2>1, <3>1 DEF Within
    <2>2. lane' = [lane EXCEPT ![l] = NoDive]
      BY <1>3 DEF Free
    <2> QED  BY <2>1, <2>2, LaneStep
  <1>4. ASSUME NEW max \in 1..CapPerRun, Opens(l, n, max) PROVE SpendInv'
    <2> DEFINE r == [at |-> "call", launch |-> n, max |-> max, bill |-> 0]
    <2>1. ASSUME NEW e, Sound(e), Sound(lane[l]), Sound(r),
                 Within(charged, hidden, totalSpendUsd, lane[l], e)
          PROVE  Within(charged', hidden', totalSpendUsd', r, e)
      <3>1. max <= DailyCap - totalSpendUsd
        BY <1>4 DEF Opens
      <3>2. Within(charged, hidden, totalSpendUsd, r, e)
        BY <1>2, <2>1, <3>1, GateWithin
      <3> HIDE DEF r
      <3> QED  BY <1>1, <3>2
    <2>2. lane' = [lane EXCEPT ![l] = r]
      BY <1>4 DEF Opens
    <2> HIDE DEF r
    <2> QED  BY <2>1, <2>2, LaneStep
  <1> QED  BY <1>3, <1>4, GateIs

LEMMA InvokeSpend ==
    ASSUME KeyTypes, KeyTypes', LaneTypes, LaneTypes', SpendInv,
           NEW l \in Lanes, Invoke(l)
    PROVE  SpendInv'
  <1>1. PICK c \in 1..(lane[l].max + StepOver) :
            /\ lane' = [lane EXCEPT ![l].bill = c, ![l].at = "answer"]
            /\ owed' = owed + c
    BY DEF Invoke
  <1>2. UNCHANGED <<spent, foreign, ledger, hidden>> /\ lane[l].at = "call"
    BY DEF Invoke
  <1>3. Sound(lane[l])
    BY DEF LaneTypes
  <1>4. c \in Nat /\ c <= lane[l].max + StepOver /\ lane[l].max \in Nat /\ StepOver \in Nat
    BY <1>3, DiveFigures
  <1>5. charged' = charged + c
    BY <1>1, <1>2, <1>4 DEF charged, KeyTypes, ProviderTypes
  <1>6. totalSpendUsd' = totalSpendUsd
    BY <1>2, SameTotal
  <1>7. charged \in Int /\ totalSpendUsd \in Int /\ hidden \in Int
    BY Amounts, TotalType DEF LaneTypes
  <1> DEFINE d == [lane[l] EXCEPT !.bill = c, !.at = "answer"]
  <1>8. d.bill = c /\ d.at = "answer"
    BY <1>3 DEF Sound, Dive
  <1>9. lane' = [lane EXCEPT ![l] = d]
    BY <1>1 DEF LaneTypes
  <1> HIDE DEF d
  <1>10. ASSUME NEW e, Sound(e), Sound(lane[l]), Sound(d),
                Within(charged, hidden, totalSpendUsd, lane[l], e)
         PROVE  Within(charged', hidden', totalSpendUsd', d, e)
    <2>1. e.bill \in Nat /\ reserved(e) \in Nat /\ DailyCap \in Nat /\ CapPerRun \in Nat
      BY <1>10, DiveFigures
    <2>2. lane[l].bill = 0 /\ reserved(lane[l]) = lane[l].max + StepOver /\ reserved(d) = 0
      BY <1>2, <1>3, <1>8 DEF Sound, reserved
    <2> DEFINE t == totalSpendUsd
               k == charged
               m == lane[l].max
               bound == DailyCap + CapPerRun + 2 * StepOver
    <2>3. k <= t + 0 + e.bill + hidden
      BY <1>10, <2>2 DEF Within
    <2>4. k - hidden + (m + StepOver) + reserved(e) <= bound
      BY <1>10, <2>2 DEF Within
    <2>5. k \in Int /\ t \in Int /\ m \in Nat /\ c <= m + StepOver
          /\ bound \in Int
      BY <1>4, <1>7, <2>1
    <2> HIDE DEF t, k, m, bound
    <2>6. k + c <= t + c + e.bill + hidden
      BY <1>4, <1>7, <2>1, <2>3, <2>5
    <2>7. k + c - hidden + 0 + reserved(e) <= bound
      BY <1>4, <1>7, <2>1, <2>4, <2>5
    <2>8. Within(k + c, hidden, t, d, e)
      <3>1. k + c <= t + d.bill + e.bill + hidden
        BY <1>8, <2>6
      <3>2. k + c - hidden + reserved(d) + reserved(e) <= bound
        BY <2>2, <2>7
      <3> QED  BY <1>4, <1>7, <1>8, <2>1, <2>2, <2>5, <3>1, <3>2 DEF Within, bound
    <2> QED  BY <1>2, <1>5, <1>6, <2>8 DEF k, t
  <1> QED  BY <1>9, <1>10, LaneStep

LEMMA FailSpend ==
    ASSUME KeyTypes, KeyTypes', LaneTypes, LaneTypes', SpendInv,
           NEW l \in Lanes, DiveFails(l)
    PROVE  SpendInv'
  <1>1. /\ UNCHANGED <<spent, owed, foreign, ledger>>
        /\ hidden' = hidden + lane[l].bill
        /\ lane' = [lane EXCEPT ![l] = NoDive]
    BY DEF DiveFails, provider, Free
  <1>2. charged' = charged /\ totalSpendUsd' = totalSpendUsd
    BY <1>1, SameTotal DEF charged
  <1>3. charged \in Int /\ totalSpendUsd \in Int /\ hidden \in Int
    BY Amounts, TotalType DEF LaneTypes
  <1>4. ASSUME NEW e, Sound(e), Sound(lane[l]), Sound(NoDive),
               Within(charged, hidden, totalSpendUsd, lane[l], e)
        PROVE  Within(charged', hidden', totalSpendUsd', NoDive, e)
    <2> DEFINE t == totalSpendUsd
               k == charged
               b == lane[l].bill
               r == reserved(lane[l])
               bound == DailyCap + CapPerRun + 2 * StepOver
    <2>1. NoDive.bill = 0 /\ reserved(NoDive) = 0
      BY DEF NoDive, reserved
    <2>2. /\ k \in Int /\ t \in Int /\ b \in Nat /\ r \in Nat /\ bound \in Int
          /\ e.bill \in Nat /\ reserved(e) \in Nat
      BY <1>3, <1>4, DiveFigures
    <2>3. k <= t + b + e.bill + hidden /\ k - hidden + r + reserved(e) <= bound
      BY <1>4 DEF Within
    <2> HIDE DEF t, k, b, r, bound
    <2>4. /\ k <= t + 0 + e.bill + (hidden + b)
          /\ k - (hidden + b) + 0 + reserved(e) <= bound
      BY <1>3, <2>2, <2>3
    <2>5. k <= t + NoDive.bill + e.bill + (hidden + b)
      BY <2>1, <2>4
    <2>6. k - (hidden + b) + reserved(NoDive) + reserved(e) <= bound
      BY <2>1, <2>4
    <2>7. Within(k, hidden + b, t, NoDive, e)
      BY <2>5, <2>6 DEF Within, bound
    <2> QED  BY <1>1, <1>2, <2>7 DEF k, t, b
  <1> QED  BY <1>1, <1>4, LaneStep

LEMMA RecordSpend ==
    ASSUME KeyTypes, KeyTypes', LaneTypes, LaneTypes', SpendInv,
           NEW l \in Lanes, Record(l)
    PROVE  SpendInv'
  <1>1. PICK row \in RowType : /\ ledger' = Append(ledger, row)
                               /\ row.cost \in {0, lane[l].bill}
                               /\ hidden' = hidden + lane[l].bill - row.cost
    BY RecordIs
  <1>2. /\ UNCHANGED <<spent, owed, foreign>> /\ lane[l].at = "answer"
        /\ lane' = [lane EXCEPT ![l] = NoDive]
    BY DEF Record, provider, Free
  <1>3. charged' = charged
    BY <1>2 DEF charged
  <1>4. totalSpendUsd' = totalSpendUsd + row.cost
    BY <1>1, TotalIsCost, CostAppend DEF KeyTypes, LedgerTypes
  <1>5. charged \in Int /\ totalSpendUsd \in Int /\ hidden \in Int
    BY Amounts, TotalType DEF LaneTypes
  <1>6. ASSUME NEW e, Sound(e), Sound(lane[l]), Sound(NoDive),
               Within(charged, hidden, totalSpendUsd, lane[l], e)
        PROVE  Within(charged', hidden', totalSpendUsd', NoDive, e)
    <2> DEFINE t == totalSpendUsd
               k == charged
               b == lane[l].bill
               p == row.cost
               r == reserved(lane[l])
               bound == DailyCap + CapPerRun + 2 * StepOver
    <2>1. NoDive.bill = 0 /\ reserved(NoDive) = 0
      BY DEF NoDive, reserved
    <2>2. /\ k \in Int /\ t \in Int /\ b \in Nat /\ r \in Nat /\ bound \in Int
          /\ e.bill \in Nat /\ reserved(e) \in Nat
      BY <1>5, <1>6, DiveFigures
    <2>a. p \in {0, b}
      BY <1>1
    <2>3. k <= t + b + e.bill + hidden /\ k - hidden + r + reserved(e) <= bound
      BY <1>6 DEF Within
    <2> HIDE DEF t, k, b, r, p, bound
    <2>b. p \in Nat /\ p <= b
      BY <2>a, <2>2
    <2>4. /\ k <= (t + p) + 0 + e.bill + (hidden + b - p)
          /\ k - (hidden + b - p) + 0 + reserved(e) <= bound
      BY <1>5, <2>2, <2>3, <2>b
    <2>5. k <= (t + p) + NoDive.bill + e.bill + (hidden + b - p)
      BY <2>1, <2>4
    <2>6. k - (hidden + b - p) + reserved(NoDive) + reserved(e) <= bound
      BY <2>1, <2>4
    <2>7. Within(k, hidden + b - p, t + p, NoDive, e)
      BY <2>5, <2>6 DEF Within, bound
    <2> QED  BY <1>1, <1>3, <1>4, <2>7 DEF k, t, b, p
  <1> QED  BY <1>2, <1>6, LaneStep

LEMMA CrashSpend ==
    ASSUME KeyTypes, KeyTypes', LaneTypes, LaneTypes', SpendInv, Crash
    PROVE  SpendInv'
  <1> DEFINE d == lane["sweep"]
             e == lane["queue"]
             t == totalSpendUsd
             u == totalSpendUsd'
             low == MaxOf(0, t - u)
             k == charged
             bound == DailyCap + CapPerRun + 2 * StepOver
             more == hidden + d.bill + e.bill + low
  <1>1. /\ lane'["sweep"] = NoDive /\ lane'["queue"] = NoDive
        /\ hidden' = more
    BY DEF Crash, Lanes
  <1>2. charged' = k
    BY DEF Crash, Dies, charged
  <1>3. /\ k \in Int /\ t \in Int /\ u \in Int /\ hidden \in Int /\ bound \in Int
        /\ d.bill \in Nat /\ e.bill \in Nat /\ reserved(d) \in Nat /\ reserved(e) \in Nat
    <2>1. k \in Int /\ t \in Int /\ u \in Int
      BY Amounts, TotalType
    <2>2. hidden \in Int
      BY DEF LaneTypes
    <2>3. Sound(d) /\ Sound(e)
      BY DEF LaneTypes, Lanes
    <2>4. bound \in Int
      BY DiveFigures
    <2>5. d.bill \in Nat /\ e.bill \in Nat /\ reserved(d) \in Nat /\ reserved(e) \in Nat
      BY <2>3, DiveFigures
    <2> QED  BY <2>1, <2>2, <2>4, <2>5
  <1>4. low \in Nat /\ t - u <= low
    BY Lowered
  <1>5. k <= t + d.bill + e.bill + hidden /\ k - hidden + reserved(d) + reserved(e) <= bound
    BY DEF SpendInv, Within
  <1>6. NoDive.bill = 0 /\ reserved(NoDive) = 0
    BY DEF NoDive, reserved
  <1>7. SpendInv' <=> Within(k, more, u, NoDive, NoDive)
    BY <1>1, <1>2 DEF SpendInv
  <1>8. more = hidden + d.bill + e.bill + low
    OBVIOUS
  <1> HIDE DEF d, e, t, u, low, k, bound, more
  <1>9. k <= u + 0 + 0 + more /\ k - more + 0 + 0 <= bound
    BY <1>3, <1>4, <1>5, <1>8
  <1>10. k <= u + NoDive.bill + NoDive.bill + more
    BY <1>6, <1>9
  <1>11. k - more + reserved(NoDive) + reserved(NoDive) <= bound
    BY <1>6, <1>9
  <1>12. Within(k, more, u, NoDive, NoDive)
    BY <1>10, <1>11 DEF Within, bound
  <1> QED  BY <1>7, <1>12

LEMMA InitSpend == DInit => SpendInv
  <1> SUFFICES ASSUME DInit PROVE SpendInv
    OBVIOUS
  <1>1. charged = 0 /\ hidden = 0 /\ lane["sweep"] = NoDive /\ lane["queue"] = NoDive
    BY DEF DInit, Init, charged, Lanes
  <1>2. totalSpendUsd \in Nat
    BY InitKeyTypes, TotalType
  <1>3. NoDive.bill = 0 /\ reserved(NoDive) = 0
    BY DEF NoDive, reserved
  <1> DEFINE t == totalSpendUsd
             bound == DailyCap + CapPerRun + 2 * StepOver
  <1>4. t \in Nat /\ bound \in Nat
    BY <1>2, DeepDiveAssumption
  <1> HIDE DEF t, bound
  <1>5. 0 <= t + 0 + 0 + 0 /\ 0 - 0 + 0 + 0 <= bound
    BY <1>4
  <1>6. Within(0, 0, t, NoDive, NoDive)
    BY <1>3, <1>5 DEF Within, bound
  <1> QED  BY <1>1, <1>6 DEF SpendInv, t

LEMMA NextSpend ==
    /\ KeyTypes /\ KeyTypes' /\ LaneTypes /\ LaneTypes'
    /\ SpendInv /\ [DNext]_allVars
    => SpendInv'
  <1> SUFFICES ASSUME KeyTypes, KeyTypes', LaneTypes, LaneTypes', SpendInv,
                      [DNext]_allVars
               PROVE  SpendInv'
    OBVIOUS
  <1>1. hidden \in Nat /\ totalSpendUsd \in Nat
    BY TotalType DEF LaneTypes
  <1>2. ASSUME charged' = charged, UNCHANGED <<lane, hidden, ledger>> PROVE SpendInv'
    <2>1. totalSpendUsd' = totalSpendUsd
      BY <1>2, SameTotal
    <2> DEFINE t == totalSpendUsd
               u == totalSpendUsd'
    <2>2. u = t /\ t \in Nat
      BY <1>1, <2>1
    <2> HIDE DEF t, u
    <2>3. hidden' >= hidden /\ hidden' >= hidden + (t - u)
      BY <1>1, <1>2, <2>2
    <2> QED  BY <1>2, <2>3, QuietStep DEF t, u
  <1>3. CASE External /\ UNCHANGED dives
    <2>1. UNCHANGED ledger
      BY <1>3 DEF External, Settle, ForeignCall, TopUp, KeyLost
    <2>2. charged' = charged
      <3>1. CASE Settle
        BY <3>1 DEF Settle, charged, KeyTypes, ProviderTypes
      <3>2. CASE ForeignCall
        BY <3>2 DEF ForeignCall, charged, KeyTypes, ProviderTypes
      <3>3. CASE TopUp \/ KeyLost
        BY <3>3 DEF TopUp, KeyLost, charged
      <3> QED  BY <1>3, <3>1, <3>2, <3>3 DEF External
    <2> QED  BY <1>2, <1>3, <2>1, <2>2 DEF dives
  <1>4. CASE Lifecycle
    <2>1. charged' = charged /\ UNCHANGED lane
      BY <1>4 DEF Lifecycle, Tick, Grade, Apply, WriteRow, Mint, RevokeKey, Boot,
                  TickFails, provider, charged
    <2> DEFINE low == MaxOf(0, totalSpendUsd - totalSpendUsd')
               t == totalSpendUsd
               u == totalSpendUsd'
    <2>2. low \in Nat /\ t - u <= low /\ t \in Nat /\ u \in Nat
      BY Lowered, TotalType
    <2>3. hidden' = hidden + low
      BY <1>4 DEF Lifecycle
    <2> HIDE DEF low, t, u
    <2>4. hidden' >= hidden /\ hidden' >= hidden + (t - u)
      BY <1>1, <2>2, <2>3
    <2> QED  BY <2>1, <2>4, QuietStep DEF t, u
  <1>5. CASE SweepStarts
    BY <1>2, <1>5 DEF SweepStarts, vars, charged
  <1>6. CASE Sweep
    <2>1. /\ UNCHANGED <<vars, hidden>> /\ lane["sweep"].at = "idle"
          /\ todo \in Seq(Launches) /\ todo # <<>> /\ "sweep" \in Lanes
      BY <1>6 DEF Sweep, LaneTypes, Lanes
    <2>2. CASE UNCHANGED lane
      BY <1>2, <2>1, <2>2 DEF vars, charged
    <2>3. CASE Gate("sweep", Head(todo), Tail(todo))
      <3>1. Head(todo) \in Launches /\ Tail(todo) \in Seq(Launches)
        BY <2>1
      <3> QED  BY <2>1, <2>3, <3>1, GateSpend
    <2> QED  BY <1>6, <2>2, <2>3 DEF Sweep
  <1>7. CASE Job
    <2>1. /\ UNCHANGED <<vars, hidden>> /\ lane["queue"].at = "idle"
          /\ todo \in Seq(Launches) /\ "queue" \in Lanes
      BY <1>7 DEF Job, LaneTypes, Lanes
    <2>2. PICK n \in Launches : Gate("queue", n, todo)
      BY <1>7 DEF Job
    <2> QED  BY <2>1, <2>2, GateSpend
  <1>8. ASSUME NEW l \in Lanes, Lane(l) PROVE SpendInv'
    BY <1>8, InvokeSpend, FailSpend, RecordSpend DEF Lane
  <1>9. CASE Crash
    BY <1>9, CrashSpend
  <1>10. CASE UNCHANGED allVars
    BY <1>2, <1>10 DEF allVars, vars, charged
  <1> QED  BY <1>3, <1>4, <1>5, <1>6, <1>7, <1>8, <1>9, <1>10 DEF DNext

\* deepdiveRunGate and recordDeepdiveSpend: whatever the cap, the prices, the
\* launches and the faults, the day's charges stay within the cap, one run of the
\* other lane, the last step of each lane, and what the ledger never carried.
THEOREM SpendWithinCap == DSpec => []SpendBounded
  <1>1. KeyTypes /\ LaneTypes /\ SpendInv => SpendBounded
    <2> SUFFICES ASSUME KeyTypes, LaneTypes, SpendInv PROVE SpendBounded
      OBVIOUS
    <2> DEFINE r == reserved(lane["sweep"])
               q == reserved(lane["queue"])
               bound == DailyCap + CapPerRun + 2 * StepOver
    <2>1. r \in Nat /\ q \in Nat /\ charged \in Int /\ hidden \in Int /\ bound \in Int
      BY Amounts, DiveFigures DEF LaneTypes, Lanes
    <2>2. charged - hidden + r + q <= bound
      BY DEF SpendInv, Within
    <2> HIDE DEF r, q, bound
    <2>3. charged <= bound + hidden
      BY <2>1, <2>2
    <2> QED  BY <2>3 DEF SpendBounded, bound
  <1> QED  BY <1>1, InitReading, NextReading, InitKeyTypes, NextKeyTypes,
              InitLanes, NextLanes, InitSpend, NextSpend, PTL DEF DSpec
=============================================================================
