------------------------ MODULE ReplyDecisionProofs ------------------------
(***************************************************************************)
(* Theorems about ReplyDecision, for any set of conversations, any day and *)
(* hours, any cap and prices, and whichever calls fail.                    *)
(***************************************************************************)
EXTENDS ReplyDecision, FiniteSetTheorems, TLAPS

-----------------------------------------------------------------------------
(* Arithmetic modulo the day.                                              *)

LEMMA ModRange == ASSUME NEW d \in Nat \ {0}, NEW x \in Int PROVE x % d \in 0..(d - 1)
OBVIOUS
LEMMA ModSmall == ASSUME NEW d \in Nat \ {0}, NEW x \in 0..(d - 1) PROVE x % d = x
OBVIOUS
LEMMA ModNext == ASSUME NEW d \in Nat \ {0}, NEW x \in d..(2 * d - 1) PROVE x % d = x - d
OBVIOUS
LEMMA ModPrevious == ASSUME NEW d \in Nat \ {0}, NEW x \in (-d)..(-1) PROVE x % d = x + d
OBVIOUS

-----------------------------------------------------------------------------
(* Type correctness.                                                       *)

LEMMA NoTurnType == NoTurn \in TurnType
BY DayAssumption, CostAssumption
   DEF NoTurn, TurnType, Minutes, Attachments, Actions, Stages

\* A step changes one turn, into another.
LEMMA TurnChange ==
    ASSUME TypeOK, NEW c \in Convs, NEW t \in TurnType, turn' = [turn EXCEPT ![c] = t]
    PROVE  turn' \in [Convs -> TurnType]
BY DEF TypeOK

LEMMA TypeInit == Init => TypeOK
<1> SUFFICES ASSUME Init PROVE TypeOK
  OBVIOUS
<1>1. now \in Minutes
  BY DayAssumption DEF Init, Minutes
<1>2. turn \in [Convs -> TurnType]
  BY NoTurnType DEF Init
<1>3. turns \in [Convs -> 0..MaxTurns] /\ late \in [Convs -> Nat]
  BY CostAssumption DEF Init
<1> QED
  BY <1>1, <1>2, <1>3 DEF Init, TypeOK

LEMMA TypeStep == TypeOK /\ [Next]_vars => TypeOK'
<1> SUFFICES ASSUME TypeOK, [Next]_vars PROVE TypeOK'
  OBVIOUS
<1> USE DayAssumption, CostAssumption
<1>1. ASSUME NEW c \in Convs, StartTurn(c) PROVE TypeOK'
  <2>1. PICK suspect \in BOOLEAN, attached \in Attachments, images \in 0..ClassifyLimit :
             turn' = [turn EXCEPT ![c] =
                [NoTurn EXCEPT !.suspect = suspect, !.attached = attached, !.images = images,
                               !.pc = Head(suspect, attached)[1],
                               !.action = Head(suspect, attached)[2],
                               !.stage = Head(suspect, attached)[3]]]
    BY <1>1 DEF StartTurn
  <2>2. /\ Head(suspect, attached)[1] \in {"act", "classify", "org"}
        /\ Head(suspect, attached)[2] \in Actions
        /\ Head(suspect, attached)[3] \in Stages
    BY DEF Head, Actions, Stages
  <2>3. turn' \in [Convs -> TurnType]
    BY <2>1, <2>2, NoTurnType, TurnChange DEF TurnType
  <2>4. turns' \in [Convs -> 0..MaxTurns]
    BY <1>1 DEF StartTurn, TypeOK
  <2> QED
    BY <1>1, <2>3, <2>4 DEF StartTurn, TypeOK
<1>2. ASSUME NEW c \in Convs, Classify(c) PROVE TypeOK'
  <2> turn[c] \in TurnType
    BY DEF TypeOK
  <2>1. CASE turn[c].images = 0
    <3>1. turn' = [turn EXCEPT ![c] = [turn[c] EXCEPT !.pc = "act", !.action = "handoff",
                                                      !.stage = "media"]]
      BY <1>2, <2>1 DEF Classify, ClassifyImage, Settle, TypeOK
    <3>2. turn' \in [Convs -> TurnType]
      BY <3>1, TurnChange DEF TurnType, Actions, Stages
    <3> QED
      BY <1>2, <3>2 DEF Classify, ClassifyImage, TypeOK
  <2>2. CASE turn[c].images # 0
    <3>1. turn[c].images - 1 \in 0..ClassifyLimit
      BY <2>2 DEF TurnType
    <3>2. CASE turn' = [turn EXCEPT ![c].images = @ - 1]
      <4>1. turn' = [turn EXCEPT ![c] = [turn[c] EXCEPT !.images = turn[c].images - 1]]
        BY <3>2 DEF TypeOK
      <4>2. turn' \in [Convs -> TurnType]
        BY <3>1, <4>1, TurnChange DEF TurnType
      <4> QED
        BY <1>2, <4>2 DEF Classify, ClassifyImage, TypeOK
    <3>3. ASSUME NEW saw \in BOOLEAN, NEW cost \in Costs,
                 turn' = [turn EXCEPT ![c].pc = "screened", ![c].images = @ - 1,
                                      ![c].asked = TRUE, ![c].saw = saw, ![c].cost = cost]
          PROVE  TypeOK'
      <4>1. turn' = [turn EXCEPT ![c] = [turn[c] EXCEPT !.pc = "screened",
                       !.images = turn[c].images - 1, !.asked = TRUE, !.saw = saw, !.cost = cost]]
        BY <3>3 DEF TypeOK
      <4>2. turn' \in [Convs -> TurnType]
        BY <3>1, <4>1, TurnChange DEF TurnType
      <4> QED
        BY <1>2, <4>2 DEF Classify, ClassifyImage, TypeOK
    <3> QED
      BY <1>2, <2>2, <3>2, <3>3 DEF Classify, ClassifyImage
  <2> QED
    BY <2>1, <2>2
<1>3. ASSUME NEW c \in Convs, MeterClassifier(c) PROVE TypeOK'
  BY <1>3 DEF MeterClassifier, AfterScreening, Go, At, TypeOK, TurnType, Actions, Stages
<1>4. ASSUME NEW c \in Convs, ReadOrg(c) PROVE TypeOK'
  <2> turn[c] \in TurnType
    BY DEF TypeOK
  <2>1. turn' \in [Convs -> TurnType]
    <3>1. CASE Go(c, "model")
      <4>1. turn' = [turn EXCEPT ![c] = [turn[c] EXCEPT !.pc = "model"]]
        BY <3>1 DEF Go, TypeOK
      <4> QED
        BY <4>1, TurnChange DEF TurnType
    <3>2. ASSUME NEW pc \in {"act", "model", "spend"}, NEW action \in Actions,
                 NEW stage \in Stages,
                 turn' = [turn EXCEPT ![c].read = TRUE, ![c].readAt = now, ![c].pc = pc,
                                      ![c].action = action, ![c].stage = stage]
          PROVE  turn' \in [Convs -> TurnType]
      <4>1. turn' = [turn EXCEPT ![c] = [turn[c] EXCEPT !.read = TRUE, !.readAt = now, !.pc = pc,
                                                        !.action = action, !.stage = stage]]
        BY <3>2 DEF TypeOK
      <4> QED
        BY <4>1, TurnChange DEF TurnType, TypeOK
    <3>3. Hold \in {"none", "paused", "closed"}
      BY DEF Hold
    <3> QED
      BY <1>4, <3>1, <3>2, <3>3 DEF ReadOrg, Actions, Stages
  <2> QED
    BY <1>4, <2>1 DEF ReadOrg, TypeOK
<1>5. ASSUME NEW c \in Convs, ReadSpend(c) PROVE TypeOK'
  <2> turn[c] \in TurnType
    BY DEF TypeOK
  <2>1. CASE Settle(c, "handoff", "capped")
    <3>1. turn' = [turn EXCEPT ![c] = [turn[c] EXCEPT !.pc = "act", !.action = "handoff",
                                                      !.stage = "capped"]]
      BY <2>1 DEF Settle, TypeOK
    <3>2. turn' \in [Convs -> TurnType]
      BY <3>1, TurnChange DEF TurnType, Actions, Stages
    <3> QED
      BY <1>5, <3>2 DEF ReadSpend, TypeOK
  <2>2. CASE turn' = [turn EXCEPT ![c].pc = "model", ![c].metered = TRUE]
    <3>1. turn' = [turn EXCEPT ![c] = [turn[c] EXCEPT !.pc = "model", !.metered = TRUE]]
      BY <2>2 DEF TypeOK
    <3>2. turn' \in [Convs -> TurnType]
      BY <3>1, TurnChange DEF TurnType
    <3> QED
      BY <1>5, <3>2 DEF ReadSpend, TypeOK
  <2>3. CASE Go(c, "model")
    <3>1. turn' = [turn EXCEPT ![c] = [turn[c] EXCEPT !.pc = "model"]]
      BY <2>3 DEF Go, TypeOK
    <3>2. turn' \in [Convs -> TurnType]
      BY <3>1, TurnChange DEF TurnType
    <3> QED
      BY <1>5, <3>2 DEF ReadSpend, TypeOK
  <2> QED
    BY <1>5, <2>1, <2>2, <2>3 DEF ReadSpend
<1>6. ASSUME NEW c \in Convs, CallModel(c) PROVE TypeOK'
  <2> turn[c] \in TurnType
    BY DEF TypeOK
  <2>1. turn' \in [Convs -> TurnType]
    <3>1. ASSUME NEW pc \in {"act", "retry"}, NEW action \in Actions, NEW stage \in Stages,
                 NEW clean \in BOOLEAN, NEW cost \in {0} \cup Costs,
                 turn' = [turn EXCEPT ![c] = [turn[c] EXCEPT !.pc = pc, !.action = action,
                    !.stage = stage, !.asked = TRUE, !.clean = clean, !.cost = cost]]
          PROVE  turn' \in [Convs -> TurnType]
      BY <3>1, TurnChange DEF TurnType
    <3>2. ASSUME NEW flagged \in BOOLEAN, NEW single \in BOOLEAN, NEW allowed \in BOOLEAN,
                 NEW clean \in BOOLEAN, NEW cost \in Costs,
                 Answered(c, Verdict(flagged, single, allowed), clean, cost)
          PROVE  turn' \in [Convs -> TurnType]
      <4>1. /\ Verdict(flagged, single, allowed)[1] \in Actions
            /\ Verdict(flagged, single, allowed)[2] \in Stages
        BY DEF Verdict, Actions, Stages
      <4> QED
        BY <3>1, <3>2, <4>1 DEF Answered, TypeOK, TurnType
    <3>3. CASE Failed(c, AfterFailure(turn[c].pc))
      <4>1. /\ AfterFailure(turn[c].pc)[1] \in {"act", "retry"}
            /\ AfterFailure(turn[c].pc)[2] \in Actions
            /\ AfterFailure(turn[c].pc)[3] \in Stages
        BY DEF AfterFailure, Actions, Stages
      <4> DEFINE t == [turn[c] EXCEPT !.pc = AfterFailure(turn[c].pc)[1],
                        !.action = AfterFailure(turn[c].pc)[2],
                        !.stage = AfterFailure(turn[c].pc)[3], !.asked = TRUE]
      <4>2. turn' = [turn EXCEPT ![c] = t]
        BY <3>3 DEF Failed, TypeOK
      <4>3. t \in TurnType
        BY <4>1 DEF TurnType
      <4> HIDE DEF t
      <4> QED
        BY <4>2, <4>3, TurnChange
    <3> QED
      BY <1>6, <3>2, <3>3, Zenon DEF CallModel
  <2> QED
    BY <1>6, <2>1 DEF CallModel, TypeOK
<1>7. ASSUME NEW c \in Convs, Act(c) PROVE TypeOK'
  BY <1>7 DEF Act, Go, At, TypeOK, TurnType
<1>8. ASSUME NEW c \in Convs, RecordUsage(c) PROVE TypeOK'
  <2>0. turn[c] \in TurnType
    BY DEF TypeOK
  <2>1. turn' = [turn EXCEPT ![c] = [turn[c] EXCEPT !.pc = "done"]]
    BY <1>8 DEF RecordUsage, Go, TypeOK
  <2>2. turn' \in [Convs -> TurnType]
    BY <2>0, <2>1, TurnChange DEF TurnType
  <2>3. turn[c].cost \in Nat
    <3>1. turn[c].cost \in {0} \cup Costs
      BY <2>0 DEF TurnType
    <3>2. \A y \in {0} \cup Costs : y \in Nat
      BY CostAssumption
    <3> QED
      BY <3>1, <3>2, Zenon
  <2>4. spend' \in Nat /\ replies' \in Nat
    BY <1>8, <2>3 DEF RecordUsage, TypeOK
  <2> QED
    BY <1>8, <2>2, <2>4 DEF RecordUsage, TypeOK
<1>9. ASSUME NEW wanted \in BOOLEAN, SetPaused(wanted) PROVE TypeOK'
  BY <1>9 DEF SetPaused, TypeOK
<1>10. CASE Tick
  <2>1. now' \in Minutes
    BY <1>10, ModRange DEF Tick, NextMinute, TypeOK, Minutes
  <2> QED
    BY <1>10, <2>1 DEF Tick, TypeOK
<1>11. CASE UNCHANGED vars
  BY <1>11 DEF vars, TypeOK
<1> QED
  BY <1>1, <1>2, <1>3, <1>4, <1>5, <1>6, <1>7, <1>8, <1>9, <1>10, <1>11 DEF Next, Step

\* Every turn stays a turn and every counter a counter.
THEOREM TypeCorrectness == Spec => []TypeOK
BY TypeInit, TypeStep, PTL DEF Spec

-----------------------------------------------------------------------------
(* A turn.  The verdict of a turn says nothing of how it was reached, so   *)
(* each pc carries what has been established by then: what was screened,   *)
(* when the controls were read and what they said.                         *)

Deciding == {"classify", "screened", "org", "spend", "model", "retry"}
InOrder(t, n) ==
    /\ t.pc \in Deciding => ~t.suspect /\ t.action = "none"
    /\ t.pc \in {"org", "spend", "model", "retry"} => t.attached = "none"
    /\ t.pc \in {"act", "bill"} => t.action # "none"
    /\ t.pc = "done" /\ n > 0 => t.action # "none"
    /\ t.action = "send" => ~t.suspect /\ t.attached = "none" /\ t.clean
    /\ t.suspect /\ t.action # "none" => t.action = "safe"
ReadInTime(t) ==
    /\ t.pc \in {"classify", "screened", "org"} => ~t.read
    /\ t.pc \in {"classify", "screened", "org", "spend"} => ~t.metered
    /\ t.pc = "org" => ~t.asked
    /\ t.read /\ HandsOff =>
         /\ t.pc \in {"spend", "model", "retry"} \/ t.metered \/ t.asked => IsWithinHours(t.readAt)
         /\ t.stage = "closed" => ~IsWithinHours(t.readAt)
WillSend(t) == /\ t.read
               /\ \/ t.pc \in {"spend", "model", "retry"}
                  \/ t.pc = "act" /\ t.action = "send"
Stopped(t, l) == l <= 1 /\ (l > 0 => paused /\ ~WillSend(t))
TurnInv == \A c \in Convs : /\ InOrder(turn[c], turns[c])
                            /\ ReadInTime(turn[c])
                            /\ Stopped(turn[c], late[c])

LEMMA TurnInit == Init => TurnInv
BY DEF Init, NoTurn, TurnInv, InOrder, ReadInTime, Stopped, WillSend, Deciding

LEMMA TurnStep == TypeOK /\ TurnInv /\ [Next]_vars => TurnInv'
<1> SUFFICES ASSUME TypeOK, TurnInv, [Next]_vars PROVE TurnInv'
  OBVIOUS
<1>t. TypeOK'
  BY TypeStep
<1> USE <1>t DEF InOrder, ReadInTime, Stopped, WillSend, Deciding
<1>1. ASSUME NEW c \in Convs, StartTurn(c) PROVE TurnInv'
  <2>1. /\ turn'[c].read = FALSE /\ turn'[c].asked = FALSE /\ turn'[c].metered = FALSE
        /\ \/ turn'[c].suspect /\ turn'[c].pc = "act" /\ turn'[c].action = "safe"
           \/ /\ ~turn'[c].suspect
              /\ \/ turn'[c].pc = "act" /\ turn'[c].action = "handoff"
                 \/ turn'[c].pc = "classify" /\ turn'[c].action = "none"
                 \/ turn'[c].pc = "org" /\ turn'[c].action = "none" /\ turn'[c].attached = "none"
    <3>1. PICK suspect \in BOOLEAN, attached \in Attachments, images \in 0..ClassifyLimit :
             turn' = [turn EXCEPT ![c] =
                [NoTurn EXCEPT !.suspect = suspect, !.attached = attached, !.images = images,
                               !.pc = Head(suspect, attached)[1],
                               !.action = Head(suspect, attached)[2],
                               !.stage = Head(suspect, attached)[3]]]
      BY <1>1 DEF StartTurn
    <3>2. /\ turn'[c].suspect = suspect /\ turn'[c].attached = attached
          /\ turn'[c].pc = Head(suspect, attached)[1]
          /\ turn'[c].action = Head(suspect, attached)[2]
          /\ ~turn'[c].read /\ ~turn'[c].asked /\ ~turn'[c].metered
      BY <3>1 DEF NoTurn, TypeOK
    <3> QED
      BY <3>2 DEF Head, Attachments, TypeOK, TurnType
  <2>2. \A d \in Convs \ {c} : turn'[d] = turn[d] /\ turns'[d] = turns[d]
    BY <1>1 DEF StartTurn, TypeOK
  <2>3. paused' = paused /\ late' = late
    BY <1>1 DEF StartTurn
  <2>4. InOrder(turn[c], turns[c])' /\ ReadInTime(turn[c])' /\ Stopped(turn[c], late[c])'
    BY <2>1, <2>3 DEF TurnInv
  <2>5. \A d \in Convs \ {c} : /\ InOrder(turn[d], turns[d])' /\ ReadInTime(turn[d])'
                              /\ Stopped(turn[d], late[d])'
    BY <2>2, <2>3 DEF TurnInv
  <2> QED
    BY <2>4, <2>5 DEF TurnInv
<1>2. ASSUME NEW c \in Convs, Classify(c) PROVE TurnInv'
  <2>1. CASE turn[c].images = 0
    BY <1>2, <2>1 DEF Classify, ClassifyImage, Settle, At, TypeOK, TurnType, TurnInv
  <2>2. CASE turn[c].images # 0
    <3>1. /\ turn'[c].pc \in {"classify", "screened"} /\ turn'[c].read = turn[c].read
          /\ turn'[c].suspect = turn[c].suspect /\ turn'[c].action = turn[c].action
          /\ turn'[c].metered = turn[c].metered
      <4>1. CASE turn' = [turn EXCEPT ![c].images = @ - 1]
        BY <1>2, <4>1 DEF Classify, ClassifyImage, At, TypeOK, TurnType
      <4>2. ASSUME NEW saw \in BOOLEAN, NEW cost \in Costs,
                   turn' = [turn EXCEPT ![c].pc = "screened", ![c].images = @ - 1,
                                        ![c].asked = TRUE, ![c].saw = saw, ![c].cost = cost]
            PROVE  /\ turn'[c].pc = "screened" /\ turn'[c].read = turn[c].read
                   /\ turn'[c].suspect = turn[c].suspect /\ turn'[c].action = turn[c].action
                   /\ turn'[c].metered = turn[c].metered
        BY <4>2 DEF TypeOK, TurnType
      <4> QED
        BY <1>2, <2>2, <4>1, <4>2 DEF Classify, ClassifyImage
    <3>2. \A d \in Convs \ {c} : turn'[d] = turn[d]
      BY <1>2, <2>2 DEF Classify, ClassifyImage, TypeOK
    <3>3. turns' = turns /\ late' = late /\ paused' = paused
      BY <1>2 DEF Classify, ClassifyImage
    <3>4. turn[c].pc = "classify"
      BY <1>2 DEF Classify, ClassifyImage, At
    <3> QED
      BY <3>1, <3>2, <3>3, <3>4 DEF TurnInv
  <2> QED
    BY <2>1, <2>2
<1>3. ASSUME NEW c \in Convs, MeterClassifier(c) PROVE TurnInv'
  BY <1>3 DEF MeterClassifier, AfterScreening, Go, At, TypeOK, TurnType, TurnInv
<1>4. ASSUME NEW c \in Convs, ReadOrg(c) PROVE TurnInv'
  BY <1>4 DEF ReadOrg, Hold, Go, At, TypeOK, TurnType, TurnInv
<1>5. ASSUME NEW c \in Convs, ReadSpend(c) PROVE TurnInv'
  BY <1>5 DEF ReadSpend, Settle, Go, At, TypeOK, TurnType, TurnInv
<1>6. ASSUME NEW c \in Convs, CallModel(c) PROVE TurnInv'
  <2>1. turn[c].pc \in {"model", "retry"} /\ UNCHANGED <<paused, turns, late>>
    BY <1>6 DEF CallModel, At
  <2>2. ASSUME NEW flagged \in BOOLEAN, NEW single \in BOOLEAN, NEW allowed \in BOOLEAN,
               NEW cost \in Costs,
               Answered(c, Verdict(flagged, single, allowed), ~flagged /\ single /\ allowed, cost)
        PROVE  TurnInv'
    <3>1. /\ turn'[c].pc = "act" /\ turn'[c].suspect = turn[c].suspect
          /\ turn'[c].attached = turn[c].attached /\ turn'[c].read = turn[c].read
          /\ turn'[c].readAt = turn[c].readAt
          /\ turn'[c].action = Verdict(flagged, single, allowed)[1]
          /\ turn'[c].stage = Verdict(flagged, single, allowed)[2]
      BY <2>2 DEF Answered, TypeOK, TurnType
    <3>2. ~flagged /\ single /\ allowed => turn'[c].clean
      BY <2>2 DEF Answered, TypeOK, TurnType
    <3>3. /\ Verdict(flagged, single, allowed)[1] \in {"safe", "handoff", "send"}
          /\ Verdict(flagged, single, allowed)[1] = "send" => ~flagged /\ single /\ allowed
          /\ Verdict(flagged, single, allowed)[2] # "closed"
      BY DEF Verdict
    <3>4. \A d \in Convs \ {c} : turn'[d] = turn[d]
      BY <2>2 DEF Answered, TypeOK
    <3>5. InOrder(turn[c], turns[c])'
      BY <2>1, <3>1, <3>2, <3>3 DEF TurnInv
    <3>6. ReadInTime(turn[c])'
      BY <2>1, <3>1, <3>3 DEF TurnInv
    <3>7. Stopped(turn[c], late[c])'
      BY <2>1, <3>1 DEF TurnInv
    <3> QED
      BY <2>1, <3>4, <3>5, <3>6, <3>7 DEF TurnInv
  <2>3. CASE Failed(c, AfterFailure(turn[c].pc))
    <3>1. /\ turn'[c].suspect = turn[c].suspect /\ turn'[c].attached = turn[c].attached
          /\ turn'[c].read = turn[c].read /\ turn'[c].readAt = turn[c].readAt
          /\ turn'[c].pc = AfterFailure(turn[c].pc)[1]
          /\ turn'[c].action = AfterFailure(turn[c].pc)[2]
          /\ turn'[c].stage = AfterFailure(turn[c].pc)[3]
      BY <2>3 DEF Failed, TypeOK, TurnType
    <3>2. \/ turn'[c].pc = "retry" /\ turn'[c].action = "none" /\ turn'[c].stage = "none"
          \/ turn'[c].pc = "act" /\ turn'[c].action = "handoff" /\ turn'[c].stage = "llm_error"
      BY <3>1 DEF AfterFailure
    <3>3. \A d \in Convs \ {c} : turn'[d] = turn[d]
      BY <2>3 DEF Failed, TypeOK
    <3>4. InOrder(turn[c], turns[c])' /\ ReadInTime(turn[c])' /\ Stopped(turn[c], late[c])'
      BY <2>1, <3>1, <3>2 DEF TurnInv
    <3> QED
      BY <2>1, <3>3, <3>4 DEF TurnInv
  <2> QED
    BY <1>6, <2>2, <2>3, Zenon DEF CallModel
<1>7. ASSUME NEW c \in Convs, Act(c) PROVE TurnInv'
  <2>1. /\ turn[c].pc = "act" /\ turn'[c].pc \in {"bill", "done"} /\ turn'[c].suspect = turn[c].suspect
        /\ turn'[c].attached = turn[c].attached /\ turn'[c].clean = turn[c].clean
        /\ turn'[c].read = turn[c].read /\ turn'[c].readAt = turn[c].readAt
        /\ turn'[c].metered = turn[c].metered /\ turn'[c].asked = turn[c].asked
        /\ turn'[c].action = turn[c].action /\ turn'[c].stage = turn[c].stage
    BY <1>7 DEF Act, Go, At, TypeOK, TurnType
  <2>2. \A d \in Convs \ {c} : turn'[d] = turn[d] /\ late'[d] = late[d]
    BY <1>7 DEF Act, Go, TypeOK
  <2>3. turns' = turns /\ paused' = paused
    BY <1>7 DEF Act
  <2>4. \/ late'[c] = late[c]
        \/ turn[c].action = "send" /\ turn[c].read /\ paused /\ late'[c] = late[c] + 1
    BY <1>7 DEF Act, TypeOK
  <2>5. late[c] \in Nat
    BY DEF TypeOK
  <2>6. InOrder(turn[c], turns[c])' /\ ReadInTime(turn[c])'
    BY <2>1, <2>3 DEF TurnInv
  <2>7. Stopped(turn[c], late[c])'
    BY <2>1, <2>3, <2>4, <2>5 DEF TurnInv
  <2>8. \A d \in Convs \ {c} : /\ InOrder(turn[d], turns[d])' /\ ReadInTime(turn[d])'
                              /\ Stopped(turn[d], late[d])'
    BY <2>2, <2>3 DEF TurnInv
  <2> QED
    BY <2>6, <2>7, <2>8 DEF TurnInv
<1>8. ASSUME NEW c \in Convs, RecordUsage(c) PROVE TurnInv'
  BY <1>8 DEF RecordUsage, Go, At, TypeOK, TurnType, TurnInv
<1>9. ASSUME NEW wanted \in BOOLEAN, SetPaused(wanted) PROVE TurnInv'
  BY <1>9 DEF SetPaused, TypeOK, TurnInv
<1>10. CASE Tick
  BY <1>10 DEF Tick, TypeOK, TurnInv
<1>11. CASE UNCHANGED vars
  BY <1>11 DEF vars, TypeOK, TurnInv
<1> QED
  BY <1>1, <1>2, <1>3, <1>4, <1>5, <1>6, <1>7, <1>8, <1>9, <1>10, <1>11 DEF Next, Step

LEMMA TurnInvariant == Spec => [](TypeOK /\ TurnInv)
<1>1. Init => TypeOK /\ TurnInv
  BY TypeInit, TurnInit
<1>2. TypeOK /\ TurnInv /\ [Next]_vars => (TypeOK /\ TurnInv)'
  BY TypeStep, TurnStep
<1> QED
  BY <1>1, <1>2, PTL DEF Spec

\* A customer reads a model's words only on a turn of plain text that no check
\* of the text or of the answer objects to (decideReply).
THEOREM WordsAreClean == Spec => []ModelWordsAreClean
<1>1. TurnInv => ModelWordsAreClean
  BY DEF TurnInv, InOrder, ModelWordsAreClean
<1> QED
  BY <1>1, TurnInvariant, PTL

\* A text the prefilter fires on gets the constant safety reply, whatever the
\* client's settings and whichever calls fail.
THEOREM PrefilterWins == Spec => []SuspectIsSafe
<1>1. TurnInv => SuspectIsSafe
  BY DEF TurnInv, InOrder, SuspectIsSafe
<1> QED
  BY <1>1, TurnInvariant, PTL

\* A pause lets at most one more reply of each conversation out: the one whose
\* turn had read the controls before.
THEOREM PauseStops == Spec => []OneReplyAfterPause
<1>1. TurnInv => OneReplyAfterPause
  BY DEF TurnInv, Stopped, OneReplyAfterPause
<1> QED
  BY <1>1, TurnInvariant, PTL

\* Every turn ends in a verdict, whichever calls fail.
THEOREM EveryTurnIsSettled == Spec => []TurnIsSettled
<1>1. TurnInv => TurnIsSettled
  BY DEF TurnInv, InOrder, TurnIsSettled
<1> QED
  BY <1>1, TurnInvariant, PTL

\* The hours on the wall, as a set of minutes, and the comparison of
\* isWithinHours, which has a case for a window that crosses midnight.
LEMMA HoursAgree ==
    ASSUME NEW minute \in Minutes
    PROVE  IsWithinHours(minute) <=> (minute + Offset) % Day \in OpenMinutes
<1> DEFINE ist == (minute + Offset) % Day
           span == (ClosesAt - OpensAt) % Day
<1> USE DayAssumption
<1>1. ist \in 0..(Day - 1) /\ OpensAt \in 0..(Day - 1) /\ ClosesAt \in 0..(Day - 1)
  BY ModRange DEF Minutes
<1>2. span = IF OpensAt <= ClosesAt THEN ClosesAt - OpensAt ELSE ClosesAt - OpensAt + Day
  <2>1. CASE OpensAt <= ClosesAt
    <3>1. ClosesAt - OpensAt \in 0..(Day - 1)
      BY <1>1, <2>1
    <3> QED
      BY <2>1, <3>1, ModSmall
  <2>2. CASE ClosesAt < OpensAt
    <3>1. ClosesAt - OpensAt \in (-Day)..(-1)
      BY <1>1, <2>2
    <3>2. span = (ClosesAt - OpensAt) + Day
      BY <3>1, ModPrevious
    <3> QED
      BY <1>1, <2>2, <3>2
  <2> QED
    BY <1>1, <2>1, <2>2
<1>3. \A k \in 0..(Day - 1) :
        (OpensAt + k) % Day = IF OpensAt + k < Day THEN OpensAt + k ELSE OpensAt + k - Day
  <2> SUFFICES ASSUME NEW k \in 0..(Day - 1)
               PROVE  (OpensAt + k) % Day = IF OpensAt + k < Day THEN OpensAt + k
                                                                 ELSE OpensAt + k - Day
    OBVIOUS
  <2>1. CASE OpensAt + k < Day
    <3>1. OpensAt + k \in 0..(Day - 1)
      BY <1>1, <2>1
    <3> QED
      BY <2>1, <3>1, ModSmall
  <2>2. CASE OpensAt + k >= Day
    <3>1. OpensAt + k \in Day..(2 * Day - 1)
      BY <1>1, <2>2
    <3>2. (OpensAt + k) % Day = (OpensAt + k) - Day
      BY <3>1, ModNext
    <3> QED
      BY <1>1, <2>2, <3>2
  <2> QED
    BY <1>1, <2>1, <2>2
<1>4. ist \in OpenMinutes <=> \E k \in 0..(span - 1) : ist = (OpensAt + k) % Day
  BY DEF OpenMinutes
<1>5. 0..(span - 1) \subseteq 0..(Day - 1)
  BY <1>1, <1>2
<1>6. IsWithinHours(minute) <=>
        IF OpensAt <= ClosesAt THEN ist >= OpensAt /\ ist < ClosesAt
                               ELSE ist >= OpensAt \/ ist < ClosesAt
  BY DEF IsWithinHours
<1> HIDE DEF ist, span
<1>7. CASE OpensAt <= ClosesAt
  <2>1. ASSUME ist >= OpensAt, ist < ClosesAt PROVE ist \in OpenMinutes
    <3>1. ist - OpensAt \in 0..(span - 1) /\ ist = (OpensAt + (ist - OpensAt)) % Day
      BY <1>1, <1>2, <1>3, <1>7, <2>1
    <3> QED
      BY <1>4, <3>1
  <2>2. ASSUME NEW k \in 0..(span - 1), ist = (OpensAt + k) % Day
        PROVE  ist >= OpensAt /\ ist < ClosesAt
    BY <1>1, <1>2, <1>3, <1>5, <1>7, <2>2
  <2> QED
    BY <1>4, <1>6, <1>7, <2>1, <2>2 DEF ist
<1>8. CASE ClosesAt < OpensAt
  <2>1. ASSUME ist >= OpensAt PROVE ist \in OpenMinutes
    <3>1. ist - OpensAt \in 0..(span - 1) /\ ist = (OpensAt + (ist - OpensAt)) % Day
      BY <1>1, <1>2, <1>3, <1>8, <2>1
    <3> QED
      BY <1>4, <3>1
  <2>2. ASSUME ist < ClosesAt PROVE ist \in OpenMinutes
    <3>1. /\ ist - OpensAt + Day \in 0..(span - 1)
          /\ ist = (OpensAt + (ist - OpensAt + Day)) % Day
      BY <1>1, <1>2, <1>3, <1>8, <2>2
    <3> QED
      BY <1>4, <3>1
  <2>3. ASSUME NEW k \in 0..(span - 1), ist = (OpensAt + k) % Day
        PROVE  ist >= OpensAt \/ ist < ClosesAt
    BY <1>1, <1>2, <1>3, <1>5, <1>8, <2>3
  <2> QED
    BY <1>1, <1>4, <1>6, <1>8, <2>1, <2>2, <2>3 DEF ist
<1> QED
  BY <1>1, <1>7, <1>8

\* A turn is held as closed exactly when it was read outside the hours on the
\* clinic's wall, and no model is asked then.
THEOREM HoursHold == Spec => []HoursAreHonoured
<1>1. TypeOK /\ TurnInv => HoursAreHonoured
  <2> SUFFICES ASSUME TypeOK, TurnInv, NEW c \in Convs, turn[c].read, HandsOff
               PROVE  LET open == (turn[c].readAt + Offset) % Day \in OpenMinutes
                      IN  /\ turn[c].stage = "closed" => ~open
                          /\ turn[c].metered \/ turn[c].asked => open
    BY DEF HoursAreHonoured
  <2>1. turn[c].readAt \in Minutes
    BY DEF TypeOK, TurnType
  <2>2. IsWithinHours(turn[c].readAt) <=> (turn[c].readAt + Offset) % Day \in OpenMinutes
    BY <2>1, HoursAgree
  <2>3. /\ turn[c].stage = "closed" => ~IsWithinHours(turn[c].readAt)
        /\ turn[c].metered \/ turn[c].asked => IsWithinHours(turn[c].readAt)
    BY DEF TurnInv, ReadInTime
  <2> QED
    BY <2>2, <2>3
<1> QED
  BY <1>1, TurnInvariant, PTL

-----------------------------------------------------------------------------
(* The cap.  A turn that has read the meter read it below the cap; so the  *)
(* month can only grow past the cap by what those under way will add, and  *)
(* each adds one reply.                                                    *)

UnderWay == {c \in Convs : turn[c].metered /\ turn[c].pc \in {"model", "retry", "act", "bill"}}
MeterInv == /\ replies <= spend
            /\ Cap # NoCap => replies < Cap + Cardinality(Convs \ UnderWay) * MaxCost

LEMMA MaxCostIsMax == MaxCost \in Nat /\ \A y \in Costs : y \in Nat /\ y <= MaxCost
<1>1. \E x \in Costs : \A y \in Costs : y <= x
  BY CostAssumption
<1>2. MaxCost \in Costs /\ \A y \in Costs : y <= MaxCost
  BY <1>1, Zenon DEF MaxCost
<1> QED
  BY <1>2, CostAssumption

LEMMA Times ==
    ASSUME NEW m \in Nat, NEW n \in Nat, NEW x \in Nat, m <= n
    PROVE  m * x \in Nat /\ m * x <= n * x /\ (m + 1) * x = m * x + x
OBVIOUS

LEMMA MeterInit == Init => MeterInv
<1> SUFFICES ASSUME Init PROVE MeterInv
  OBVIOUS
<1>1. IsFiniteSet(Convs \ UnderWay)
  BY CostAssumption, FS_Subset
<1>2. Cardinality(Convs \ UnderWay) \in Nat
  BY <1>1, FS_CardinalityType
<1>3. Cardinality(Convs \ UnderWay) * MaxCost \in Nat
  BY <1>2, MaxCostIsMax, Times
<1> QED
  BY <1>3, CostAssumption DEF Init, MeterInv

\* A step that joins nobody to those under way, and bills nobody.
LEMMA MeterKept ==
    ASSUME TypeOK, TypeOK', MeterInv, UnderWay' \subseteq UnderWay, replies' = replies, spend' >= spend
    PROVE  MeterInv'
<1>1. /\ IsFiniteSet(Convs \ UnderWay') /\ IsFiniteSet(Convs \ UnderWay)
      /\ Cardinality(Convs \ UnderWay) <= Cardinality(Convs \ UnderWay')
  <2>1. IsFiniteSet(Convs \ UnderWay')
    BY CostAssumption, FS_Subset
  <2>2. Convs \ UnderWay \in SUBSET (Convs \ UnderWay')
    OBVIOUS
  <2> QED
    BY <2>1, <2>2, FS_Subset
<1>2. Cardinality(Convs \ UnderWay) \in Nat /\ Cardinality(Convs \ UnderWay') \in Nat
  BY <1>1, FS_CardinalityType
<1> DEFINE m == Cardinality(Convs \ UnderWay)
           n == Cardinality(Convs \ UnderWay')
<1>3. m * MaxCost \in Nat /\ n * MaxCost \in Nat /\ m * MaxCost <= n * MaxCost
  BY <1>1, <1>2, MaxCostIsMax, Times
<1>4. Cap # NoCap => Cap \in Nat /\ replies < Cap + m * MaxCost
  BY CostAssumption DEF MeterInv
<1>5. replies' <= spend'
  BY DEF MeterInv, TypeOK
<1>6. Cap # NoCap => replies' < Cap + n * MaxCost
  <2> HIDE DEF m, n
  <2> QED
    BY <1>3, <1>4 DEF TypeOK
<1> QED
  BY <1>5, <1>6 DEF MeterInv

LEMMA MeterStep == TypeOK /\ TurnInv /\ MeterInv /\ [Next]_vars => MeterInv'
<1> SUFFICES ASSUME TypeOK, TurnInv, MeterInv, [Next]_vars PROVE MeterInv'
  OBVIOUS
<1>t. TypeOK'
  BY TypeStep
<1> USE <1>t
<1>1. ASSUME NEW c \in Convs, StartTurn(c) PROVE MeterInv'
  <2>1. UnderWay' \subseteq UnderWay
    BY <1>1 DEF StartTurn, NoTurn, UnderWay, TypeOK
  <2>9. replies' = replies /\ spend' >= spend
    BY <1>1 DEF StartTurn, TypeOK
  <2> QED
    BY <2>1, <2>9, MeterKept
<1>2. ASSUME NEW c \in Convs, Classify(c) PROVE MeterInv'
  <2>2. ~turn[c].metered
    BY <1>2 DEF Classify, ClassifyImage, At, TurnInv, ReadInTime
  <2>3. turn'[c].metered = turn[c].metered /\ \A d \in Convs \ {c} : turn'[d] = turn[d]
    <3>1. CASE Settle(c, "handoff", "media")
      BY <3>1 DEF Settle, TypeOK, TurnType
    <3>2. CASE turn' = [turn EXCEPT ![c].images = @ - 1]
      BY <3>2 DEF TypeOK, TurnType
    <3>3. ASSUME NEW saw \in BOOLEAN, NEW cost \in Costs,
                 turn' = [turn EXCEPT ![c].pc = "screened", ![c].images = @ - 1,
                                      ![c].asked = TRUE, ![c].saw = saw, ![c].cost = cost]
          PROVE  turn'[c].metered = turn[c].metered /\ \A d \in Convs \ {c} : turn'[d] = turn[d]
      BY <3>3 DEF TypeOK, TurnType
    <3>4. CASE turn[c].images = 0
      BY <1>2, <3>1, <3>4, Zenon DEF Classify, ClassifyImage
    <3>5. CASE turn[c].images # 0
      BY <1>2, <3>2, <3>3, <3>5, Zenon DEF Classify, ClassifyImage
    <3> QED
      BY <3>4, <3>5
  <2>4. UnderWay' \subseteq UnderWay
    BY <2>2, <2>3 DEF UnderWay
  <2>9. replies' = replies /\ spend' >= spend
    <3>1. replies' = replies /\ spend' = spend
      BY <1>2, Zenon DEF Classify, ClassifyImage
    <3> QED
      BY <3>1 DEF TypeOK
  <2> QED
    BY <2>4, <2>9, MeterKept
<1>3. ASSUME NEW c \in Convs, MeterClassifier(c) PROVE MeterInv'
  <2>1. \A d \in Convs : turn'[d].metered = turn[d].metered
    BY <1>3 DEF MeterClassifier, Go, TypeOK, TurnType
  <2>2. ~turn[c].metered
    BY <1>3 DEF MeterClassifier, At, TurnInv, ReadInTime
  <2>3. \A d \in Convs \ {c} : turn'[d] = turn[d]
    BY <1>3 DEF MeterClassifier, Go, TypeOK
  <2>4. UnderWay' \subseteq UnderWay
    BY <2>1, <2>2, <2>3 DEF UnderWay
  <2>5. spend' >= spend
    BY <1>3, CostAssumption DEF MeterClassifier, TypeOK, TurnType
  <2> QED
    BY <1>3, <2>4, <2>5, MeterKept DEF MeterClassifier
<1>4. ASSUME NEW c \in Convs, ReadOrg(c) PROVE MeterInv'
  <2>1. \A d \in Convs : turn'[d].metered = turn[d].metered
    BY <1>4 DEF ReadOrg, Go, TypeOK, TurnType
  <2>2. ~turn[c].metered
    BY <1>4 DEF ReadOrg, At, TurnInv, ReadInTime
  <2>3. \A d \in Convs \ {c} : turn'[d] = turn[d]
    BY <1>4 DEF ReadOrg, Go, TypeOK
  <2>4. UnderWay' \subseteq UnderWay
    BY <2>1, <2>2, <2>3 DEF UnderWay
  <2>9. replies' = replies /\ spend' >= spend
    BY <1>4 DEF ReadOrg, TypeOK
  <2> QED
    BY <2>4, <2>9, MeterKept
<1>5. ASSUME NEW c \in Convs, ReadSpend(c) PROVE MeterInv'
  <2>1. CASE AtCap(spend) \/ ("spend" \in Faults /\ Go(c, "model"))
    <3>1. UnderWay' \subseteq UnderWay
      <4>1. turn[c].pc = "spend"
        BY <1>5 DEF ReadSpend, At
      <4>2. ~turn[c].metered
        BY <4>1 DEF TurnInv, ReadInTime
      <4>3. CASE Settle(c, "handoff", "capped")
        <5>1. turn'[c].metered = turn[c].metered /\ \A d \in Convs \ {c} : turn'[d] = turn[d]
          BY <4>3 DEF Settle, TypeOK, TurnType
        <5> QED
          BY <4>2, <5>1 DEF UnderWay
      <4>4. CASE Go(c, "model")
        <5>1. turn'[c].metered = turn[c].metered /\ \A d \in Convs \ {c} : turn'[d] = turn[d]
          BY <4>4 DEF Go, TypeOK, TurnType
        <5> QED
          BY <4>2, <5>1 DEF UnderWay
      <4> QED
        BY <1>5, <2>1, <4>3, <4>4 DEF ReadSpend
    <3> QED
      BY <1>5, <3>1, MeterKept DEF ReadSpend, TypeOK
  <2>2. CASE ~AtCap(spend)
    <3>1. IsFiniteSet(Convs \ UnderWay')
      BY CostAssumption, FS_Subset
    <3>2. Cardinality(Convs \ UnderWay') \in Nat
      BY <3>1, FS_CardinalityType
    <3>3. Cardinality(Convs \ UnderWay') * MaxCost \in Nat
      BY <3>2, MaxCostIsMax, Times
    <3>4. Cap # NoCap => Cap \in Nat /\ spend < Cap
      BY <2>2, CostAssumption DEF AtCap, TypeOK
    <3>5. replies' = replies /\ spend' = spend /\ replies <= spend /\ replies \in Nat /\ spend \in Nat
      BY <1>5 DEF ReadSpend, MeterInv, TypeOK
    <3> QED
      BY <3>3, <3>4, <3>5 DEF MeterInv
  <2> QED
    BY <2>1, <2>2
<1>6. ASSUME NEW c \in Convs, CallModel(c) PROVE MeterInv'
  <2>2. turn[c].pc \in {"model", "retry"}
    BY <1>6 DEF CallModel, At
  <2>3. turn'[c].metered = turn[c].metered /\ \A d \in Convs \ {c} : turn'[d] = turn[d]
    <3>1. ASSUME NEW flagged \in BOOLEAN, NEW single \in BOOLEAN, NEW allowed \in BOOLEAN,
                 NEW clean, NEW cost \in Costs,
                 Answered(c, Verdict(flagged, single, allowed), clean, cost)
          PROVE  turn'[c].metered = turn[c].metered /\ \A d \in Convs \ {c} : turn'[d] = turn[d]
      BY <3>1 DEF Answered, TypeOK, TurnType
    <3>2. CASE Failed(c, AfterFailure(turn[c].pc))
      BY <3>2 DEF Failed, TypeOK, TurnType
    <3> QED
      BY <1>6, <3>1, <3>2, Zenon DEF CallModel
  <2>4. UnderWay' \subseteq UnderWay
    BY <2>2, <2>3 DEF UnderWay
  <2>9. replies' = replies /\ spend' >= spend
    BY <1>6 DEF CallModel, TypeOK
  <2> QED
    BY <2>4, <2>9, MeterKept
<1>7. ASSUME NEW c \in Convs, Act(c) PROVE MeterInv'
  <2>1. UnderWay' \subseteq UnderWay
    BY <1>7 DEF Act, Go, At, UnderWay, TypeOK, TurnType
  <2>9. replies' = replies /\ spend' >= spend
    BY <1>7 DEF Act, TypeOK
  <2> QED
    BY <2>1, <2>9, MeterKept
<1>8. ASSUME NEW c \in Convs, RecordUsage(c) PROVE MeterInv'
  <2>1. turn[c].pc = "bill" /\ UnderWay' = UnderWay \ {c}
    BY <1>8 DEF RecordUsage, Go, At, UnderWay, TypeOK, TurnType
  <2>2. CASE replies' = replies /\ spend' >= spend
    BY <2>1, <2>2, MeterKept
  <2>3. CASE /\ turn[c].metered /\ spend' = spend + turn[c].cost
             /\ replies' = replies + turn[c].cost
    <3> DEFINE m == Cardinality(Convs \ UnderWay)
               n == Cardinality(Convs \ UnderWay')
    <3>1. c \in UnderWay
      BY <2>1, <2>3 DEF UnderWay
    <3>2. IsFiniteSet(Convs \ UnderWay) /\ Convs \ UnderWay' = (Convs \ UnderWay) \cup {c}
      BY <2>1, CostAssumption, FS_Subset
    <3>3. n = m + 1
      BY <3>1, <3>2, FS_AddElement
    <3>4. m \in Nat
      BY <3>2, FS_CardinalityType
    <3>5. m * MaxCost \in Nat /\ n * MaxCost = m * MaxCost + MaxCost
      BY <3>3, <3>4, MaxCostIsMax, Times
    <3>6. turn[c].cost \in Nat /\ turn[c].cost <= MaxCost
      BY MaxCostIsMax DEF TypeOK, TurnType
    <3>7. /\ Cap # NoCap => Cap \in Nat /\ replies < Cap + m * MaxCost
          /\ replies <= spend
      BY CostAssumption DEF MeterInv
    <3>8. (Cap # NoCap => replies' < Cap + n * MaxCost) /\ replies' <= spend'
      <4> HIDE DEF m, n
      <4> QED
        BY <2>3, <3>5, <3>6, <3>7, MaxCostIsMax DEF TypeOK
    <3> QED
      BY <3>8 DEF MeterInv
  <2>4. turn[c].cost \in Nat
    BY MaxCostIsMax DEF TypeOK, TurnType
  <2> QED
    BY <1>8, <2>2, <2>3, <2>4 DEF RecordUsage, TypeOK
<1>9. ASSUME NEW wanted \in BOOLEAN, SetPaused(wanted) PROVE MeterInv'
  <2>1. UnderWay' \subseteq UnderWay
    BY <1>9 DEF SetPaused, UnderWay
  <2>9. replies' = replies /\ spend' >= spend
    BY <1>9 DEF SetPaused, TypeOK
  <2> QED
    BY <2>1, <2>9, MeterKept
<1>10. CASE Tick
  <2>1. UnderWay' = UnderWay
    BY <1>10 DEF Tick, UnderWay
  <2>2. CASE replies' = replies /\ spend' = spend
    BY <2>1, <2>2, MeterKept DEF TypeOK
  <2>3. CASE replies' = 0 /\ spend' = 0
    <3>1. IsFiniteSet(Convs \ UnderWay')
      BY CostAssumption, FS_Subset
    <3>2. Cardinality(Convs \ UnderWay') \in Nat
      BY <3>1, FS_CardinalityType
    <3>3. Cardinality(Convs \ UnderWay') * MaxCost \in Nat
      BY <3>2, MaxCostIsMax, Times
    <3> QED
      BY <2>3, <3>3, CostAssumption DEF MeterInv
  <2> QED
    BY <1>10, <2>2, <2>3 DEF Tick
<1>11. CASE UNCHANGED vars
  <2>1. UnderWay' \subseteq UnderWay
    BY <1>11 DEF vars, UnderWay
  <2>9. replies' = replies /\ spend' >= spend
    BY <1>11 DEF vars, TypeOK
  <2> QED
    BY <2>1, <2>9, MeterKept
<1> QED
  BY <1>1, <1>2, <1>3, <1>4, <1>5, <1>6, <1>7, <1>8, <1>9, <1>10, <1>11 DEF Next, Step

\* The month's replies pass the cap by less than one reply of each conversation.
THEOREM CapHolds == Spec => []OvershootIsBounded
<1>1. Init => MeterInv
  BY MeterInit
<1>2. TypeOK /\ TurnInv /\ MeterInv /\ [Next]_vars => MeterInv'
  BY MeterStep
<1>3. TypeOK /\ MeterInv => OvershootIsBounded
  <2> SUFFICES ASSUME TypeOK, MeterInv, Cap # NoCap
               PROVE  replies < Cap + Cardinality(Convs) * MaxCost
    BY DEF OvershootIsBounded
  <2>1. /\ IsFiniteSet(Convs) /\ IsFiniteSet(Convs \ UnderWay)
        /\ Cardinality(Convs \ UnderWay) <= Cardinality(Convs)
    BY CostAssumption, FS_Subset
  <2>2. Cardinality(Convs \ UnderWay) \in Nat /\ Cardinality(Convs) \in Nat
    BY <2>1, FS_CardinalityType
  <2> DEFINE m == Cardinality(Convs \ UnderWay)
             n == Cardinality(Convs)
  <2>3. m * MaxCost \in Nat /\ n * MaxCost \in Nat /\ m * MaxCost <= n * MaxCost
    BY <2>1, <2>2, MaxCostIsMax, Times
  <2>4. Cap \in Nat /\ replies < Cap + m * MaxCost
    BY CostAssumption DEF MeterInv
  <2>5. replies \in Nat
    BY DEF TypeOK
  <2>6. replies < Cap + n * MaxCost
    <3> HIDE DEF m, n
    <3> QED
      BY <2>3, <2>4, <2>5
  <2> QED
    BY <2>6
<1> QED
  BY <1>1, <1>2, <1>3, TurnInvariant, PTL DEF Spec
=============================================================================
