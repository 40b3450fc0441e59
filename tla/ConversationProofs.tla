------------------------- MODULE ConversationProofs -------------------------
(***************************************************************************)
(* Theorems about Conversation, for any set of messages and of dashboard   *)
(* sessions, with any of the faults and however many of them.              *)
(***************************************************************************)
EXTENDS Conversation, TLAPS

-----------------------------------------------------------------------------
(* Type correctness.  It needs more than the types: a row that is missing  *)
(* can be made, because a delete happens only below the bound; a turn that *)
(* may still write knows the message it answers and what it says; a call   *)
(* about to attach has found a row.                                        *)

RowCanBeMade == row = 0 => made < MaxRows
TurnIsKnown ==
    /\ al.pc \notin {"idle", "flush", "return", "autoSync", "reschedule"} => al.anchor \in Msgs
    /\ al.pc \in {"claim", "book", "meta"} => al.kind \in Kinds
CallIsKnown == \A s \in Staff : api[s].pc = "attach" => api[s].conv \in 1..MaxRows
TypeInv == TypeOK /\ RowCanBeMade /\ TurnIsKnown /\ CallIsKnown

LEMMA TypeInit == Init => TypeInv
<1> SUFFICES ASSUME Init PROVE TypeInv
  OBVIOUS
<1> USE BoundsAssumption DEF Init
<1>1. ObjectType
  <2>1. seen \in Seq(Msgs) /\ pending \subseteq Msgs /\ replies \subseteq Msgs
    OBVIOUS
  <2>2. handoff \in HandoffStates /\ debounceAt \in Deadlines /\ returnAt \in Deadlines
    BY DEF HandoffStates, Deadlines
  <2>3. ids \in BOOLEAN
    OBVIOUS
  <2>4. convId \in 0..MaxRows /\ alarm \in {"off", "on", "retry"}
    OBVIOUS
  <2> QED
    BY <2>1, <2>2, <2>3, <2>4 DEF ObjectType
<1>2. PostgresType
  BY DEF PostgresType, HandoffStates
<1>3. InbType
  BY DEF InbType, InbPcs
<1>4. AlType
  BY DEF AlType, AlPcs, IdleAl, Kinds
<1>5. ApiType
  BY DEF ApiType, ApiPcs, IdleApi
<1>6. OtherType
  BY DEF OtherType
<1>7. RowCanBeMade
  BY DEF RowCanBeMade
<1>8. TurnIsKnown
  BY DEF TurnIsKnown, IdleAl
<1>9. CallIsKnown
  BY DEF CallIsKnown, IdleApi
<1> QED
  BY <1>1, <1>2, <1>3, <1>4, <1>5, <1>6, <1>7, <1>8, <1>9 DEF TypeInv, TypeOK

\* What the helpers of the handlers return.
LEMMA HereType == ASSUME ObjectType, BoundsAssumption PROVE Here \in -1..MaxRows
BY BoundsAssumption DEF ObjectType, Here

LEMMA ContinuationType ==
    ASSUME NEW kind, NEW sent
    PROVE  /\ AfterSend(kind, sent) \in AlPcs \ {"claim", "book", "meta"}
           /\ AfterClaimTaken(kind) \in AlPcs \ {"claim", "book", "meta"}
           /\ AfterRequest \in AlPcs \ {"book", "meta"}
           /\ AfterRequest = "claim" => al.kind \in Kinds
BY DEF AfterSend, AfterClaimTaken, AfterRequest, AlPcs, Kinds

LEMMA FirstStepType ==
    ASSUME NEW last
    PROVE  /\ FirstStep(last).pc \in {"receipt", "claim", "decide", "return"}
           /\ FirstStep(last).kind \in {"held", "template", "safe", "handoff", "media", "text", "none"}
           /\ FirstStep(last).pc = "claim" => FirstStep(last).kind \in Kinds
BY DEF FirstStep, Kinds

LEMMA OutcomeType ==
    ASSUME TypeInv, NEW o, Outcome(o)
    PROVE  faults' \in 0..MaxFaults
BY BoundsAssumption DEF TypeInv, TypeOK, OtherType, Outcome

LEMMA GoAlType ==
    ASSUME TypeInv, NEW pc \in AlPcs, GoAl(pc)
    PROVE  /\ AlType'
           /\ al'.pc = pc /\ al'.anchor = al.anchor /\ al'.kind = al.kind
<1>1. Here \in -1..MaxRows
  BY BoundsAssumption, HereType DEF TypeInv, TypeOK
<1> QED
  BY <1>1 DEF GoAl, TypeInv, TypeOK, AlType

LEMMA IdleAlType == al' = IdleAl => AlType' /\ al'.pc = "idle"
BY BoundsAssumption DEF AlType, IdleAl, AlPcs

LEMMA GoApiType ==
    ASSUME TypeInv, NEW s \in Staff, NEW pc \in ApiPcs \ {"attach"}, GoApi(s, pc)
    PROVE  ApiType' /\ CallIsKnown'
<1>1. Here \in -1..MaxRows
  BY BoundsAssumption, HereType DEF TypeInv, TypeOK
<1> QED
  BY <1>1 DEF GoApi, TypeInv, TypeOK, ApiType, CallIsKnown

LEMMA EndApiType ==
    ASSUME TypeInv, NEW s \in Staff, EndApi(s)
    PROVE  ApiType' /\ CallIsKnown'
BY BoundsAssumption DEF EndApi, TypeInv, TypeOK, ApiType, IdleApi, ApiPcs, CallIsKnown

LEMMA ThrowAlType == ThrowAl => AlType' /\ al'.pc = "idle"
BY IdleAlType DEF ThrowAl

LEMMA TypeInbound ==
    ASSUME TypeInv, NEW m \in Msgs, OnInbound(m) \/ InboundStep(m)
    PROVE  TypeInv'
<1> USE BoundsAssumption DEF TypeInv, TypeOK
<1>1. CASE OnInbound(m)
  <2>1. ObjectType'
    BY <1>1
       DEF OnInbound, ObjectType, HandoffStates
  <2>2. InbType'
    BY <1>1
       DEF OnInbound, InbType, GoInb, InbPcs, ObjectType
  <2>3. PostgresType' /\ AlType' /\ ApiType' /\ OtherType' /\ RowCanBeMade' /\ TurnIsKnown' /\ CallIsKnown'
    BY <1>1
       DEF OnInbound, object, postgres, PostgresType, AlType, ApiType, OtherType, RowCanBeMade, TurnIsKnown, CallIsKnown
  <2> QED
    BY <2>1, <2>2, <2>3
<1>2. CASE UpdateConversation(m)
  <2>1. ObjectType'
    BY <1>2
       DEF UpdateConversation, ObjectType, PostgresType
  <2>2. InbType'
    BY <1>2
       DEF UpdateConversation, InbType, GoInb, ThrowInb, InbPcs, PostgresType
  <2>3. OtherType'
    BY <1>2, OutcomeType
       DEF UpdateConversation, OtherType
  <2>4. PostgresType' /\ AlType' /\ ApiType' /\ RowCanBeMade' /\ TurnIsKnown' /\ CallIsKnown'
    BY <1>2
       DEF UpdateConversation, object, postgres, PostgresType, AlType, ApiType, RowCanBeMade, TurnIsKnown, CallIsKnown
  <2> QED
    BY <2>1, <2>2, <2>3, <2>4
<1>3. CASE UpsertConversation(m)
  <2>1. ObjectType'
    BY <1>3
       DEF UpsertConversation, UpsertRow, ObjectType, PostgresType, RowCanBeMade
  <2>2. PostgresType' /\ RowCanBeMade'
    BY <1>3
       DEF UpsertConversation, UpsertRow, PostgresType, HandoffStates, RowCanBeMade
  <2>3. InbType'
    BY <1>3
       DEF UpsertConversation, UpsertRow, InbType, GoInb, ThrowInb, InbPcs, PostgresType, RowCanBeMade
  <2>4. OtherType'
    BY <1>3, OutcomeType
       DEF UpsertConversation, UpsertRow, OtherType
  <2>5. AlType' /\ ApiType' /\ TurnIsKnown' /\ CallIsKnown'
    BY <1>3
       DEF UpsertConversation, UpsertRow, object, postgres, AlType, ApiType, TurnIsKnown, CallIsKnown
  <2> QED
    BY <2>1, <2>2, <2>3, <2>4, <2>5
<1>4. CASE InsertMessage(m)
  <2>1. PostgresType' /\ RowCanBeMade'
    BY <1>4
       DEF InsertMessage, PostgresType, RowCanBeMade
  <2>2. InbType'
    BY <1>4
       DEF InsertMessage, InbType, GoInb, ThrowInb, InbPcs
  <2>3. OtherType'
    BY <1>4, OutcomeType
       DEF InsertMessage, OtherType
  <2>4. ObjectType' /\ AlType' /\ ApiType' /\ TurnIsKnown' /\ CallIsKnown'
    BY <1>4
       DEF InsertMessage, object, postgres, ObjectType, AlType, ApiType, TurnIsKnown, CallIsKnown
  <2> QED
    BY <2>1, <2>2, <2>3, <2>4
<1>5. CASE InsertDedupe(m)
  <2>1. ObjectType'
    BY <1>5
       DEF InsertDedupe, ObjectType, Deadlines, Rearm
  <2>2. PostgresType' /\ RowCanBeMade'
    BY <1>5
       DEF InsertDedupe, PostgresType, RowCanBeMade
  <2>3. InbType'
    BY <1>5
       DEF InsertDedupe, InbType, GoInb, ThrowInb, InbPcs
  <2>4. OtherType'
    BY <1>5, OutcomeType
       DEF InsertDedupe, OtherType
  <2>5. AlType' /\ ApiType' /\ TurnIsKnown' /\ CallIsKnown'
    BY <1>5
       DEF InsertDedupe, object, postgres, AlType, ApiType, TurnIsKnown, CallIsKnown
  <2> QED
    BY <2>1, <2>2, <2>3, <2>4, <2>5
<1> QED
  BY <1>1, <1>2, <1>3, <1>4, <1>5 DEF InboundStep

LEMMA TypeTime ==
    ASSUME TypeInv, DebounceElapses \/ IdleElapses
    PROVE  TypeInv'
<1> USE BoundsAssumption DEF TypeInv, TypeOK
<1>1. CASE DebounceElapses
  <2>1. ObjectType'
    BY <1>1
       DEF DebounceElapses, ObjectType, Deadlines
  <2>2. PostgresType' /\ InbType' /\ AlType' /\ ApiType' /\ OtherType' /\ RowCanBeMade' /\ TurnIsKnown' /\ CallIsKnown'
    BY <1>1
       DEF DebounceElapses, object, postgres, PostgresType, InbType, AlType, ApiType, OtherType, RowCanBeMade, TurnIsKnown, CallIsKnown
  <2> QED
    BY <2>1, <2>2
<1>2. CASE IdleElapses
  <2>1. ObjectType'
    BY <1>2
       DEF IdleElapses, ObjectType, Deadlines
  <2>2. PostgresType' /\ InbType' /\ AlType' /\ ApiType' /\ OtherType' /\ RowCanBeMade' /\ TurnIsKnown' /\ CallIsKnown'
    BY <1>2
       DEF IdleElapses, object, postgres, PostgresType, InbType, AlType, ApiType, OtherType, RowCanBeMade, TurnIsKnown, CallIsKnown
  <2> QED
    BY <2>1, <2>2
<1> QED
  BY <1>1, <1>2

LEMMA TypeAlarm ==
    ASSUME TypeInv, AlarmFires \/ AlarmStep
    PROVE  TypeInv'
<1> USE BoundsAssumption DEF TypeInv, TypeOK
<1>1. CASE AlarmFires
  <2>1. ObjectType'
    BY <1>1
       DEF AlarmFires, ObjectType, Deadlines
  <2>2. AlType' /\ TurnIsKnown'
    BY <1>1, GoAlType
       DEF AlarmFires, AlPcs, TurnIsKnown
  <2>3. PostgresType' /\ InbType' /\ ApiType' /\ OtherType' /\ RowCanBeMade' /\ CallIsKnown'
    BY <1>1
       DEF AlarmFires, object, postgres, PostgresType, InbType, ApiType, OtherType, RowCanBeMade, CallIsKnown
  <2> QED
    BY <2>1, <2>2, <2>3
<1>2. CASE FlushBatch
  <2>1. ObjectType'
    BY <1>2
       DEF FlushBatch, ObjectType
  <2>2. AlType' /\ TurnIsKnown'
    <3>1. CASE pending = {}
      BY <1>2, <3>1, GoAlType DEF FlushBatch, AlPcs, TurnIsKnown
    <3>2. CASE pending # {}
      <4>1. PICK last \in pending :
                al' = [pc |-> FirstStep(last).pc, kind |-> FirstStep(last).kind, anchor |-> last,
                       flagged |-> Has("flagged"), conv |-> Here]
        BY <1>2, <3>2 DEF FlushBatch
      <4>2. last \in Msgs /\ Here \in -1..MaxRows
        BY HereType DEF ObjectType
      <4>3. Has("flagged") \in BOOLEAN
        BY DEF Has
      <4> QED
        BY <4>1, <4>2, <4>3, FirstStepType DEF AlType, AlPcs, Kinds, TurnIsKnown
    <3> QED
      BY <3>1, <3>2
  <2>3. OtherType'
    <3>1. anchorOf' \in [Msgs -> Msgs \cup {NoMsg}]
      BY <1>2 DEF FlushBatch, OtherType, ObjectType
    <3> QED
      BY <1>2, <3>1 DEF FlushBatch, OtherType
  <2>4. PostgresType' /\ InbType' /\ ApiType' /\ RowCanBeMade' /\ CallIsKnown'
    BY <1>2
       DEF FlushBatch, object, postgres, PostgresType, InbType, ApiType, RowCanBeMade, CallIsKnown
  <2> QED
    BY <2>1, <2>2, <2>3, <2>4
<1>3. CASE AwaitReceipt
  <2>1. AlType' /\ TurnIsKnown'
    BY <1>3, GoAlType
       DEF AwaitReceipt, AlPcs, TurnIsKnown
  <2>2. ObjectType' /\ PostgresType' /\ InbType' /\ ApiType' /\ OtherType' /\ RowCanBeMade' /\ CallIsKnown'
    BY <1>3
       DEF AwaitReceipt, object, postgres, ObjectType, PostgresType, InbType, ApiType, OtherType, RowCanBeMade, CallIsKnown
  <2> QED
    BY <2>1, <2>2
<1>4. CASE Decide
  <2>1. AlType' /\ TurnIsKnown'
    <3>1. PICK kind \in {"safe", "handoff", "reply", "booked"} :
              al' = [al EXCEPT !.pc = "claim", !.kind = kind, !.conv = Here]
      BY <1>4 DEF Decide
    <3>2. kind \in Kinds
      BY DEF Kinds
    <3> QED
      BY <1>4, <3>1, <3>2, HereType DEF Decide, AlType, AlPcs, TurnIsKnown
  <2>2. ObjectType' /\ PostgresType' /\ InbType' /\ ApiType' /\ OtherType' /\ RowCanBeMade' /\ CallIsKnown'
    BY <1>4
       DEF Decide, object, postgres, ObjectType, PostgresType, InbType, ApiType, OtherType, RowCanBeMade, CallIsKnown
  <2> QED
    BY <2>1, <2>2
<1>5. CASE ClaimReply
  <2>1. ObjectType'
    BY <1>5
       DEF ClaimReply, ObjectType, AlType, TurnIsKnown
  <2>2. AlType' /\ TurnIsKnown'
    BY <1>5, GoAlType, ThrowAlType, ContinuationType
       DEF ClaimReply, AlPcs, TurnIsKnown
  <2>3. PostgresType' /\ InbType' /\ ApiType' /\ OtherType' /\ RowCanBeMade' /\ CallIsKnown'
    BY <1>5
       DEF ClaimReply, object, postgres, PostgresType, InbType, ApiType, OtherType, RowCanBeMade, CallIsKnown
  <2> QED
    BY <2>1, <2>2, <2>3
<1>6. CASE Book
  <2>1. PostgresType' /\ RowCanBeMade'
    BY <1>6
       DEF Book, PostgresType, AlType, TurnIsKnown, RowCanBeMade
  <2>2. AlType' /\ TurnIsKnown'
    <3>1. PICK kind \in {"booked", "sorry"} :
              al' = [al EXCEPT !.pc = "meta", !.conv = Here, !.kind = kind]
      BY <1>6 DEF Book
    <3>2. kind \in Kinds
      BY DEF Kinds
    <3> QED
      BY <1>6, <3>1, <3>2, HereType DEF Book, AlType, AlPcs, TurnIsKnown
  <2>3. OtherType'
    BY <1>6, OutcomeType
       DEF Book, OtherType
  <2>4. ObjectType' /\ InbType' /\ ApiType' /\ CallIsKnown'
    BY <1>6
       DEF Book, object, postgres, ObjectType, InbType, ApiType, CallIsKnown
  <2> QED
    BY <2>1, <2>2, <2>3, <2>4
<1>7. CASE SendToMeta
  <2>1. ObjectType'
    BY <1>7
       DEF SendToMeta, ObjectType, GoAl, ThrowAl
  <2>2. AlType' /\ TurnIsKnown'
    <3>1. al.anchor \in Msgs
      BY <1>7 DEF SendToMeta, TurnIsKnown
    <3>2. \/ GoAl("row")
          \/ GoAl(AfterSend(al.kind, FALSE))
          \/ ThrowAl
      BY <1>7 DEF SendToMeta
    <3>3. CASE GoAl("row")
      BY <3>1, <3>3, GoAlType DEF AlPcs, TurnIsKnown
    <3>4. CASE GoAl(AfterSend(al.kind, FALSE))
      BY <3>1, <3>4, GoAlType, ContinuationType DEF TurnIsKnown
    <3>5. CASE ThrowAl
      BY <3>5, ThrowAlType DEF TurnIsKnown
    <3> QED
      BY <3>2, <3>3, <3>4, <3>5
  <2>3. OtherType'
    <3>1. out' \in [Msgs -> Seq(Kinds)]
      <4>1. al.anchor \in Msgs /\ al.kind \in Kinds
        BY <1>7 DEF SendToMeta, TurnIsKnown
      <4>2. \/ out' = out
            \/ out' = [out EXCEPT ![al.anchor] = Append(out[al.anchor], al.kind)]
        BY <1>7 DEF SendToMeta
      <4>3. Append(out[al.anchor], al.kind) \in Seq(Kinds)
        BY <4>1 DEF OtherType
      <4> QED
        BY <4>1, <4>2, <4>3 DEF OtherType
    <3>2. faults' \in 0..MaxFaults
      <4>1. \/ faults' = faults
            \/ faults < MaxFaults /\ faults' = faults + 1
            \/ \E o \in {"ok", "fail", "lost"} : Outcome(o)
        BY <1>7 DEF SendToMeta
      <4> QED
        BY <4>1, OutcomeType DEF OtherType
    <3> QED
      BY <1>7, <3>1, <3>2 DEF SendToMeta, OtherType
  <2>4. PostgresType' /\ InbType' /\ ApiType' /\ RowCanBeMade' /\ CallIsKnown'
    BY <1>7
       DEF SendToMeta, object, postgres, PostgresType, InbType, ApiType, RowCanBeMade, CallIsKnown
  <2> QED
    BY <2>1, <2>2, <2>3, <2>4
<1>8. CASE InsertOutbound
  <2>1. ObjectType'
    BY <1>8
       DEF InsertOutbound, AlWrite, ObjectType, ThrowAl
  <2>2. PostgresType' /\ RowCanBeMade'
    BY <1>8
       DEF InsertOutbound, AlWrite, PostgresType, RowCanBeMade
  <2>3. AlType' /\ TurnIsKnown'
    <3>1. AfterSend(al.kind, TRUE) \in AlPcs \ {"claim", "book", "meta"}
      BY ContinuationType
    <3>2. GoAl(AfterSend(al.kind, TRUE)) \/ ThrowAl
      BY <1>8 DEF InsertOutbound, AlWrite
    <3> QED
      BY <1>8, <3>1, <3>2, GoAlType, ThrowAlType DEF InsertOutbound, AlWrite, TurnIsKnown
  <2>4. OtherType'
    BY <1>8, OutcomeType
       DEF InsertOutbound, AlWrite, OtherType
  <2>5. InbType' /\ ApiType' /\ CallIsKnown'
    BY <1>8
       DEF InsertOutbound, AlWrite, object, postgres, InbType, ApiType, CallIsKnown
  <2> QED
    BY <2>1, <2>2, <2>3, <2>4, <2>5
<1>9. CASE RecordUsage
  <2>1. ObjectType'
    BY <1>9
       DEF RecordUsage, AlWrite, ObjectType, ThrowAl
  <2>2. PostgresType' /\ RowCanBeMade'
    BY <1>9
       DEF RecordUsage, AlWrite, PostgresType, RowCanBeMade
  <2>3. AlType' /\ TurnIsKnown'
    BY <1>9, GoAlType, ThrowAlType, ContinuationType
       DEF RecordUsage, AlWrite, AlPcs, TurnIsKnown
  <2>4. OtherType'
    BY <1>9, OutcomeType
       DEF RecordUsage, AlWrite, OtherType
  <2>5. InbType' /\ ApiType' /\ CallIsKnown'
    BY <1>9
       DEF RecordUsage, AlWrite, object, postgres, InbType, ApiType, CallIsKnown
  <2> QED
    BY <2>1, <2>2, <2>3, <2>4, <2>5
<1>10. CASE RecordLead
  <2>1. ObjectType'
    BY <1>10
       DEF RecordLead, AlWrite, ObjectType, ThrowAl
  <2>2. PostgresType' /\ RowCanBeMade'
    BY <1>10
       DEF RecordLead, AlWrite, PostgresType, RowCanBeMade
  <2>3. AlType' /\ TurnIsKnown'
    BY <1>10, GoAlType, ThrowAlType, ContinuationType
       DEF RecordLead, AlWrite, AlPcs, TurnIsKnown
  <2>4. OtherType'
    BY <1>10, OutcomeType
       DEF RecordLead, AlWrite, OtherType
  <2>5. InbType' /\ ApiType' /\ CallIsKnown'
    BY <1>10
       DEF RecordLead, AlWrite, object, postgres, InbType, ApiType, CallIsKnown
  <2> QED
    BY <2>1, <2>2, <2>3, <2>4, <2>5
<1>11. CASE RecordFlag
  <2>1. ObjectType'
    BY <1>11
       DEF RecordFlag, AlWrite, ObjectType, ThrowAl
  <2>2. PostgresType' /\ RowCanBeMade'
    BY <1>11
       DEF RecordFlag, AlWrite, PostgresType, TurnIsKnown, RowCanBeMade
  <2>3. AlType' /\ TurnIsKnown'
    BY <1>11, GoAlType, ThrowAlType, ContinuationType
       DEF RecordFlag, AlWrite, AlPcs, TurnIsKnown
  <2>4. OtherType'
    BY <1>11, OutcomeType
       DEF RecordFlag, AlWrite, OtherType
  <2>5. InbType' /\ ApiType' /\ CallIsKnown'
    BY <1>11
       DEF RecordFlag, AlWrite, object, postgres, InbType, ApiType, CallIsKnown
  <2> QED
    BY <2>1, <2>2, <2>3, <2>4, <2>5
<1>12. CASE RequestHandoff
  <2>1. ObjectType'
    BY <1>12
       DEF RequestHandoff, ObjectType, HandoffStates
  <2>2. AlType' /\ TurnIsKnown'
    BY <1>12, GoAlType, ThrowAlType, ContinuationType
       DEF RequestHandoff, AlPcs, AfterRequest, TurnIsKnown
  <2>3. PostgresType' /\ InbType' /\ ApiType' /\ OtherType' /\ RowCanBeMade' /\ CallIsKnown'
    BY <1>12
       DEF RequestHandoff, object, postgres, PostgresType, InbType, ApiType, OtherType, RowCanBeMade, CallIsKnown
  <2> QED
    BY <2>1, <2>2, <2>3
<1>13. CASE SyncRequested
  <2>1. ObjectType'
    BY <1>13
       DEF SyncRequested, AlSync, ObjectType, ThrowAl
  <2>2. PostgresType' /\ RowCanBeMade'
    BY <1>13
       DEF SyncRequested, AlSync, PostgresType, HandoffStates, RowCanBeMade
  <2>3. AlType' /\ TurnIsKnown'
    BY <1>13, GoAlType, ThrowAlType, ContinuationType
       DEF SyncRequested, AlSync, AlPcs, AfterRequest, TurnIsKnown
  <2>4. OtherType'
    BY <1>13, OutcomeType
       DEF SyncRequested, AlSync, OtherType
  <2>5. InbType' /\ ApiType' /\ CallIsKnown'
    BY <1>13
       DEF SyncRequested, AlSync, object, postgres, InbType, ApiType, CallIsKnown
  <2> QED
    BY <2>1, <2>2, <2>3, <2>4, <2>5
<1>14. CASE AutoReturn
  <2>1. ObjectType'
    BY <1>14
       DEF AutoReturn, ObjectType, Deadlines, HandoffStates
  <2>2. AlType' /\ TurnIsKnown'
    BY <1>14, GoAlType
       DEF AutoReturn, AlPcs, TurnIsKnown
  <2>3. PostgresType' /\ InbType' /\ ApiType' /\ OtherType' /\ RowCanBeMade' /\ CallIsKnown'
    BY <1>14
       DEF AutoReturn, object, postgres, PostgresType, InbType, ApiType, OtherType, RowCanBeMade, CallIsKnown
  <2> QED
    BY <2>1, <2>2, <2>3
<1>15. CASE SyncReturned
  <2>1. ObjectType'
    BY <1>15
       DEF SyncReturned, AlSync, ObjectType, ThrowAl
  <2>2. PostgresType' /\ RowCanBeMade'
    BY <1>15
       DEF SyncReturned, AlSync, PostgresType, HandoffStates, RowCanBeMade
  <2>3. AlType' /\ TurnIsKnown'
    BY <1>15, GoAlType, ThrowAlType, ContinuationType
       DEF SyncReturned, AlSync, AlPcs, TurnIsKnown
  <2>4. OtherType'
    BY <1>15, OutcomeType
       DEF SyncReturned, AlSync, OtherType
  <2>5. InbType' /\ ApiType' /\ CallIsKnown'
    BY <1>15
       DEF SyncReturned, AlSync, object, postgres, InbType, ApiType, CallIsKnown
  <2> QED
    BY <2>1, <2>2, <2>3, <2>4, <2>5
<1>16. CASE Reschedule
  <2>1. ObjectType'
    BY <1>16
       DEF Reschedule, ObjectType, Rearm
  <2>2. AlType' /\ TurnIsKnown'
    BY <1>16, IdleAlType
       DEF Reschedule, TurnIsKnown
  <2>3. PostgresType' /\ InbType' /\ ApiType' /\ OtherType' /\ RowCanBeMade' /\ CallIsKnown'
    BY <1>16
       DEF Reschedule, object, postgres, PostgresType, InbType, ApiType, OtherType, RowCanBeMade, CallIsKnown
  <2> QED
    BY <2>1, <2>2, <2>3
<1> QED
  BY <1>1, <1>2, <1>3, <1>4, <1>5, <1>6, <1>7, <1>8, <1>9, <1>10, <1>11, <1>12, <1>13, <1>14, <1>15, <1>16 DEF AlarmStep

LEMMA TypeDashboard ==
    ASSUME TypeInv, NEW s \in Staff, ApiStep(s) \/ \E op \in Ops : ConversationStub(s, op)
    PROVE  TypeInv'
<1> USE BoundsAssumption DEF TypeInv, TypeOK
<1>1. CASE \E op \in Ops : ConversationStub(s, op)
  <2>1. ApiType' /\ CallIsKnown'
    <3>1. PICK op \in Ops : ConversationStub(s, op)
      BY <1>1
    <3>2. op \in AllOps
      BY OpsAssumption
    <3>3. row \in 0..MaxRows /\ row # 0
      BY <3>1 DEF ConversationStub, PostgresType
    <3>4. row \in 1..MaxRows /\ row \in -1..MaxRows
      BY <3>3
    <3>5. [pc |-> "attach", op |-> op, conv |-> row, waIds |-> {}, keep |-> FALSE]
            \in [pc : ApiPcs, op : AllOps \cup {"none"}, conv : -1..MaxRows,
                 waIds : SUBSET Msgs, keep : BOOLEAN]
      BY <3>2, <3>4 DEF ApiPcs
    <3> QED
      BY <3>1, <3>4, <3>5 DEF ConversationStub, ApiType, CallIsKnown
  <2>2. ObjectType' /\ PostgresType' /\ InbType' /\ AlType' /\ OtherType' /\ RowCanBeMade' /\ TurnIsKnown'
    BY <1>1
       DEF ConversationStub, object, postgres, ObjectType, PostgresType, InbType, AlType, OtherType, RowCanBeMade, TurnIsKnown
  <2> QED
    BY <2>1, <2>2
<1>2. CASE Attach(s)
  <2>1. ObjectType'
    BY <1>2
       DEF Attach, ObjectType, CallIsKnown
  <2>2. ApiType' /\ CallIsKnown'
    BY <1>2
       DEF Attach, ApiType, ApiPcs, AllOps, CallIsKnown
  <2>3. PostgresType' /\ InbType' /\ AlType' /\ OtherType' /\ RowCanBeMade' /\ TurnIsKnown'
    BY <1>2
       DEF Attach, object, postgres, PostgresType, InbType, AlType, OtherType, RowCanBeMade, TurnIsKnown
  <2> QED
    BY <2>1, <2>2, <2>3
<1>3. CASE TakeOver(s)
  <2>1. ObjectType'
    BY <1>3
       DEF TakeOver, ObjectType, Deadlines, HandoffStates, Rearm
  <2>2. ApiType' /\ CallIsKnown'
    BY <1>3, GoApiType
       DEF TakeOver, ApiPcs, CallIsKnown
  <2>3. PostgresType' /\ InbType' /\ AlType' /\ OtherType' /\ RowCanBeMade' /\ TurnIsKnown'
    BY <1>3
       DEF TakeOver, object, postgres, PostgresType, InbType, AlType, OtherType, RowCanBeMade, TurnIsKnown
  <2> QED
    BY <2>1, <2>2, <2>3
<1>4. CASE Release(s)
  <2>1. ObjectType'
    BY <1>4
       DEF Release, ObjectType, Deadlines, HandoffStates, Rearm
  <2>2. ApiType' /\ CallIsKnown'
    BY <1>4, GoApiType
       DEF Release, ApiPcs, CallIsKnown
  <2>3. PostgresType' /\ InbType' /\ AlType' /\ OtherType' /\ RowCanBeMade' /\ TurnIsKnown'
    BY <1>4
       DEF Release, object, postgres, PostgresType, InbType, AlType, OtherType, RowCanBeMade, TurnIsKnown
  <2> QED
    BY <2>1, <2>2, <2>3
<1>5. CASE SyncFromApi(s)
  <2>1. PostgresType' /\ RowCanBeMade'
    BY <1>5
       DEF SyncFromApi, PostgresType, HandoffStates, RowCanBeMade
  <2>2. ApiType' /\ CallIsKnown'
    BY <1>5, EndApiType
       DEF SyncFromApi, CallIsKnown
  <2>3. OtherType'
    BY <1>5, OutcomeType
       DEF SyncFromApi, OtherType
  <2>4. ObjectType' /\ InbType' /\ AlType' /\ TurnIsKnown'
    BY <1>5
       DEF SyncFromApi, object, postgres, ObjectType, InbType, AlType, TurnIsKnown
  <2> QED
    BY <2>1, <2>2, <2>3, <2>4
<1>6. CASE SendHuman(s)
  <2>1. ApiType' /\ CallIsKnown'
    BY <1>6, GoApiType, EndApiType
       DEF SendHuman, ApiPcs, CallIsKnown
  <2>2. ObjectType' /\ PostgresType' /\ InbType' /\ AlType' /\ OtherType' /\ RowCanBeMade' /\ TurnIsKnown'
    BY <1>6
       DEF SendHuman, object, postgres, ObjectType, PostgresType, InbType, AlType, OtherType, RowCanBeMade, TurnIsKnown
  <2> QED
    BY <2>1, <2>2
<1>7. CASE DeliverHuman(s)
  <2>1. ApiType' /\ CallIsKnown'
    BY <1>7, GoApiType, EndApiType
       DEF DeliverHuman, ApiPcs, CallIsKnown
  <2>2. OtherType'
    BY <1>7, OutcomeType
       DEF DeliverHuman, OtherType
  <2>3. ObjectType' /\ PostgresType' /\ InbType' /\ AlType' /\ RowCanBeMade' /\ TurnIsKnown'
    BY <1>7
       DEF DeliverHuman, object, postgres, ObjectType, PostgresType, InbType, AlType, RowCanBeMade, TurnIsKnown
  <2> QED
    BY <2>1, <2>2, <2>3
<1>8. CASE TouchHuman(s)
  <2>1. ObjectType'
    BY <1>8
       DEF TouchHuman, ObjectType, Deadlines, Rearm
  <2>2. ApiType' /\ CallIsKnown'
    BY <1>8, EndApiType
       DEF TouchHuman, CallIsKnown
  <2>3. PostgresType' /\ InbType' /\ AlType' /\ OtherType' /\ RowCanBeMade' /\ TurnIsKnown'
    BY <1>8
       DEF TouchHuman, object, postgres, PostgresType, InbType, AlType, OtherType, RowCanBeMade, TurnIsKnown
  <2> QED
    BY <2>1, <2>2, <2>3
<1>9. CASE EraseCall(s)
  <2>1. ApiType' /\ CallIsKnown'
    BY <1>9, GoApiType, EndApiType
       DEF EraseCall, ApiPcs, CallIsKnown
  <2>2. ObjectType' /\ PostgresType' /\ InbType' /\ AlType' /\ OtherType' /\ RowCanBeMade' /\ TurnIsKnown'
    BY <1>9
       DEF EraseCall, object, postgres, ObjectType, PostgresType, InbType, AlType, OtherType, RowCanBeMade, TurnIsKnown
  <2> QED
    BY <2>1, <2>2
<1>10. CASE EraseIds(s) \/ EraseFlags(s)
  <2>1. ApiType' /\ CallIsKnown'
    <3>1. CASE EndApi(s)
      BY <3>1, EndApiType
    <3>2. ASSUME NEW pc \in {"flags", "purge"}, NEW ms \in SUBSET Msgs, NEW b \in BOOLEAN,
                 api' = [api EXCEPT ![s] = [pc |-> pc, op |-> "erase", conv |-> api[s].conv,
                                            keep |-> b, waIds |-> ms]]
          PROVE  ApiType' /\ CallIsKnown'
      <4>1. api[s].conv \in -1..MaxRows
        BY DEF ApiType
      <4>2. "erase" \in AllOps \cup {"none"}
        BY DEF AllOps
      <4>3. [pc |-> pc, op |-> "erase", conv |-> api[s].conv, keep |-> b, waIds |-> ms]
              \in [pc : ApiPcs, op : AllOps \cup {"none"}, conv : -1..MaxRows,
                   waIds : SUBSET Msgs, keep : BOOLEAN]
        BY <4>1, <4>2 DEF ApiPcs
      <4> QED
        BY <3>2, <4>3 DEF ApiType, CallIsKnown
    <3>3. CASE EraseIds(s)
      <4>1. {m \in Msgs : row = api[s].conv /\ stored[m] # "none"} \in SUBSET Msgs
        OBVIOUS
      <4> QED
        BY <3>1, <3>2, <3>3, <4>1 DEF EraseIds
    <3>4. CASE EraseFlags(s)
      <4>1. HasFlags(api[s].conv) \in BOOLEAN /\ api[s].waIds \in SUBSET Msgs
        BY DEF HasFlags, ApiType
      <4> QED
        BY <3>1, <3>2, <3>4, <4>1 DEF EraseFlags
    <3> QED
      BY <1>10, <3>3, <3>4
  <2>2. OtherType'
    BY <1>10, OutcomeType
       DEF EraseIds, EraseFlags, OtherType
  <2>3. ObjectType' /\ PostgresType' /\ InbType' /\ AlType' /\ RowCanBeMade' /\ TurnIsKnown'
    BY <1>10
       DEF EraseIds, EraseFlags, object, postgres, ObjectType, PostgresType, InbType, AlType, RowCanBeMade, TurnIsKnown
  <2> QED
    BY <2>1, <2>2, <2>3
<1>11. CASE ErasePurge(s)
  <2>1. PostgresType' /\ RowCanBeMade'
    BY <1>11
       DEF ErasePurge, PostgresType, RowCanBeMade
  <2>2. ApiType' /\ CallIsKnown'
    BY <1>11, EndApiType
       DEF ErasePurge, ApiType, ApiPcs, AllOps, CallIsKnown
  <2>3. OtherType'
    BY <1>11, OutcomeType
       DEF ErasePurge, OtherType
  <2>4. ObjectType' /\ InbType' /\ AlType' /\ TurnIsKnown'
    BY <1>11
       DEF ErasePurge, object, postgres, ObjectType, InbType, AlType, TurnIsKnown
  <2> QED
    BY <2>1, <2>2, <2>3, <2>4
<1>12. CASE EraseRows(s)
  <2>1. PostgresType' /\ RowCanBeMade'
    BY <1>12
       DEF EraseRows, PostgresType, RowCanBeMade
  <2>2. ApiType' /\ CallIsKnown'
    BY <1>12, EndApiType
       DEF EraseRows, ApiType, ApiPcs, AllOps, CallIsKnown
  <2>3. OtherType'
    BY <1>12, OutcomeType
       DEF EraseRows, OtherType
  <2>4. ObjectType' /\ InbType' /\ AlType' /\ TurnIsKnown'
    BY <1>12
       DEF EraseRows, object, postgres, ObjectType, InbType, AlType, TurnIsKnown
  <2> QED
    BY <2>1, <2>2, <2>3, <2>4
<1>13. CASE EraseMedia(s)
  <2>1. ObjectType'
    <3>1. CASE UNCHANGED object
      BY <3>1 DEF object, ObjectType
    <3>2. CASE ~UNCHANGED object
      <4>1. /\ seen' = <<>> /\ pending' = {} /\ handoff' = "bot" /\ ids' = FALSE /\ convId' = 0
            /\ debounceAt' = "none" /\ returnAt' = "none" /\ UNCHANGED <<replies, alarm>>
        BY <1>13, <3>2 DEF EraseMedia, DropStorage
      <4>2. seen' \in Seq(Msgs) /\ pending' \subseteq Msgs /\ replies' \subseteq Msgs
        BY <4>1 DEF ObjectType
      <4>3. handoff' \in HandoffStates /\ debounceAt' \in Deadlines /\ returnAt' \in Deadlines
        BY <4>1 DEF HandoffStates, Deadlines
      <4>4. ids' \in BOOLEAN
        BY <4>1
      <4>5. convId' \in 0..MaxRows /\ alarm' \in {"off", "on", "retry"}
        BY <4>1 DEF ObjectType
      <4> QED
        BY <4>2, <4>3, <4>4, <4>5 DEF ObjectType
    <3> QED
      BY <1>13, <3>1, <3>2 DEF EraseMedia
  <2>2. ApiType' /\ CallIsKnown'
    BY <1>13, EndApiType
       DEF EraseMedia, CallIsKnown
  <2>3. OtherType'
    BY <1>13, OutcomeType
       DEF EraseMedia, OtherType
  <2>4. PostgresType' /\ InbType' /\ AlType' /\ RowCanBeMade' /\ TurnIsKnown'
    BY <1>13
       DEF EraseMedia, object, postgres, PostgresType, InbType, AlType, RowCanBeMade, TurnIsKnown
  <2> QED
    BY <2>1, <2>2, <2>3, <2>4
<1> QED
  BY <1>1, <1>2, <1>3, <1>4, <1>5, <1>6, <1>7, <1>8, <1>9, <1>10, <1>11, <1>12, <1>13 DEF ApiStep

LEMMA TypeEnvironment ==
    ASSUME TypeInv, DemoReset \/ Crash
    PROVE  TypeInv'
<1> USE BoundsAssumption DEF TypeInv, TypeOK
<1>1. CASE DemoReset
  <2>1. PostgresType' /\ RowCanBeMade'
    BY <1>1
       DEF DemoReset, PostgresType, RowCanBeMade
  <2>2. OtherType'
    BY <1>1
       DEF DemoReset, OtherType
  <2>3. ObjectType' /\ InbType' /\ AlType' /\ ApiType' /\ TurnIsKnown' /\ CallIsKnown'
    BY <1>1
       DEF DemoReset, object, postgres, ObjectType, InbType, AlType, ApiType, TurnIsKnown, CallIsKnown
  <2> QED
    BY <2>1, <2>2, <2>3
<1>2. CASE Crash
  <2>1. ObjectType'
    BY <1>2
       DEF Crash, ObjectType
  <2>2. InbType'
    BY <1>2
       DEF Crash, InbType, InbPcs
  <2>3. AlType' /\ TurnIsKnown'
    BY <1>2, IdleAlType
       DEF Crash, TurnIsKnown
  <2>4. ApiType' /\ CallIsKnown'
    BY <1>2
       DEF Crash, ApiType, IdleApi, ApiPcs, CallIsKnown
  <2>5. OtherType'
    BY <1>2
       DEF Crash, OtherType
  <2>6. PostgresType' /\ RowCanBeMade'
    BY <1>2
       DEF Crash, object, postgres, PostgresType, RowCanBeMade
  <2> QED
    BY <2>1, <2>2, <2>3, <2>4, <2>5, <2>6
<1> QED
  BY <1>1, <1>2

LEMMA TypeStep == TypeInv /\ [Next]_vars => TypeInv'
<1> SUFFICES ASSUME TypeInv, [Next]_vars PROVE TypeInv'
  OBVIOUS
<1>1. CASE Next
  BY <1>1, TypeInbound, TypeTime, TypeAlarm, TypeDashboard, TypeEnvironment DEF Next
<1>2. CASE UNCHANGED vars
  BY <1>2 DEF vars, object, postgres, TypeInv, TypeOK, ObjectType, PostgresType, InbType, AlType,
     ApiType, OtherType, RowCanBeMade, TurnIsKnown, CallIsKnown
<1> QED
  BY <1>1, <1>2

\* Every variable keeps its type, and what the type needs.
LEMMA TypeInvariant == Spec => []TypeInv
BY TypeInit, TypeStep, PTL DEF Spec

\* Every variable of the object, of Postgres, of Meta and of the handlers keeps
\* its type.
THEOREM TypeCorrectness == Spec => []TypeOK
<1>1. TypeInv => TypeOK
  BY DEF TypeInv
<1> QED
  BY <1>1, TypeInvariant, PTL

-----------------------------------------------------------------------------
(* The sends.  "At most one" is kept by the claim: whoever is about to     *)
(* send holds it, and nobody who holds it has sent yet.  The confirmation  *)
(* and the bill hang on the same turn, so each pc after the claim carries  *)
(* what its turn has done so far.                                          *)

ClaimedFirst ==
    /\ \A m \in Msgs : out[m] # <<>> => m \in replies
    /\ al.pc \in {"book", "meta"} => al.anchor \in replies /\ out[al.anchor] = <<>>
BookedFirst == al.pc = "meta" /\ al.kind = "booked" => al.anchor \in booked
SentFirst ==
    /\ al.pc \in {"row", "usage"} => out[al.anchor] = <<al.kind>> /\ bills[al.anchor] = 0
    /\ al.pc = "usage" => al.kind \in {"reply", "booked"}
SendInv == /\ AtMostOneReply /\ NoFalseConfirmation /\ BilledOnlyIfSent
           /\ ClaimedFirst /\ BookedFirst /\ SentFirst

LEMMA SendInit == Init => SendInv
BY DEF Init, IdleAl, SendInv, AtMostOneReply, NoFalseConfirmation, BilledOnlyIfSent, ClaimedFirst,
       BookedFirst, SentFirst

\* A step in which the bot neither sends, claims, books nor bills.
LEMMA SendKept ==
    ASSUME TypeInv, SendInv, UNCHANGED <<out, replies, booked>>,
           al' = al \/ al'.pc \notin {"book", "meta", "row", "usage"},
           bills' = bills \/ bills' = [m \in Msgs |-> 0]
    PROVE  SendInv'
<1> USE DEF SendInv
<1>1. AtMostOneReply' /\ NoFalseConfirmation' /\ ClaimedFirst' /\ BookedFirst'
  BY DEF AtMostOneReply, NoFalseConfirmation, ClaimedFirst, BookedFirst
<1>2. BilledOnlyIfSent'
  BY DEF BilledOnlyIfSent
<1>3. SentFirst'
  <2>1. CASE al'.pc \notin {"row", "usage"}
    BY <2>1 DEF SentFirst
  <2>2. CASE al'.pc \in {"row", "usage"}
    <3>1. al' = al /\ al.pc \in {"row", "usage"}
      BY <2>2
    <3>2. al.anchor \in Msgs
      BY <3>1 DEF TypeInv, TurnIsKnown
    <3> QED
      BY <3>1, <3>2 DEF SentFirst
  <2> QED
    BY <2>1, <2>2
<1> QED
  BY <1>1, <1>2, <1>3

\* The continuations that follow a send, or the lack of one.
LEMMA SendContinuation ==
    ASSUME NEW kind, NEW sent
    PROVE  /\ AfterSend(kind, sent) \notin {"book", "meta", "row"}
           /\ AfterSend(kind, sent) = "usage" => sent = TRUE /\ kind \in {"reply", "booked"}
           /\ AfterClaimTaken(kind) \notin {"book", "meta", "row", "usage"}
           /\ AfterRequest \notin {"book", "meta", "row", "usage"}
BY DEF AfterSend, AfterClaimTaken, AfterRequest

\* The steps that settle a turn: the claim, the booking, the send, the
\* outbound row and the bill.
LEMMA SendTurn ==
    ASSUME TypeInv, SendInv,
           ClaimReply \/ Book \/ SendToMeta \/ InsertOutbound \/ RecordUsage
    PROVE  SendInv'
<1> USE DEF SendInv
<1>1. CASE ClaimReply
  <2>1. al.anchor \in Msgs
    BY <1>1 DEF ClaimReply, TypeInv, TurnIsKnown
  <2>2. /\ al'.anchor = al.anchor /\ al'.kind = al.kind
        /\ al'.pc \in {"book", "meta"} => al.anchor \notin replies
        /\ al'.pc = "meta" => al.kind # "booked"
        /\ al'.pc \notin {"row", "usage"}
    <3>1. CASE al.anchor \in replies
      <4>1. AfterClaimTaken(al.kind) \in AlPcs /\ GoAl(AfterClaimTaken(al.kind))
        BY <1>1, <3>1, ContinuationType DEF ClaimReply
      <4> QED
        BY <4>1, GoAlType, SendContinuation
    <3>2. CASE al.anchor \notin replies
      <4>1. GoAl(IF al.kind = "booked" THEN "book" ELSE "meta")
        BY <1>1, <3>2 DEF ClaimReply
      <4>2. (IF al.kind = "booked" THEN "book" ELSE "meta") \in AlPcs
        BY DEF AlPcs
      <4> QED
        BY <3>2, <4>1, <4>2, GoAlType
    <3> QED
      BY <3>1, <3>2
  <2>3. UNCHANGED <<out, bills, booked>> /\ replies' = replies \cup {al.anchor}
    BY <1>1 DEF ClaimReply, postgres
  <2>4. AtMostOneReply' /\ NoFalseConfirmation' /\ BilledOnlyIfSent'
    BY <2>3 DEF AtMostOneReply, NoFalseConfirmation, BilledOnlyIfSent
  <2>5. ClaimedFirst' /\ BookedFirst' /\ SentFirst'
    BY <2>1, <2>2, <2>3 DEF ClaimedFirst, BookedFirst, SentFirst
  <2> QED
    BY <2>4, <2>5
<1>2. CASE Book
  <2>1. al.pc = "book" /\ al.anchor \in Msgs
    BY <1>2 DEF Book, TypeInv, TurnIsKnown
  <2>2. PICK o \in {"ok", "fail", "lost"}, free \in BOOLEAN :
          /\ booked' = IF Took(o) /\ free THEN booked \cup {al.anchor} ELSE booked
          /\ al' = [al EXCEPT !.pc = "meta", !.conv = Here,
                              !.kind = IF BookedFor(o, free) THEN "booked" ELSE "sorry"]
    BY <1>2 DEF Book
  <2>3. /\ al'.pc = "meta" /\ al'.anchor = al.anchor
        /\ al'.kind = "booked" => al.anchor \in booked'
    BY <2>2 DEF Took, BookedFor, TypeInv, TypeOK, AlType
  <2>4. UNCHANGED <<out, bills, replies>> /\ booked \subseteq booked'
    BY <1>2, <2>2 DEF Book, object
  <2>5. AtMostOneReply' /\ NoFalseConfirmation' /\ BilledOnlyIfSent'
    BY <2>4 DEF AtMostOneReply, NoFalseConfirmation, BilledOnlyIfSent
  <2>6. ClaimedFirst' /\ BookedFirst' /\ SentFirst'
    BY <2>1, <2>3, <2>4 DEF ClaimedFirst, BookedFirst, SentFirst
  <2> QED
    BY <2>5, <2>6
<1>3. CASE SendToMeta
  <2>1. /\ al.pc = "meta" /\ al.anchor \in Msgs /\ out[al.anchor] = <<>> /\ bills[al.anchor] = 0
        /\ al.anchor \in replies /\ al.kind \in Kinds
        /\ al.kind = "booked" => al.anchor \in booked
    <3>1. al.pc = "meta" /\ al.anchor \in Msgs /\ al.kind \in Kinds
      BY <1>3 DEF SendToMeta, TypeInv, TurnIsKnown
    <3>2. out[al.anchor] = <<>> /\ al.anchor \in replies
      BY <3>1 DEF ClaimedFirst
    <3>3. bills[al.anchor] = 0
      <4>1. Len(out[al.anchor]) = 0
        BY <3>2
      <4>2. out[al.anchor] \notin {<<"reply">>, <<"booked">>}
        BY <4>1
      <4>3. ~(bills[al.anchor] > 0)
        BY <3>1, <4>2 DEF BilledOnlyIfSent
      <4>4. bills[al.anchor] \in Nat
        BY <3>1 DEF TypeInv, TypeOK, PostgresType
      <4> QED
        BY <4>3, <4>4
    <3> QED
      BY <3>1, <3>2, <3>3 DEF BookedFirst
  <2>2. UNCHANGED <<bills, booked, replies>>
    BY <1>3 DEF SendToMeta, object, postgres
  <2>3. \/ out' = out
        \/ out' = [out EXCEPT ![al.anchor] = <<al.kind>>]
    <3>1. Append(<<>>, al.kind) = <<al.kind>>
      BY <2>1
    <3> QED
      BY <1>3, <2>1, <3>1 DEF SendToMeta, TypeInv, TypeOK, OtherType
  <2>4. \/ al'.pc \notin {"book", "meta", "row", "usage"}
        \/ /\ al'.pc = "row" /\ al'.anchor = al.anchor /\ al'.kind = al.kind
           /\ out' = [out EXCEPT ![al.anchor] = <<al.kind>>]
    <3>1. AfterSend(al.kind, FALSE) \in AlPcs
      BY ContinuationType
    <3>2. AfterSend(al.kind, FALSE) \notin {"book", "meta", "row", "usage"}
      BY SendContinuation
    <3>3. CASE GoAl(AfterSend(al.kind, FALSE))
      BY <3>1, <3>2, <3>3, GoAlType
    <3>4. CASE ThrowAl
      BY <3>4, ThrowAlType
    <3>5. CASE GoAl("row") /\ out' = [out EXCEPT ![al.anchor] = Append(@, al.kind)]
      <4>1. "row" \in AlPcs
        BY DEF AlPcs
      <4>2. Append(<<>>, al.kind) = <<al.kind>>
        BY <2>1
      <4> QED
        BY <2>1, <3>5, <4>1, <4>2, GoAlType
    <3> QED
      BY <1>3, <3>3, <3>4, <3>5 DEF SendToMeta, Took
  <2>5. \A m \in Msgs : out'[m] = out[m] \/ (m = al.anchor /\ out'[m] = <<al.kind>>)
    BY <2>1, <2>3 DEF TypeInv, TypeOK, OtherType
  <2>6. AtMostOneReply'
    <3> SUFFICES ASSUME NEW m \in Msgs PROVE Len(out'[m]) <= 1
      BY DEF AtMostOneReply
    <3>1. CASE out'[m] = out[m]
      BY <3>1 DEF AtMostOneReply
    <3>2. CASE out'[m] = <<al.kind>>
      <4>1. Len(<<al.kind>>) = 1
        OBVIOUS
      <4> QED
        BY <3>2, <4>1
    <3> QED
      BY <2>5, <3>1, <3>2
  <2>7. NoFalseConfirmation'
    BY <2>1, <2>2, <2>5 DEF NoFalseConfirmation
  <2>8. BilledOnlyIfSent'
    BY <2>1, <2>2, <2>5 DEF BilledOnlyIfSent
  <2>9. ClaimedFirst' /\ BookedFirst'
    BY <2>1, <2>2, <2>4, <2>5 DEF ClaimedFirst, BookedFirst
  <2>10. SentFirst'
    BY <2>1, <2>2, <2>4 DEF SentFirst, TypeInv, TypeOK, OtherType
  <2> QED
    BY <2>6, <2>7, <2>8, <2>9, <2>10
<1>4. CASE InsertOutbound
  <2>1. al.pc = "row" /\ UNCHANGED <<out, replies, booked, bills>>
    BY <1>4 DEF InsertOutbound, AlWrite
  <2>2. al.anchor \in Msgs
    BY <2>1 DEF TypeInv, TurnIsKnown
  <2>3. \/ al'.pc \notin {"book", "meta", "row", "usage"}
        \/ /\ al'.pc = "usage" /\ al'.anchor = al.anchor /\ al'.kind = al.kind
           /\ al.kind \in {"reply", "booked"}
    <3>1. AfterSend(al.kind, TRUE) \in AlPcs
      BY ContinuationType
    <3>2. CASE ThrowAl
      BY <3>2, ThrowAlType
    <3>3. CASE GoAl(AfterSend(al.kind, TRUE))
      BY <3>1, <3>3, GoAlType, SendContinuation
    <3> QED
      BY <1>4, <3>2, <3>3 DEF InsertOutbound, AlWrite
  <2>4. AtMostOneReply' /\ NoFalseConfirmation' /\ BilledOnlyIfSent'
    BY <2>1 DEF AtMostOneReply, NoFalseConfirmation, BilledOnlyIfSent
  <2>5. ClaimedFirst' /\ BookedFirst' /\ SentFirst'
    BY <2>1, <2>2, <2>3 DEF ClaimedFirst, BookedFirst, SentFirst
  <2> QED
    BY <2>4, <2>5
<1>5. CASE RecordUsage
  <2>1. /\ al.pc = "usage" /\ UNCHANGED <<out, replies, booked>>
        /\ bills' = bills \/ bills' = [bills EXCEPT ![al.anchor] = @ + 1]
    BY <1>5 DEF RecordUsage, AlWrite
  <2>2. /\ al.anchor \in Msgs /\ out[al.anchor] = <<al.kind>> /\ bills[al.anchor] = 0
        /\ al.kind \in {"reply", "booked"}
    BY <2>1 DEF TypeInv, TurnIsKnown, SentFirst
  <2>3. al'.pc \notin {"book", "meta", "row", "usage"}
    <3>1. "lead" \in AlPcs
      BY DEF AlPcs
    <3>2. CASE ThrowAl
      BY <3>2, ThrowAlType
    <3>3. CASE GoAl("lead")
      BY <3>1, <3>3, GoAlType
    <3> QED
      BY <1>5, <3>2, <3>3 DEF RecordUsage, AlWrite
  <2>4. AtMostOneReply' /\ NoFalseConfirmation'
    BY <2>1 DEF AtMostOneReply, NoFalseConfirmation
  <2>5. BilledOnlyIfSent'
    <3>1. CASE bills' = bills
      BY <2>1, <3>1 DEF BilledOnlyIfSent
    <3>2. CASE bills' = [bills EXCEPT ![al.anchor] = @ + 1]
      <4>1. \A m \in Msgs : bills'[m] = IF m = al.anchor THEN 1 ELSE bills[m]
        BY <2>2, <3>2 DEF TypeInv, TypeOK, PostgresType
      <4>2. out'[al.anchor] \in {<<"reply">>, <<"booked">>}
        BY <2>1, <2>2
      <4> QED
        BY <2>1, <4>1, <4>2 DEF BilledOnlyIfSent
    <3> QED
      BY <2>1, <3>1, <3>2
  <2>6. ClaimedFirst' /\ BookedFirst' /\ SentFirst'
    BY <2>1, <2>3 DEF ClaimedFirst, BookedFirst, SentFirst
  <2> QED
    BY <2>4, <2>5, <2>6
<1> QED
  BY <1>1, <1>2, <1>3, <1>4, <1>5

\* Every other step of the alarm leaves the sends alone.
LEMMA SendAlarm ==
    ASSUME TypeInv, SendInv, AlarmFires \/ AlarmStep
    PROVE  SendInv'
<1>1. CASE ClaimReply \/ Book \/ SendToMeta \/ InsertOutbound \/ RecordUsage
  BY <1>1, SendTurn
<1>2. CASE AlarmFires
  <2>1. {"flush", "return"} \subseteq AlPcs
    BY DEF AlPcs
  <2>2. al'.pc \in {"flush", "return"}
    BY <1>2, <2>1, GoAlType DEF AlarmFires
  <2> QED
    BY <1>2, <2>2, SendKept DEF AlarmFires, postgres
<1>3. CASE FlushBatch
  <2>1. al'.pc \notin {"book", "meta", "row", "usage"}
    <3>1. "return" \in AlPcs
      BY DEF AlPcs
    <3>2. CASE GoAl("return")
      BY <3>1, <3>2, GoAlType
    <3>3. CASE ~GoAl("return")
      BY <1>3, <3>3, FirstStepType DEF FlushBatch
    <3> QED
      BY <3>2, <3>3
  <2> QED
    BY <1>3, <2>1, SendKept DEF FlushBatch, postgres
<1>4. CASE AwaitReceipt
  <2>1. {"return", "request"} \subseteq AlPcs
    BY DEF AlPcs
  <2>2. al'.pc \in {"return", "request"}
    BY <1>4, <2>1, GoAlType DEF AwaitReceipt
  <2> QED
    BY <1>4, <2>2, SendKept DEF AwaitReceipt, object, postgres
<1>5. CASE Decide
  <2>1. al'.pc = "claim"
    BY <1>5 DEF Decide, TypeInv, TypeOK, AlType
  <2> QED
    BY <1>5, <2>1, SendKept DEF Decide, object, postgres
<1>6. CASE RecordLead \/ RecordFlag
  <2>1. {"return", "request"} \subseteq AlPcs
    BY DEF AlPcs
  <2>2. al'.pc \in {"idle", "return", "request"}
    BY <1>6, <2>1, GoAlType, ThrowAlType DEF RecordLead, RecordFlag, AlWrite
  <2>3. UNCHANGED <<out, replies, booked, bills>>
    BY <1>6 DEF RecordLead, RecordFlag, AlWrite
  <2> QED
    BY <2>2, <2>3, SendKept
<1>7. CASE RequestHandoff
  <2>1. "sync" \in AlPcs /\ AfterRequest \in AlPcs
    BY ContinuationType DEF AlPcs
  <2>2. al'.pc \in {"sync", AfterRequest}
    BY <1>7, <2>1, GoAlType DEF RequestHandoff
  <2>3. al'.pc \notin {"book", "meta", "row", "usage"}
    BY <2>2, SendContinuation
  <2> QED
    BY <1>7, <2>3, SendKept DEF RequestHandoff, postgres
<1>8. CASE SyncRequested \/ SyncReturned
  <2>1. "reschedule" \in AlPcs /\ AfterRequest \in AlPcs
    BY ContinuationType DEF AlPcs
  <2>2. al'.pc \in {"idle", "reschedule", AfterRequest}
    BY <1>8, <2>1, GoAlType, ThrowAlType DEF SyncRequested, SyncReturned, AlSync
  <2>3. al'.pc \notin {"book", "meta", "row", "usage"}
    BY <2>2, SendContinuation
  <2>4. UNCHANGED <<out, replies, booked, bills>>
    BY <1>8 DEF SyncRequested, SyncReturned, AlSync
  <2> QED
    BY <2>3, <2>4, SendKept
<1>9. CASE AutoReturn
  <2>1. {"autoSync", "reschedule"} \subseteq AlPcs
    BY DEF AlPcs
  <2>2. al'.pc \in {"autoSync", "reschedule"}
    BY <1>9, <2>1, GoAlType DEF AutoReturn
  <2> QED
    BY <1>9, <2>2, SendKept DEF AutoReturn, postgres
<1>10. CASE Reschedule
  BY <1>10, IdleAlType, SendKept DEF Reschedule, postgres
<1> QED
  BY <1>1, <1>2, <1>3, <1>4, <1>5, <1>6, <1>7, <1>8, <1>9, <1>10 DEF AlarmStep

\* Nobody but the alarm sends, claims, books or bills.
LEMMA SendOthers ==
    ASSUME TypeInv, SendInv,
           \/ \E m \in Msgs : OnInbound(m) \/ InboundStep(m)
           \/ DebounceElapses \/ IdleElapses \/ DemoReset \/ Crash
           \/ \E s \in Staff : ApiStep(s) \/ \E op \in Ops : ConversationStub(s, op)
    PROVE  SendInv'
<1>1. CASE \E m \in Msgs : OnInbound(m) \/ InboundStep(m)
  <2>1. UNCHANGED <<out, replies, booked, bills, al>>
    BY <1>1 DEF InboundStep, OnInbound, UpdateConversation, UpsertConversation, UpsertRow, InsertMessage,
       InsertDedupe, object, postgres
  <2> QED
    BY <2>1, SendKept
<1>2. CASE DebounceElapses \/ IdleElapses \/ DemoReset
  BY <1>2, SendKept DEF DebounceElapses, IdleElapses, DemoReset, object, postgres
<1>3. CASE Crash
  BY <1>3, IdleAlType, SendKept DEF Crash, postgres
<1>4. CASE \E s \in Staff : ApiStep(s) \/ \E op \in Ops : ConversationStub(s, op)
  <2>1. PICK s \in Staff : ApiStep(s) \/ \E op \in Ops : ConversationStub(s, op)
    BY <1>4
  <2>2. CASE \/ \E op \in Ops : ConversationStub(s, op)
             \/ Attach(s) \/ TakeOver(s) \/ Release(s) \/ SyncFromApi(s)
             \/ SendHuman(s) \/ DeliverHuman(s) \/ TouchHuman(s)
    <3>1. UNCHANGED <<out, replies, booked, bills, al>>
      BY <2>2 DEF ConversationStub, Attach, TakeOver, Release, SyncFromApi, SendHuman, DeliverHuman,
         TouchHuman, object, postgres
    <3> QED
      BY <3>1, SendKept
  <2>3. CASE EraseCall(s) \/ EraseIds(s) \/ EraseFlags(s) \/ EraseRows(s)
    <3>1. UNCHANGED <<out, replies, booked, bills, al>>
      BY <2>3 DEF EraseCall, EraseIds, EraseFlags, EraseRows, object, postgres
    <3> QED
      BY <3>1, SendKept
  <2>4. CASE ErasePurge(s)
    <3>1. UNCHANGED <<out, replies, booked, al>>
      BY <2>4 DEF ErasePurge, object
    <3>2. bills' = bills \/ bills' = [m \in Msgs |-> 0]
      BY <2>4 DEF ErasePurge
    <3> QED
      BY <3>1, <3>2, SendKept
  <2>5. CASE EraseMedia(s)
    <3>1. UNCHANGED <<out, replies, booked, bills, al>>
      BY <2>5 DEF EraseMedia, DropStorage, object, postgres
    <3> QED
      BY <3>1, SendKept
  <2> QED
    BY <2>1, <2>2, <2>3, <2>4, <2>5 DEF ApiStep
<1> QED
  BY <1>1, <1>2, <1>3, <1>4

LEMMA SendStep == TypeInv /\ SendInv /\ [Next]_vars => SendInv'
<1> SUFFICES ASSUME TypeInv, SendInv, [Next]_vars PROVE SendInv'
  OBVIOUS
<1>1. CASE Next
  BY <1>1, SendAlarm, SendOthers DEF Next
<1>2. CASE UNCHANGED vars
  BY <1>2, SendKept DEF vars, object, postgres
<1> QED
  BY <1>1, <1>2

LEMMA SendInvariant == Spec => []SendInv
BY SendInit, SendStep, TypeInvariant, PTL DEF Spec

\* Whatever is lost, retried, redelivered or erased, the bot answers a burst
\* at most once.
THEOREM ReplyOnce == Spec => []AtMostOneReply
<1>1. SendInv => AtMostOneReply
  BY DEF SendInv
<1> QED
  BY <1>1, SendInvariant, PTL

\* The customer reads "you're booked" only for a slot that was taken.
THEOREM ConfirmationIsTrue == Spec => []NoFalseConfirmation
<1>1. SendInv => NoFalseConfirmation
  BY DEF SendInv
<1> QED
  BY <1>1, SendInvariant, PTL

\* The meter is charged once, and only for a model reply that went out.
THEOREM BillIsEarned == Spec => []BilledOnlyIfSent
<1>1. SendInv => BilledOnlyIfSent
  BY DEF SendInv
<1> QED
  BY <1>1, SendInvariant, PTL

-----------------------------------------------------------------------------
(* The timers.  The lock and its deadline are set and cleared in the same  *)
(* storage step, and alarm() gives the alarm up only while it is running.  *)

TimerInv == PersonHasTimer /\ DeadlineIsArmed

LEMMA TimerInit == Init => TimerInv
BY DEF Init, TimerInv, PersonHasTimer, DeadlineIsArmed

\* A step that leaves the lock, the deadlines and the alarm as they stand.
LEMMA TimerKept ==
    ASSUME TimerInv,
           handoff' = "human" <=> handoff = "human",
           returnAt' = "none" <=> returnAt = "none",
           debounceAt' # "none" => debounceAt # "none",
           alarm' = alarm \/ alarm' = "retry",
           al'.pc = "idle" => al.pc = "idle" \/ alarm' = "retry"
    PROVE  TimerInv'
BY DEF TimerInv, PersonHasTimer, DeadlineIsArmed

LEMMA TimerEvents ==
    ASSUME TypeInv, TimerInv,
           \/ \E m \in Msgs : OnInbound(m) \/ InboundStep(m)
           \/ DebounceElapses \/ IdleElapses \/ DemoReset \/ Crash
    PROVE  TimerInv'
<1>1. CASE \E m \in Msgs : OnInbound(m)
  BY <1>1, TimerKept DEF OnInbound
<1>2. CASE \E m \in Msgs : UpdateConversation(m) \/ UpsertConversation(m) \/ InsertMessage(m)
  BY <1>2, TimerKept DEF UpdateConversation, UpsertConversation, InsertMessage, object
<1>3. CASE \E m \in Msgs : InsertDedupe(m)
  <2>1. UNCHANGED <<handoff, returnAt, al>>
    BY <1>3 DEF InsertDedupe
  <2>2. \/ Rearm
        \/ alarm' = alarm /\ debounceAt' = debounceAt
    BY <1>3 DEF InsertDedupe
  <2> QED
    BY <2>1, <2>2 DEF Rearm, TimerInv, PersonHasTimer, DeadlineIsArmed
<1>4. CASE DebounceElapses \/ IdleElapses \/ DemoReset
  BY <1>4, TimerKept DEF DebounceElapses, IdleElapses, DemoReset, object
<1>5. CASE Crash
  BY <1>5, TimerKept DEF Crash
<1> QED
  BY <1>1, <1>2, <1>3, <1>4, <1>5 DEF InboundStep

LEMMA TimerAlarm ==
    ASSUME TypeInv, TimerInv, AlarmFires \/ AlarmStep
    PROVE  TimerInv'
<1>1. CASE AlarmFires
  <2>1. {"flush", "return"} \subseteq AlPcs
    BY DEF AlPcs
  <2>2. al'.pc \in {"flush", "return"}
    BY <1>1, <2>1, GoAlType DEF AlarmFires
  <2>3. UNCHANGED <<handoff, returnAt>>
    BY <1>1 DEF AlarmFires
  <2> QED
    BY <2>2, <2>3 DEF TimerInv, PersonHasTimer, DeadlineIsArmed
<1>2. CASE RequestHandoff
  <2>1. "sync" \in AlPcs /\ AfterRequest \in AlPcs
    BY ContinuationType DEF AlPcs
  <2>2. al'.pc # "idle"
    <3>1. AfterRequest # "idle"
      BY DEF AfterRequest
    <3> QED
      BY <1>2, <2>1, <3>1, GoAlType DEF RequestHandoff
  <2> QED
    BY <1>2, <2>2, TimerKept DEF RequestHandoff
<1>3. CASE AutoReturn
  <2>1. {"autoSync", "reschedule"} \subseteq AlPcs
    BY DEF AlPcs
  <2>2. al'.pc # "idle"
    BY <1>3, <2>1, GoAlType DEF AutoReturn
  <2> QED
    BY <1>3, <2>2 DEF AutoReturn, TimerInv, PersonHasTimer, DeadlineIsArmed
<1>4. CASE Reschedule
  BY <1>4 DEF Reschedule, Rearm, TimerInv, PersonHasTimer, DeadlineIsArmed
<1>5. CASE \/ FlushBatch \/ AwaitReceipt \/ Decide \/ ClaimReply \/ Book \/ SendToMeta
           \/ InsertOutbound \/ RecordUsage \/ RecordLead \/ RecordFlag
           \/ SyncRequested \/ SyncReturned
  <2>1. UNCHANGED <<handoff, returnAt, debounceAt>> /\ (alarm' = alarm \/ ThrowAl)
    BY <1>5 DEF FlushBatch, AwaitReceipt, Decide, ClaimReply, Book, SendToMeta, InsertOutbound,
       RecordUsage, RecordLead, RecordFlag, SyncRequested, SyncReturned, AlWrite, AlSync, object
  <2>2. ThrowAl \/ al'.pc # "idle"
    <3>1. /\ \A pc \in AlPcs : GoAl(pc) => al'.pc = pc
          /\ {"request", "return", "lead", "book", "meta", "row", "reschedule"} \subseteq AlPcs
      BY GoAlType DEF AlPcs
    <3>2. /\ \A sent : AfterSend(al.kind, sent) \in AlPcs \ {"idle"}
          /\ AfterClaimTaken(al.kind) \in AlPcs \ {"idle"}
          /\ AfterRequest \in AlPcs \ {"idle"}
      BY DEF AfterSend, AfterClaimTaken, AfterRequest, AlPcs
    <3>3. CASE FlushBatch
      BY <3>1, <3>3, FirstStepType DEF FlushBatch
    <3>4. CASE AwaitReceipt \/ ClaimReply
      BY <3>1, <3>2, <3>4 DEF AwaitReceipt, ClaimReply
    <3>5. CASE Decide \/ Book
      BY <3>5 DEF Decide, Book, TypeInv, TypeOK, AlType
    <3>6. CASE SendToMeta
      BY <3>1, <3>2, <3>6 DEF SendToMeta
    <3>7. CASE InsertOutbound \/ RecordUsage \/ RecordLead \/ RecordFlag
      BY <3>1, <3>2, <3>7 DEF InsertOutbound, RecordUsage, RecordLead, RecordFlag, AlWrite
    <3>8. CASE SyncRequested \/ SyncReturned
      BY <3>1, <3>2, <3>8 DEF SyncRequested, SyncReturned, AlSync
    <3> QED
      BY <1>5, <3>3, <3>4, <3>5, <3>6, <3>7, <3>8
  <2> QED
    BY <2>1, <2>2 DEF ThrowAl, TimerInv, PersonHasTimer, DeadlineIsArmed
<1> QED
  BY <1>1, <1>2, <1>3, <1>4, <1>5 DEF AlarmStep

LEMMA TimerDashboard ==
    ASSUME TypeInv, TimerInv, NEW s \in Staff, ApiStep(s) \/ \E op \in Ops : ConversationStub(s, op)
    PROVE  TimerInv'
<1>1. CASE \/ \E op \in Ops : ConversationStub(s, op)
           \/ Attach(s) \/ SyncFromApi(s) \/ SendHuman(s) \/ DeliverHuman(s)
           \/ EraseCall(s) \/ EraseIds(s) \/ EraseFlags(s) \/ ErasePurge(s) \/ EraseRows(s)
  BY <1>1, TimerKept DEF ConversationStub, Attach, SyncFromApi, SendHuman, DeliverHuman, EraseCall,
     EraseIds, EraseFlags, ErasePurge, EraseRows, object
<1>2. CASE TakeOver(s) \/ Release(s)
  BY <1>2 DEF TakeOver, Release, Rearm, TimerInv, PersonHasTimer, DeadlineIsArmed
<1>3. CASE TouchHuman(s)
  BY <1>3 DEF TouchHuman, Rearm, TimerInv, PersonHasTimer, DeadlineIsArmed
<1>4. CASE EraseMedia(s)
  BY <1>4 DEF EraseMedia, DropStorage, object, TimerInv, PersonHasTimer, DeadlineIsArmed
<1> QED
  BY <1>1, <1>2, <1>3, <1>4 DEF ApiStep

LEMMA TimerStep == TypeInv /\ TimerInv /\ [Next]_vars => TimerInv'
<1> SUFFICES ASSUME TypeInv, TimerInv, [Next]_vars PROVE TimerInv'
  OBVIOUS
<1>1. CASE Next
  BY <1>1, TimerEvents, TimerAlarm, TimerDashboard DEF Next
<1>2. CASE UNCHANGED vars
  BY <1>2, TimerKept DEF vars, object
<1> QED
  BY <1>1, <1>2

LEMMA TimerInvariant == Spec => []TimerInv
BY TimerInit, TimerStep, TypeInvariant, PTL DEF Spec

\* A person holds the conversation exactly while a timer that will take it back
\* is set.
THEOREM HoldIsTimed == Spec => []PersonHasTimer
<1>1. TimerInv => PersonHasTimer
  BY DEF TimerInv
<1> QED
  BY <1>1, TimerInvariant, PTL

\* A deadline that is set is never without an alarm, or without the handler
\* that will arm one.
THEOREM DeadlineHasAlarm == Spec => []DeadlineIsArmed
<1>1. TimerInv => DeadlineIsArmed
  BY DEF TimerInv
<1> QED
  BY <1>1, TimerInvariant, PTL

-----------------------------------------------------------------------------
(* Conversation implements ReplyLedger: the claims, the sends and the      *)
(* bills are changed by a handful of steps, each a step of the ledger      *)
(* because of what SendInv says of the turn that takes it.                 *)

LEMMA LedgerInit == Init => Ledger!Init
BY DEF Init, Ledger!Init

\* Whatever leaves claims, sends and bills alone does not show in the ledger.
LEMMA LedgerKept ==
    ASSUME UNCHANGED <<replies, out, bills>>
    PROVE  UNCHANGED Ledger!ledger
BY DEF Ledger!ledger

\* A step that takes the bills away with the conversation.
LEMMA LedgerForgets ==
    ASSUME UNCHANGED <<replies, out>>, bills' = bills \/ bills' = [m \in Msgs |-> 0]
    PROVE  [Ledger!Next]_(Ledger!ledger)
BY DEF Ledger!ledger, Ledger!Next, Ledger!Forget

\* A claim that is already there is not a step; a new one is.
LEMMA LedgerClaim ==
    ASSUME TypeInv, SendInv, ClaimReply
    PROVE  [Ledger!Next]_(Ledger!ledger)
<1>1. al.anchor \in Msgs
  BY DEF ClaimReply, TypeInv, TurnIsKnown
<1>2. replies' = replies \cup {al.anchor} /\ UNCHANGED <<out, bills>>
  BY DEF ClaimReply, postgres
<1>3. CASE al.anchor \in replies
  BY <1>2, <1>3, LedgerKept
<1>4. CASE al.anchor \notin replies
  <2>1. Ledger!Claim(al.anchor)
    BY <1>2, <1>4 DEF Ledger!Claim
  <2> QED
    BY <1>1, <2>1 DEF Ledger!Next
<1> QED
  BY <1>3, <1>4

\* The claim is held and nothing has been sent under it.
LEMMA LedgerSend ==
    ASSUME TypeInv, SendInv, SendToMeta
    PROVE  [Ledger!Next]_(Ledger!ledger)
<1>1. UNCHANGED <<replies, bills>>
  BY DEF SendToMeta, postgres
<1>2. al.pc = "meta" /\ al.anchor \in Msgs /\ al.anchor \in replies /\ out[al.anchor] = <<>>
  BY DEF SendToMeta, TypeInv, TurnIsKnown, SendInv, ClaimedFirst
<1>3. out' = out \/ out' = [out EXCEPT ![al.anchor] = Append(@, al.kind)]
  BY DEF SendToMeta
<1>4. CASE out' = out
  BY <1>1, <1>4, LedgerKept
<1>5. CASE out' = [out EXCEPT ![al.anchor] = Append(@, al.kind)]
  <2>1. out \in [Msgs -> Seq(Kinds)]
    BY DEF TypeInv, TypeOK, OtherType
  <2>2. out'[al.anchor] = <<al.kind>> /\ \A m \in Msgs \ {al.anchor} : out'[m] = out[m]
    BY <1>2, <1>5, <2>1
  <2>3. Len(out'[al.anchor]) = 1 /\ Len(out[al.anchor]) = 0
    BY <1>2, <2>2
  <2>4. [m \in Msgs |-> Len(out'[m])] = [[m \in Msgs |-> Len(out[m])] EXCEPT ![al.anchor] = 1]
    BY <1>2, <2>2, <2>3
  <2>5. Ledger!Send(al.anchor)
    BY <1>1, <1>2, <2>3, <2>4 DEF Ledger!Send
  <2>6. al.anchor \in Msgs
    BY <1>2
  <2>7. \E m \in Msgs : Ledger!Send(m)
    BY <2>5, <2>6 DEF Ledger!Send
  <2> QED
    BY <2>7 DEF Ledger!Next
<1> QED
  BY <1>3, <1>4, <1>5

\* A turn at its bill has sent, and has no bill.
LEMMA LedgerCharge ==
    ASSUME TypeInv, SendInv, RecordUsage
    PROVE  [Ledger!Next]_(Ledger!ledger)
<1>1. UNCHANGED <<replies, out>>
  BY DEF RecordUsage, AlWrite
<1>2. /\ al.pc = "usage" /\ al.anchor \in Msgs
      /\ out[al.anchor] = <<al.kind>> /\ bills[al.anchor] = 0
  BY DEF RecordUsage, AlWrite, TypeInv, TurnIsKnown, SendInv, SentFirst
<1>3. bills' = bills \/ bills' = [bills EXCEPT ![al.anchor] = @ + 1]
  BY DEF RecordUsage, AlWrite
<1>4. CASE bills' = bills
  BY <1>1, <1>4, LedgerKept
<1>5. CASE bills' = [bills EXCEPT ![al.anchor] = @ + 1]
  <2>1. bills' = [bills EXCEPT ![al.anchor] = 1]
    BY <1>2, <1>5
  <2>2. Len(out[al.anchor]) = 1
    BY <1>2
  <2>3. Ledger!Charge(al.anchor)
    BY <1>1, <1>2, <2>1, <2>2 DEF Ledger!Charge
  <2>4. al.anchor \in Msgs
    BY <1>2
  <2> QED
    BY <2>3, <2>4 DEF Ledger!Next
<1> QED
  BY <1>3, <1>4, <1>5

LEMMA LedgerAlarm ==
    ASSUME TypeInv, SendInv, AlarmFires \/ AlarmStep
    PROVE  [Ledger!Next]_(Ledger!ledger)
<1>1. CASE ClaimReply
  BY <1>1, LedgerClaim
<1>2. CASE SendToMeta
  BY <1>2, LedgerSend
<1>3. CASE RecordUsage
  BY <1>3, LedgerCharge
<1>4. CASE \/ AlarmFires \/ FlushBatch \/ AwaitReceipt \/ Decide \/ Book \/ RequestHandoff
           \/ AutoReturn \/ Reschedule
  <2>1. UNCHANGED <<replies, out, bills>>
    BY <1>4 DEF AlarmFires, FlushBatch, AwaitReceipt, Decide, Book, RequestHandoff, AutoReturn,
       Reschedule, object, postgres
  <2> QED
    BY <2>1, LedgerKept
<1>5. CASE InsertOutbound \/ RecordLead \/ RecordFlag \/ SyncRequested \/ SyncReturned
  <2>1. UNCHANGED <<replies, out, bills>>
    BY <1>5 DEF InsertOutbound, RecordLead, RecordFlag, SyncRequested, SyncReturned, AlWrite, AlSync
  <2> QED
    BY <2>1, LedgerKept
<1> QED
  BY <1>1, <1>2, <1>3, <1>4, <1>5 DEF AlarmStep

\* Nobody else claims, sends or bills; erasure and a reset take the bills away.
LEMMA LedgerOthers ==
    ASSUME \/ \E m \in Msgs : OnInbound(m) \/ InboundStep(m)
           \/ DebounceElapses \/ IdleElapses \/ DemoReset \/ Crash
           \/ \E s \in Staff : ApiStep(s) \/ \E op \in Ops : ConversationStub(s, op)
    PROVE  [Ledger!Next]_(Ledger!ledger)
<1>1. CASE \E m \in Msgs : OnInbound(m) \/ InboundStep(m)
  <2>1. UNCHANGED <<replies, out, bills>>
    BY <1>1 DEF InboundStep, OnInbound, UpdateConversation, UpsertConversation, InsertMessage,
       InsertDedupe, object, postgres
  <2> QED
    BY <2>1, LedgerKept
<1>2. CASE DebounceElapses \/ IdleElapses \/ DemoReset \/ Crash
  <2>1. UNCHANGED <<replies, out>> /\ (bills' = bills \/ bills' = [m \in Msgs |-> 0])
    BY <1>2 DEF DebounceElapses, IdleElapses, DemoReset, Crash, object, postgres
  <2> QED
    BY <2>1, LedgerForgets
<1>3. CASE \E s \in Staff : ApiStep(s) \/ \E op \in Ops : ConversationStub(s, op)
  <2>1. PICK s \in Staff : ApiStep(s) \/ \E op \in Ops : ConversationStub(s, op)
    BY <1>3
  <2>2. CASE \/ \E op \in Ops : ConversationStub(s, op)
             \/ Attach(s) \/ TakeOver(s) \/ Release(s) \/ SyncFromApi(s)
             \/ SendHuman(s) \/ DeliverHuman(s) \/ TouchHuman(s)
    <3>1. UNCHANGED <<replies, out, bills>>
      BY <2>2 DEF ConversationStub, Attach, TakeOver, Release, SyncFromApi, SendHuman, DeliverHuman,
         TouchHuman, object, postgres
    <3> QED
      BY <3>1, LedgerKept
  <2>3. CASE EraseCall(s) \/ EraseIds(s) \/ EraseFlags(s) \/ EraseRows(s) \/ EraseMedia(s)
    <3>1. UNCHANGED <<replies, out, bills>>
      BY <2>3 DEF EraseCall, EraseIds, EraseFlags, EraseRows, EraseMedia, DropStorage, object, postgres
    <3> QED
      BY <3>1, LedgerKept
  <2>4. CASE ErasePurge(s)
    <3>1. UNCHANGED <<replies, out>> /\ (bills' = bills \/ bills' = [m \in Msgs |-> 0])
      BY <2>4 DEF ErasePurge, object
    <3> QED
      BY <3>1, LedgerForgets
  <2> QED
    BY <2>1, <2>2, <2>3, <2>4 DEF ApiStep
<1> QED
  BY <1>1, <1>2, <1>3

LEMMA LedgerStep == TypeInv /\ SendInv /\ [Next]_vars => [Ledger!Next]_(Ledger!ledger)
<1> SUFFICES ASSUME TypeInv, SendInv, [Next]_vars PROVE [Ledger!Next]_(Ledger!ledger)
  OBVIOUS
<1>1. CASE Next
  BY <1>1, LedgerAlarm, LedgerOthers DEF Next
<1>2. CASE UNCHANGED vars
  BY <1>2, LedgerKept DEF vars, object, postgres
<1> QED
  BY <1>1, <1>2

\* The object, its row and Meta keep the ledger of the replies, whatever is
\* lost, retried, redelivered or erased.
THEOREM LedgerIsKept == Spec => KeepsLedger
BY LedgerInit, LedgerStep, TypeInvariant, SendInvariant, PTL DEF Spec, KeepsLedger, Ledger!Spec

-----------------------------------------------------------------------------
(* Flags.  A turn is taken up only by an object that is attached to its    *)
(* row, and stays so for as long as nobody erases and nothing fails; from  *)
(* the flush on, a flagged turn is on its way to its flag by one of two    *)
(* paths: the safety reply, or the template for a window that is shut.     *)

Undisturbed == Faults \subseteq {"account"} /\ "erase" \notin Ops

TurnPcs == AlPcs \ {"idle", "return", "autoSync", "reschedule"}
ErasePcs == {"ids", "flags", "purge", "rows", "media"}

Rowed ==
    /\ convId # 0 => convId = row
    /\ \A m \in Msgs :
         /\ inb[m].pc \in {"update", "insert"} => inb[m].conv = row
         /\ inb[m].pc \in {"update", "insert", "dedupe"} => convId # 0
         /\ InboundBusy(m) => ids
    /\ \A s \in Staff : /\ api[s].pc = "attach" => api[s].conv = row
                        /\ api[s].op # "erase" /\ api[s].pc \notin ErasePcs
    /\ debounceAt # "none" \/ al.pc \in TurnPcs => Attached
    /\ al.pc \in TurnPcs => al.conv = convId

Owing(x) ==
    /\ al.anchor = x
    /\ \/ al.kind = "safe" /\ al.pc \in {"claim", "meta", "row", "flag"}
       \/ al.kind = "template" /\ al.flagged /\ al.pc \in {"receipt", "request", "sync", "flag"}
FlagOwed == \A m \in Msgs :
    Class[m] = "flagged" /\ anchorOf[m] # NoMsg => anchorOf[m] \in flags \/ Owing(anchorOf[m])

FlagInv == Rowed /\ FlagOwed

LEMMA FlagInit == Init => FlagInv
BY DEF Init, FlagInv, Rowed, FlagOwed, InboundBusy, IdleApi, IdleAl, TurnPcs, ErasePcs

\* A call that is answered with an error is one of the faults.
LEMMA CallsWork == ASSUME Undisturbed, NEW o, Outcome(o) PROVE o = "ok" /\ UNCHANGED faults
BY DEF Undisturbed, Outcome

\* The turn under way keeps what it is about.
LEMMA GoAlFields ==
    ASSUME TypeInv, NEW pc \in AlPcs, GoAl(pc)
    PROVE  /\ al'.pc = pc /\ al'.anchor = al.anchor /\ al'.kind = al.kind
           /\ al'.flagged = al.flagged /\ al'.conv = Here
BY DEF GoAl, TypeInv, TypeOK, AlType

\* What the alarm handler may do to the row's identity: nothing.
LEMMA RowedAlarm ==
    ASSUME Rowed, UNCHANGED <<convId, ids, row, inb, api>>,
           debounceAt' = debounceAt \/ debounceAt' = "none",
           al'.pc \in TurnPcs => Attached /\ al'.conv = Here
    PROVE  Rowed'
BY DEF Rowed, Attached, Here, InboundBusy

LEMMA OwedKept ==
    ASSUME FlagOwed, UNCHANGED anchorOf, flags \subseteq flags',
           \A x \in Msgs : Owing(x) => x \in flags' \/ Owing(x)',
           anchorOf \in [Msgs -> Msgs \cup {NoMsg}]
    PROVE  FlagOwed'
BY DEF FlagOwed

LEMMA FlagInbound ==
    ASSUME TypeInv, FlagInv, Undisturbed, NEW m \in Msgs, OnInbound(m) \/ InboundStep(m)
    PROVE  FlagInv'
<1>1. UNCHANGED <<flags, anchorOf, al, api>> /\ inb \in [Msgs -> [pc : InbPcs, conv : 0..MaxRows]]
      /\ row \in 0..MaxRows /\ convId \in 0..MaxRows /\ made \in 0..MaxRows /\ MaxRows \in Nat
  BY BoundsAssumption DEF InboundStep, OnInbound, UpdateConversation, UpsertConversation, InsertMessage,
     InsertDedupe, object, postgres, TypeInv, TypeOK, InbType, PostgresType, ObjectType
<1>2. FlagOwed'
  BY <1>1 DEF FlagInv, FlagOwed, Owing
<1>3. CASE OnInbound(m)
  <2>1. /\ UNCHANGED <<convId, row, debounceAt>> /\ ids' = TRUE
        /\ inb' = [inb EXCEPT ![m] = [pc |-> IF convId = 0 THEN "upsert" ELSE "update", conv |-> convId]]
    BY <1>3 DEF OnInbound, GoInb, postgres
  <2> QED
    BY <1>1, <1>2, <2>1 DEF FlagInv, Rowed, Attached, InboundBusy
<1>4. CASE UpdateConversation(m)
  <2>1. inb[m].pc = "update" /\ row = inb[m].conv
    BY <1>4 DEF UpdateConversation, FlagInv, Rowed
  <2>2. /\ UNCHANGED <<convId, row, ids, debounceAt>>
        /\ inb' = [inb EXCEPT ![m] = [pc |-> "insert", conv |-> row]]
    BY <1>4, <2>1, CallsWork DEF UpdateConversation, GoInb, postgres
  <2> QED
    BY <1>1, <1>2, <2>1, <2>2 DEF FlagInv, Rowed, Attached, InboundBusy
<1>5. CASE UpsertConversation(m)
  <2>1. /\ UNCHANGED <<ids, debounceAt>> /\ inb[m].pc = "upsert" /\ UpsertRow /\ convId' = row'
        /\ inb' = [inb EXCEPT ![m] = [pc |-> "insert", conv |-> row']]
    BY <1>5, CallsWork DEF UpsertConversation, GoInb, Took
  <2>2. row' # 0 /\ (row # 0 => row' = row)
    BY <1>1, <2>1 DEF UpsertRow
  <2>3. \A n \in Msgs : inb[n].pc \in {"update", "insert"} => row # 0
    BY <1>1 DEF FlagInv, Rowed
  <2>4. \A s \in Staff : api[s].pc = "attach" => row # 0
    BY DEF TypeInv, CallIsKnown, FlagInv, Rowed
  <2>5. convId # 0 => row' = row
    BY <1>1, <2>2 DEF FlagInv, Rowed
  <2> QED
    BY <1>1, <1>2, <2>1, <2>2, <2>3, <2>4, <2>5 DEF FlagInv, Rowed, Attached, InboundBusy
<1>6. CASE InsertMessage(m)
  <2>1. /\ UNCHANGED <<convId, row, ids, debounceAt>> /\ inb[m].pc = "insert"
        /\ \E pc \in {"dedupe", "lost"} : inb' = [inb EXCEPT ![m] = [pc |-> pc, conv |-> 0]]
    BY <1>6 DEF InsertMessage, GoInb, ThrowInb, object
  <2> QED
    BY <1>1, <1>2, <2>1 DEF FlagInv, Rowed, Attached, InboundBusy
<1>7. CASE InsertDedupe(m)
  <2>1. /\ UNCHANGED <<convId, row, ids>> /\ inb[m].pc = "dedupe"
        /\ \E pc \in {"done", "lost"} : inb' = [inb EXCEPT ![m] = [pc |-> pc, conv |-> 0]]
    BY <1>7 DEF InsertDedupe, GoInb, ThrowInb
  <2>2. Attached /\ InboundBusy(m)
    BY <2>1 DEF FlagInv, Rowed, Attached, InboundBusy
  <2> QED
    BY <1>1, <1>2, <2>1, <2>2 DEF FlagInv, Rowed, Attached, InboundBusy
<1> QED
  BY <1>3, <1>4, <1>5, <1>6, <1>7 DEF InboundStep

LEMMA FlagDashboard ==
    ASSUME TypeInv, FlagInv, Undisturbed, NEW s \in Staff,
           ApiStep(s) \/ \E op \in Ops : ConversationStub(s, op)
    PROVE  FlagInv'
<1>1. api \in [Staff -> [pc : ApiPcs, op : AllOps \cup {"none"}, conv : -1..MaxRows,
                         waIds : SUBSET Msgs, keep : BOOLEAN]]
  BY DEF TypeInv, TypeOK, ApiType
<1>2. api[s].pc \notin ErasePcs /\ api[s].op # "erase"
  BY DEF FlagInv, Rowed
<1>3. UNCHANGED <<flags, anchorOf, al, row, inb, debounceAt>>
  BY <1>2 DEF ApiStep, ConversationStub, Attach, TakeOver, Release, SyncFromApi, SendHuman, DeliverHuman,
     TouchHuman, EraseCall, EraseIds, EraseFlags, ErasePurge, EraseRows, EraseMedia, ErasePcs,
     object, postgres
<1>4. FlagOwed'
  BY <1>3 DEF FlagInv, FlagOwed, Owing
<1>5. ASSUME UNCHANGED <<convId, ids>>,
             \A t \in Staff \ {s} : api'[t] = api[t],
             api'[s].pc = "attach" => api'[s].conv = row,
             api'[s].op # "erase", api'[s].pc \notin ErasePcs
      PROVE  FlagInv'
  BY <1>3, <1>4, <1>5 DEF FlagInv, Rowed, Attached, InboundBusy
<1>6. ASSUME NEW pc \in ApiPcs, GoApi(s, pc), pc \notin ErasePcs, pc # "attach", UNCHANGED <<convId, ids>>
      PROVE  FlagInv'
  <2> DEFINE r == [[api[s] EXCEPT !.pc = pc] EXCEPT !.conv = Here]
  <2>1. r.pc = pc /\ r.op = api[s].op
    BY <1>1
  <2>2. api' = [api EXCEPT ![s] = r]
    BY <1>1, <1>6 DEF GoApi
  <2> HIDE DEF r
  <2> QED
    BY <1>1, <1>2, <1>5, <1>6, <2>1, <2>2
<1>7. ASSUME EndApi(s), UNCHANGED <<convId, ids>> PROVE FlagInv'
  BY <1>1, <1>5, <1>7 DEF EndApi, IdleApi, ErasePcs
<1>8. CASE \E op \in Ops : ConversationStub(s, op)
  <2>1. PICK op \in Ops : ConversationStub(s, op)
    BY <1>8
  <2>2. /\ UNCHANGED <<convId, ids>> /\ op # "erase"
        /\ api' = [api EXCEPT ![s] = [pc |-> "attach", op |-> op, conv |-> row,
                                      waIds |-> {}, keep |-> FALSE]]
    BY <2>1 DEF ConversationStub, object, Undisturbed
  <2> QED
    BY <1>1, <1>5, <2>2 DEF ErasePcs
<1>9. CASE Attach(s)
  <2>1. /\ api[s].pc = "attach" /\ ids' = TRUE /\ convId' = api[s].conv
        /\ api' = [api EXCEPT ![s].pc = "call"]
    BY <1>9 DEF Attach
  <2>2. convId' = row /\ row # 0
    BY <2>1 DEF FlagInv, Rowed, TypeInv, CallIsKnown
  <2>3. api'[s].pc = "call" /\ api'[s].op = api[s].op /\ \A t \in Staff \ {s} : api'[t] = api[t]
    BY <1>1, <2>1
  <2> QED
    BY <1>2, <1>3, <1>4, <2>1, <2>2, <2>3 DEF FlagInv, Rowed, Attached, InboundBusy, ErasePcs, TypeInv, TypeOK, ObjectType
<1>10. CASE TakeOver(s) \/ Release(s) \/ SyncFromApi(s) \/ SendHuman(s) \/ DeliverHuman(s) \/ TouchHuman(s)
  <2>1. UNCHANGED <<convId, ids>>
    BY <1>10 DEF TakeOver, Release, SyncFromApi, SendHuman, DeliverHuman, TouchHuman, object
  <2>2. EndApi(s) \/ \E pc \in {"sync", "meta", "row", "touch"} : GoApi(s, pc)
    BY <1>10 DEF TakeOver, Release, SyncFromApi, SendHuman, DeliverHuman, TouchHuman
  <2> QED
    BY <1>6, <1>7, <2>1, <2>2 DEF ApiPcs, ErasePcs
<1>11. CASE \/ EraseCall(s) \/ EraseIds(s) \/ EraseFlags(s) \/ ErasePurge(s) \/ EraseRows(s) \/ EraseMedia(s)
  BY <1>2, <1>11 DEF EraseCall, EraseIds, EraseFlags, ErasePurge, EraseRows, EraseMedia, ErasePcs
<1> QED
  BY <1>8, <1>9, <1>10, <1>11 DEF ApiStep

\* The turn moves on, and what it still owes is written by then or ahead of it.
LEMMA FlagGoes ==
    ASSUME TypeInv, FlagInv, NEW pc \in AlPcs, GoAl(pc),
           UNCHANGED <<convId, ids, row, inb, api, anchorOf>>,
           debounceAt' = debounceAt \/ debounceAt' = "none", flags \subseteq flags',
           pc \in TurnPcs => Attached,
           Owing(al.anchor) => \/ al.anchor \in flags'
                               \/ al.kind = "safe" /\ pc \in {"claim", "meta", "row", "flag"}
                               \/ /\ al.kind = "template" /\ al.flagged
                                  /\ pc \in {"receipt", "request", "sync", "flag"}
    PROVE  FlagInv'
<1>1. /\ al'.pc = pc /\ al'.anchor = al.anchor /\ al'.kind = al.kind
      /\ al'.flagged = al.flagged /\ al'.conv = Here
  BY GoAlFields
<1>2. Rowed'
  BY <1>1, RowedAlarm DEF FlagInv
<1>3. anchorOf \in [Msgs -> Msgs \cup {NoMsg}]
  BY DEF TypeInv, TypeOK, OtherType
<1>4. \A x \in Msgs : Owing(x) => x \in flags' \/ Owing(x)'
  BY <1>1 DEF Owing
<1> QED
  BY <1>2, <1>3, <1>4, OwedKept DEF FlagInv

LEMMA FlagFlush ==
    ASSUME TypeInv, FlagInv, FlushBatch
    PROVE  FlagInv'
<1>1. /\ al.pc = "flush" /\ UNCHANGED <<convId, ids, row, inb, api, flags, debounceAt>>
      /\ anchorOf \in [Msgs -> Msgs \cup {NoMsg}] /\ pending \subseteq Msgs
  BY DEF FlushBatch, postgres, TypeInv, TypeOK, OtherType, ObjectType
<1>2. Attached
  BY <1>1 DEF FlagInv, Rowed, TurnPcs, AlPcs
<1>3. \A x : ~Owing(x)
  BY <1>1 DEF Owing
<1>4. CASE pending = {}
  <2>1. GoAl("return") /\ UNCHANGED anchorOf /\ "return" \in AlPcs /\ ~Owing(al.anchor)
    BY <1>1, <1>4 DEF FlushBatch, AlPcs, Owing
  <2> QED
    BY <1>1, <1>2, <2>1, FlagGoes
<1>5. CASE pending # {}
  <2>1. PICK last \in pending :
          /\ al' = [pc |-> FirstStep(last).pc, kind |-> FirstStep(last).kind, anchor |-> last,
                    flagged |-> Has("flagged"), conv |-> Here]
          /\ anchorOf' = [m \in Msgs |-> IF m \in pending /\ FirstStep(last).kind # "held"
                                         THEN last ELSE anchorOf[m]]
    BY <1>5 DEF FlushBatch
  <2>2. Rowed'
    BY <1>1, <1>2, <2>1, RowedAlarm DEF FlagInv
  <2>3. ASSUME Has("flagged"), FirstStep(last).kind # "held" PROVE Owing(last)'
    <3>1. \/ FirstStep(last) = [pc |-> "receipt", kind |-> "template"]
          \/ FirstStep(last) = [pc |-> "claim", kind |-> "safe"]
      BY <2>3 DEF FirstStep
    <3> QED
      BY <2>1, <2>3, <3>1 DEF Owing
  <2>4. ASSUME NEW m \in Msgs, NEW x, x = anchorOf'[m], Class[m] = "flagged", x # NoMsg
        PROVE  x \in flags' \/ Owing(x)'
    <3>1. CASE m \in pending /\ FirstStep(last).kind # "held"
      <4>1. Has("flagged") /\ x = last
        BY <1>1, <2>1, <2>4, <3>1 DEF Has
      <4> QED
        BY <2>3, <3>1, <4>1
    <3>2. CASE ~(m \in pending /\ FirstStep(last).kind # "held")
      <4>1. x = anchorOf[m]
        BY <2>1, <2>4, <3>2
      <4>2. x \in flags \/ Owing(x)
        BY <2>4, <4>1 DEF FlagInv, FlagOwed
      <4> QED
        BY <1>1, <1>3, <4>2
    <3> QED
      BY <3>1, <3>2
  <2> DEFINE Owed(x) == \/ x \in flags'
                        \/ /\ al'.anchor = x
                           /\ \/ al'.kind = "safe" /\ al'.pc \in {"claim", "meta", "row", "flag"}
                              \/ /\ al'.kind = "template" /\ al'.flagged
                                 /\ al'.pc \in {"receipt", "request", "sync", "flag"}
  <2>5. ASSUME NEW m \in Msgs, Class[m] = "flagged", anchorOf'[m] # NoMsg PROVE Owed(anchorOf'[m])
    <3>1. PICK x : x = anchorOf'[m]
      OBVIOUS
    <3>2. x \in flags' \/ Owing(x)'
      BY <2>4, <2>5, <3>1
    <3>3. Owed(x)
      BY <3>2 DEF Owing
    <3> QED
      BY <3>1, <3>3
  <2>6. FlagOwed'
    BY <2>5 DEF FlagOwed, Owing
  <2> QED
    BY <2>2, <2>6 DEF FlagInv
<1> QED
  BY <1>4, <1>5

LEMMA FlagAlarm ==
    ASSUME TypeInv, FlagInv, Undisturbed, AlarmFires \/ AlarmStep
    PROVE  FlagInv'
<1> DEFINE Same == /\ UNCHANGED <<convId, ids, row, inb, api, anchorOf, flags>>
                   /\ debounceAt' = debounceAt \/ debounceAt' = "none"
<1>1. al.pc \in TurnPcs => Attached /\ al.conv >= 1 /\ al.conv = row
  BY DEF FlagInv, Rowed, Attached, TypeInv, TypeOK, ObjectType
<1>2. ASSUME Same, NEW pc \in AlPcs, GoAl(pc), pc \in TurnPcs => Attached,
             Owing(al.anchor) => \/ al.kind = "safe" /\ pc \in {"claim", "meta", "row", "flag"}
                                 \/ /\ al.kind = "template" /\ al.flagged
                                    /\ pc \in {"receipt", "request", "sync", "flag"}
      PROVE  FlagInv'
  BY <1>2, FlagGoes
<1>3. CASE AlarmFires
  <2>1. Same /\ al.pc = "idle"
    BY <1>3 DEF AlarmFires, postgres
  <2>2. GoAl("return") \/ (GoAl("flush") /\ Attached)
    BY <1>3 DEF AlarmFires, FlagInv, Rowed
  <2>3. ~Owing(al.anchor)
    BY <2>1 DEF Owing
  <2> QED
    BY <1>2, <2>1, <2>2, <2>3 DEF AlPcs, TurnPcs
<1>4. CASE FlushBatch
  BY <1>4, FlagFlush
<1>5. CASE AwaitReceipt
  <2>1. Same /\ al.pc = "receipt" /\ GoAl(IF al.kind = "held" THEN "return" ELSE "request")
    BY <1>5 DEF AwaitReceipt, object, postgres
  <2>2. Attached
    BY <1>1, <2>1 DEF TurnPcs, AlPcs
  <2>3. Owing(al.anchor) => al.kind = "template" /\ al.flagged
    BY <2>1 DEF Owing
  <2> QED
    BY <1>2, <2>1, <2>2, <2>3 DEF AlPcs
<1>6. CASE Decide
  <2>1. /\ Same /\ al.pc = "decide"
        /\ \E kind : al' = [al EXCEPT !.pc = "claim", !.kind = kind, !.conv = Here]
    BY <1>6 DEF Decide, object, postgres
  <2>2. Attached /\ \A x \in Msgs : ~Owing(x)
    BY <1>1, <2>1 DEF TurnPcs, AlPcs, Owing
  <2>3. al'.conv = Here
    BY <2>1 DEF TypeInv, TypeOK, AlType
  <2>4. Rowed'
    BY <2>1, <2>2, <2>3, RowedAlarm DEF FlagInv
  <2> QED
    BY <2>1, <2>2, <2>4, OwedKept DEF FlagInv, TypeInv, TypeOK, OtherType
<1>7. CASE ClaimReply
  <2>1. /\ Same /\ al.pc = "claim"
        /\ GoAl(IF al.anchor \in replies THEN AfterClaimTaken(al.kind)
                ELSE IF al.kind = "booked" THEN "book" ELSE "meta")
    BY <1>7 DEF ClaimReply, postgres
  <2>2. Attached /\ (Owing(al.anchor) => al.kind = "safe")
    BY <1>1, <2>1 DEF TurnPcs, AlPcs, Owing
  <2>3. AfterClaimTaken(al.kind) \in AlPcs /\ (al.kind = "safe" => AfterClaimTaken(al.kind) = "flag")
    BY DEF AfterClaimTaken, AfterSend, AlPcs
  <2>4. CASE al.anchor \in replies
    BY <1>2, <2>1, <2>2, <2>3, <2>4
  <2>5. CASE al.anchor \notin replies
    BY <1>2, <2>1, <2>2, <2>5 DEF AlPcs
  <2> QED
    BY <2>4, <2>5
<1>8. CASE Book
  <2>1. /\ Same /\ al.pc = "book"
        /\ \E kind : al' = [al EXCEPT !.pc = "meta", !.conv = Here, !.kind = kind]
    BY <1>8 DEF Book, object
  <2>2. Attached /\ \A x \in Msgs : ~Owing(x)
    BY <1>1, <2>1 DEF TurnPcs, AlPcs, Owing
  <2>3. al'.conv = Here
    BY <2>1 DEF TypeInv, TypeOK, AlType
  <2>4. Rowed'
    BY <2>1, <2>2, <2>3, RowedAlarm DEF FlagInv
  <2> QED
    BY <2>1, <2>2, <2>4, OwedKept DEF FlagInv, TypeInv, TypeOK, OtherType
<1>9. CASE SendToMeta
  <2>1. Same /\ al.pc = "meta"
    BY <1>9 DEF SendToMeta, postgres
  <2>2. Attached /\ (Owing(al.anchor) => al.kind = "safe")
    BY <1>1, <2>1 DEF TurnPcs, AlPcs, Owing
  <2>3. GoAl(AfterSend(al.kind, FALSE)) \/ GoAl("row")
    BY <1>9, <2>2, CallsWork DEF SendToMeta
  <2>4. AfterSend(al.kind, FALSE) \in AlPcs /\ (al.kind = "safe" => AfterSend(al.kind, FALSE) = "flag")
    BY DEF AfterSend, AlPcs
  <2>5. ASSUME GoAl(AfterSend(al.kind, FALSE)) PROVE FlagInv'
    BY <1>2, <2>1, <2>2, <2>4, <2>5
  <2>6. ASSUME GoAl("row") PROVE FlagInv'
    BY <1>2, <2>1, <2>2, <2>6 DEF AlPcs
  <2> QED
    BY <2>3, <2>5, <2>6
<1>11. CASE InsertOutbound \/ RecordUsage \/ RecordLead
  <2>1. /\ UNCHANGED <<convId, ids, row, inb, api, anchorOf, debounceAt>>
        /\ al.pc \in {"row", "usage", "lead"}
    BY <1>11 DEF InsertOutbound, RecordUsage, RecordLead, AlWrite
  <2>2. al.conv >= 1 /\ al.conv = row /\ Attached
    BY <1>1, <2>1 DEF TurnPcs, AlPcs
  <2>3. /\ UNCHANGED flags
        /\ GoAl(IF al.pc = "row" THEN AfterSend(al.kind, TRUE) ELSE IF al.pc = "usage" THEN "lead" ELSE "return")
    BY <1>11, <2>2, CallsWork DEF InsertOutbound, RecordUsage, RecordLead, AlWrite, Took
  <2>4. AfterSend(al.kind, TRUE) \in AlPcs /\ (al.kind = "safe" => AfterSend(al.kind, TRUE) = "flag")
    BY DEF AfterSend, AlPcs
  <2>5. Owing(al.anchor) => al.kind = "safe" /\ al.pc = "row"
    BY <2>1 DEF Owing
  <2>6. CASE al.pc = "row"
    <3>1. GoAl(AfterSend(al.kind, TRUE))
      BY <2>3, <2>6
    <3> QED
      BY <1>2, <2>1, <2>2, <2>3, <2>4, <2>5, <3>1
  <2>7. CASE al.pc # "row"
    <3>1. GoAl("lead") \/ GoAl("return")
      BY <2>3, <2>7
    <3> QED
      BY <1>2, <2>1, <2>2, <2>3, <2>5, <2>7, <3>1 DEF AlPcs
  <2> QED
    BY <2>6, <2>7
<1>12. CASE RecordFlag
  <2>1. /\ UNCHANGED <<convId, ids, row, inb, api, anchorOf, debounceAt>> /\ al.pc = "flag"
    BY <1>12 DEF RecordFlag, AlWrite
  <2>2. al.conv >= 1 /\ al.conv = row /\ Attached
    BY <1>1, <2>1 DEF TurnPcs, AlPcs
  <2> DEFINE after == IF al.kind = "safe" THEN "request" ELSE "return"
  <2>c. \E o \in {"ok", "fail", "lost"} :
          /\ Outcome(o)
          /\ IF Took(o) /\ row = al.conv
             THEN flags' = flags \cup {al.anchor} /\ UNCHANGED bills ELSE UNCHANGED <<flags, bills>>
          /\ IF o = "ok" /\ row = al.conv THEN GoAl(after) /\ UNCHANGED alarm ELSE ThrowAl
    <3>1. ~(al.conv < 1)
      BY <2>2 DEF TypeInv, TypeOK, AlType
    <3> HIDE DEF after
    <3> QED
      BY <1>12, <3>1 DEF RecordFlag, AlWrite, after
  <2> HIDE DEF after
  <2>a. PICK o \in {"ok", "fail", "lost"} :
          /\ Outcome(o)
          /\ Took(o) /\ row = al.conv => flags' = flags \cup {al.anchor}
          /\ o = "ok" /\ row = al.conv => GoAl(after)
    BY <2>c
  <2>b. o = "ok"
    BY <2>a, CallsWork
  <2>0. flags' = flags \cup {al.anchor} /\ GoAl(after)
    BY <2>2, <2>a, <2>b DEF Took
  <2>3. flags' = flags \cup {al.anchor} /\ (GoAl("request") \/ GoAl("return"))
    BY <2>0 DEF after
  <2>4. flags \subseteq flags' /\ al.anchor \in flags'
    BY <2>3
  <2>5. ASSUME NEW pc \in {"request", "return"}, GoAl(pc) PROVE FlagInv'
    <3>1. pc \in AlPcs
      BY <2>5 DEF AlPcs
    <3>2. debounceAt' = debounceAt
      BY <2>1
    <3> QED
      BY <2>1, <2>2, <2>4, <2>5, <3>1, <3>2, FlagGoes
  <2> QED
    BY <2>3, <2>5
<1>13. AfterRequest \in AlPcs /\ (al.kind = "template" /\ al.flagged => AfterRequest = "flag")
  BY DEF AfterRequest, AlPcs
<1>14. CASE RequestHandoff
  <2>1. Same /\ al.pc = "request" /\ (GoAl(AfterRequest) \/ GoAl("sync"))
    BY <1>14 DEF RequestHandoff, postgres
  <2>2. Attached /\ (Owing(al.anchor) => al.kind = "template" /\ al.flagged)
    BY <1>1, <2>1 DEF TurnPcs, AlPcs, Owing
  <2>3. ASSUME GoAl(AfterRequest) PROVE FlagInv'
    BY <1>2, <1>13, <2>1, <2>2, <2>3
  <2>4. ASSUME GoAl("sync") PROVE FlagInv'
    BY <1>2, <2>1, <2>2, <2>4 DEF AlPcs
  <2> QED
    BY <2>1, <2>3, <2>4
<1>15. CASE SyncRequested
  <2>1. Same /\ al.pc = "sync"
    BY <1>15 DEF SyncRequested, AlSync
  <2>2. Attached /\ (Owing(al.anchor) => al.kind = "template" /\ al.flagged)
    BY <1>1, <2>1 DEF TurnPcs, AlPcs, Owing
  <2>3. GoAl(AfterRequest)
    BY <1>15, CallsWork DEF SyncRequested, AlSync
  <2> QED
    BY <1>2, <1>13, <2>1, <2>2, <2>3
<1>16. CASE AutoReturn \/ SyncReturned
  <2>1. Same /\ al.pc \in {"return", "autoSync"}
    BY <1>16 DEF AutoReturn, SyncReturned, AlSync, postgres
  <2>2. GoAl("autoSync") \/ GoAl("reschedule")
    BY <1>16, CallsWork DEF AutoReturn, SyncReturned, AlSync
  <2>3. ~Owing(al.anchor)
    BY <2>1 DEF Owing
  <2> QED
    BY <1>2, <2>1, <2>2, <2>3 DEF AlPcs, TurnPcs
<1>17. CASE Reschedule
  <2>1. Same /\ al.pc = "reschedule" /\ al' = IdleAl
    BY <1>17 DEF Reschedule, postgres
  <2>2. Rowed'
    BY <2>1, RowedAlarm DEF FlagInv, IdleAl, TurnPcs
  <2>3. \A x \in Msgs : ~Owing(x)
    BY <2>1 DEF Owing
  <2> QED
    BY <2>1, <2>2, <2>3, OwedKept DEF FlagInv, TypeInv, TypeOK, OtherType
<1> QED
  BY <1>3, <1>4, <1>5, <1>6, <1>7, <1>8, <1>9, <1>11, <1>12, <1>14, <1>15, <1>16, <1>17 DEF AlarmStep

LEMMA FlagStep == Undisturbed /\ TypeInv /\ FlagInv /\ [Next]_vars => FlagInv'
<1> SUFFICES ASSUME Undisturbed, TypeInv, FlagInv, [Next]_vars PROVE FlagInv'
  OBVIOUS
<1>1. ASSUME UNCHANGED <<convId, ids, row, inb, api, al, flags, anchorOf>>,
             debounceAt' = debounceAt \/ debounceAt # "none"
      PROVE  FlagInv'
  BY <1>1 DEF FlagInv, Rowed, FlagOwed, Owing, Attached, InboundBusy
<1>2. CASE DebounceElapses \/ IdleElapses
  BY <1>1, <1>2 DEF DebounceElapses, IdleElapses, postgres
<1>3. ~DemoReset /\ ~Crash
  BY DEF DemoReset, Crash, Undisturbed
<1>4. CASE UNCHANGED vars
  BY <1>1, <1>4 DEF vars, object, postgres
<1> QED
  BY <1>2, <1>3, <1>4, FlagInbound, FlagDashboard, FlagAlarm DEF Next

\* A flagged turn leaves its safety_flags row: once nothing runs, the row is there, whether the
\* safety reply was sent, could not be sent for want of an account, or was the template of a
\* window that had shut (conversation.ts, flushBatch and reply).  A call that fails, a crash
\* or an erasure can lose it, so the theorem is of the object that meets none.
THEOREM FlaggedTurnsAreLogged ==
    ASSUME Faults \subseteq {"account"}, "erase" \notin Ops
    PROVE  Spec => []FlaggedIsLogged
<1>1. Undisturbed
  BY DEF Undisturbed
<1>2. TypeInv /\ FlagInv => FlaggedIsLogged
  BY DEF FlagInv, FlagOwed, FlaggedIsLogged, Owing, Quiet
<1>3. TypeInv /\ FlagInv /\ [Next]_vars => FlagInv'
  BY <1>1, FlagStep
<1> QED
  BY <1>2, <1>3, FlagInit, TypeInvariant, PTL DEF Spec
=============================================================================
