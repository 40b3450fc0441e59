--------------------------- MODULE ReplyDecision ---------------------------
(***************************************************************************)
(* decideReply (packages/shared/src/reply.ts) as the ConversationDOs of    *)
(* one client run it: each conversation decides one turn at a time, the    *)
(* client's runtime controls change under them, and all of them spend from *)
(* one meter.  Every await is a step of its own.  What Conversation does   *)
(* after the verdict - the claim, the call to Meta, the lock - is one step *)
(* here, and a redelivered or refused send is left to it.                  *)
(*                                                                         *)
(* Abstracted: the words, the prompt, which pattern or flag fired, and the *)
(* price of a token: a call costs one of Costs.                            *)
(***************************************************************************)
EXTENDS Integers, FiniteSets

CONSTANTS
    Convs,      \* conversations of the client
    Day,        \* minutes in a day, 1440 in the code
    Offset,     \* IST_OFFSET_MINUTES, 330 in the code
    OpensAt,    \* hours_open_ist
    ClosesAt,   \* hours_close_ist
    HandsOff,   \* out_of_hours = 'handoff'
    Cap,        \* cap_micros, or NoCap
    NoCap,
    Costs,      \* what a model call may cost
    ClassifyLimit, \* CLASSIFY_LIMIT, images of a burst that are classified
    MaxTurns,   \* bound: turns of a conversation
    Faults      \* which calls to Postgres may fail

Minutes == 0..(Day - 1)
MaxCost == CHOOSE x \in Costs : \A y \in Costs : y <= x

ASSUME DayAssumption ==
    /\ Day \in Nat \ {0} /\ Offset \in Nat /\ OpensAt \in Minutes /\ ClosesAt \in Minutes
    /\ HandsOff \in BOOLEAN
ASSUME CostAssumption ==
    /\ Costs \subseteq Nat \ {0} /\ IsFiniteSet(Convs)
    /\ \E x \in Costs : \A y \in Costs : y <= x
    /\ NoCap \notin Nat /\ Cap \in (Nat \ {0}) \cup {NoCap}
    /\ MaxTurns \in Nat /\ ClassifyLimit \in Nat /\ Faults \subseteq {"org", "spend", "usage"}

VARIABLES
    now,      \* the minute of the day, UTC
    paused,   \* organizations.ai_paused
    spend,    \* org_month_spend: the month's usage_events
    replies,  \* of which for replies whose turn had read the meter
    turn,     \* each conversation's turn
    turns,    \* how many it has had
    late      \* its replies since the client was last paused, the controls having been read

vars == <<now, paused, spend, replies, turn, turns, late>>

Attachments == {"none", "video", "media"}
Actions == {"none", "safe", "handoff", "send"}
Stages == {"none", "prefilter", "video", "media_flag", "media", "paused", "closed", "capped",
           "llm_error", "model_flag", "multi_reply", "sector_check", "sent"}
TurnType ==
    [pc : {"classify", "screened", "org", "spend", "model", "retry", "act", "bill", "done"},
     suspect : BOOLEAN,       \* the prefilter fires on the text
     attached : Attachments,
     images : 0..ClassifyLimit, \* left to classify
     saw : BOOLEAN,           \* the classifier reported something
     read : BOOLEAN,          \* the controls were read, at minute readAt
     readAt : Minutes,
     metered : BOOLEAN,       \* the month's spend was read
     asked : BOOLEAN,         \* a model has been called
     clean : BOOLEAN,         \* its answer is one unflagged, allowed reply
     cost : {0} \cup Costs,
     action : Actions, stage : Stages]

TypeOK ==
    /\ now \in Minutes
    /\ paused \in BOOLEAN
    /\ spend \in Nat /\ replies \in Nat
    /\ turn \in [Convs -> TurnType]
    /\ turns \in [Convs -> 0..MaxTurns]
    /\ late \in [Convs -> Nat]

NoTurn == [pc |-> "done", suspect |-> FALSE, attached |-> "none", images |-> 0, saw |-> FALSE,
           read |-> FALSE, readAt |-> 0, metered |-> FALSE, asked |-> FALSE, clean |-> FALSE,
           cost |-> 0, action |-> "none", stage |-> "none"]

Init ==
    /\ now = 0 /\ paused = FALSE /\ spend = 0 /\ replies = 0
    /\ turn = [c \in Convs |-> NoTurn]
    /\ turns = [c \in Convs |-> 0]
    /\ late = [c \in Convs |-> 0]

-----------------------------------------------------------------------------
(* The controls.                                                           *)

\* Mutant: no window crosses midnight.
IsWithinOneDay(minute) ==
    LET ist == (minute + Offset) % Day IN ist >= OpensAt /\ ist < ClosesAt
\* isWithinHours, of a minute in UTC.
IsWithinHours(minute) ==
    LET ist == (minute + Offset) % Day
    IN  IF OpensAt <= ClosesAt THEN ist >= OpensAt /\ ist < ClosesAt
                               ELSE ist >= OpensAt \/ ist < ClosesAt

\* Mutant: the ceiling itself may be spent again.
OverCap(amount) == Cap # NoCap /\ amount > Cap
\* The comparison of holdFor: at the ceiling is over it.
AtCap(amount) == Cap # NoCap /\ amount >= Cap

-----------------------------------------------------------------------------
(* A turn.                                                                 *)

At(c, pc) == turn[c].pc = pc
Go(c, pc) == turn' = [turn EXCEPT ![c].pc = pc]
Settle(c, action, stage) ==
    turn' = [turn EXCEPT ![c].pc = "act", ![c].action = action, ![c].stage = stage]

\* Mutant: media is looked at before the text.
MediaFirst(suspect, attached) ==
    IF attached = "video" THEN <<"act", "handoff", "video">>
    ELSE IF attached = "media" THEN <<"classify", "none", "none">>
    ELSE IF suspect THEN <<"act", "safe", "prefilter">>
    ELSE <<"org", "none", "none">>
\* The order that is decided without an await: the prefilter outranks
\* everything, video is refused, and only text goes on to the model.
Head(suspect, attached) ==
    IF suspect THEN <<"act", "safe", "prefilter">>
    ELSE IF attached = "video" THEN <<"act", "handoff", "video">>
    ELSE IF attached = "media" THEN <<"classify", "none", "none">>
    ELSE <<"org", "none", "none">>

StartTurn(c) ==
    /\ At(c, "done") /\ turns[c] < MaxTurns
    /\ turns' = [turns EXCEPT ![c] = @ + 1]
    /\ \E suspect \in BOOLEAN, attached \in Attachments, images \in 0..ClassifyLimit :
         LET head == Head(suspect, attached)
         IN  /\ images > 0 => head[1] = "classify"
             /\ turn' = [turn EXCEPT ![c] =
                  [NoTurn EXCEPT !.suspect = suspect, !.attached = attached, !.images = images,
                                 !.pc = head[1], !.action = head[2], !.stage = head[3]]]
    /\ UNCHANGED <<now, paused, spend, replies, late>>

\* One call without a retry, and without a throw: an image that has no url, or
\* gets no answer, is passed over.
ClassifyImage(c) ==
    \/ turn' = [turn EXCEPT ![c].images = @ - 1]
    \/ \E saw \in BOOLEAN, cost \in Costs :
          turn' = [turn EXCEPT ![c].pc = "screened", ![c].images = @ - 1,
                               ![c].asked = TRUE, ![c].saw = saw, ![c].cost = cost]
\* #classifyImages, image by image; when none is left it is an ordinary attachment.
Classify(c) ==
    /\ At(c, "classify")
    /\ IF turn[c].images = 0 THEN Settle(c, "handoff", "media") ELSE ClassifyImage(c)
    /\ UNCHANGED <<now, paused, spend, replies, turns, late>>

AfterScreening(saw) ==
    IF saw THEN <<"act", "safe", "media_flag">> ELSE <<"classify", "none", "none">>
\* The usage row of the answer, and only then what the answer was: when the
\* row cannot be written, the loop goes on to the next image.
MeterClassifier(c) ==
    /\ At(c, "screened")
    /\ \/ LET next == AfterScreening(turn[c].saw)
          IN  /\ spend' = spend + turn[c].cost
              /\ turn' = [turn EXCEPT ![c].pc = next[1], ![c].action = next[2], ![c].stage = next[3]]
       \/ "usage" \in Faults /\ Go(c, "classify") /\ UNCHANGED spend
    /\ UNCHANGED <<now, paused, replies, turns, late>>

\* Mutant: the pause is only looked at outside the hours.
HoldOutsideHours ==
    IF HandsOff /\ ~IsWithinHours(now) THEN (IF paused THEN "paused" ELSE "closed") ELSE "none"
\* holdFor up to its await: paused, then closed.
Hold == IF paused THEN "paused"
        ELSE IF HandsOff /\ ~IsWithinHours(now) THEN "closed" ELSE "none"
\* The org row of #promptContext.  A row that could not be read holds nothing.
ReadOrg(c) ==
    /\ At(c, "org")
    /\ \/ "org" \in Faults /\ Go(c, "model")
       \/ LET next == IF Hold # "none" THEN <<"act", "handoff", Hold>>
                      ELSE <<IF Cap = NoCap THEN "model" ELSE "spend", "none", "none">>
          IN  turn' = [turn EXCEPT ![c].read = TRUE, ![c].readAt = now,
                           ![c].pc = next[1], ![c].action = next[2], ![c].stage = next[3]]
    /\ UNCHANGED <<now, paused, spend, replies, turns, late>>

\* The meter, read for a capped client.  A reading that failed silences nobody.
ReadSpend(c) ==
    /\ At(c, "spend")
    /\ \/ IF AtCap(spend) THEN Settle(c, "handoff", "capped")
          ELSE turn' = [turn EXCEPT ![c].pc = "model", ![c].metered = TRUE]
       \/ "spend" \in Faults /\ Go(c, "model")
    /\ UNCHANGED <<now, paused, spend, replies, turns, late>>

\* Mutant: the sector check is lost.
UncheckedVerdict(flagged, single, allowed) ==
    IF flagged THEN <<"safe", "model_flag">>
    ELSE IF ~single THEN <<"handoff", "multi_reply">>
    ELSE <<"send", "sent">>
\* What decideReply makes of a completion.
Verdict(flagged, single, allowed) ==
    IF flagged THEN <<"safe", "model_flag">>
    ELSE IF ~single THEN <<"handoff", "multi_reply">>
    ELSE IF ~allowed THEN <<"handoff", "sector_check">>
    ELSE <<"send", "sent">>

\* Mutant: the second failure is thrown, too.
GiveUp(pc) == IF pc = "model" THEN <<"retry", "none", "none">> ELSE <<"done", "none", "none">>
\* complete, once the documents, the history and the slots have been read: one
\* retry, then the constant reply.
AfterFailure(pc) ==
    IF pc = "model" THEN <<"retry", "none", "none">> ELSE <<"act", "handoff", "llm_error">>
Answered(c, verdict, clean, cost) ==
    turn' = [turn EXCEPT ![c].pc = "act", ![c].asked = TRUE, ![c].cost = cost, ![c].clean = clean,
                         ![c].action = verdict[1], ![c].stage = verdict[2]]
Failed(c, next) ==
    turn' = [turn EXCEPT ![c].pc = next[1], ![c].action = next[2], ![c].stage = next[3],
                         ![c].asked = TRUE]
CallModel(c) ==
    /\ At(c, "model") \/ At(c, "retry")
    /\ \/ \E flagged, single, allowed \in BOOLEAN, cost \in Costs :
            Answered(c, Verdict(flagged, single, allowed), ~flagged /\ single /\ allowed, cost)
       \/ Failed(c, AfterFailure(turn[c].pc))
    /\ UNCHANGED <<now, paused, spend, replies, turns, late>>

\* The claim and the call to Meta.  Only a model's reply that went out is billed.
Act(c) ==
    /\ At(c, "act")
    /\ \/ turn[c].action # "send" /\ Go(c, "done") /\ UNCHANGED late
       \/ turn[c].action = "send" /\ \E sent \in BOOLEAN :
            /\ Go(c, IF sent THEN "bill" ELSE "done")
            /\ late' = IF sent /\ paused /\ turn[c].read THEN [late EXCEPT ![c] = @ + 1] ELSE late
    /\ UNCHANGED <<now, paused, spend, replies, turns>>

RecordUsage(c) ==
    /\ At(c, "bill") /\ Go(c, "done")
    /\ \/ /\ spend' = spend + turn[c].cost
          /\ replies' = IF turn[c].metered THEN replies + turn[c].cost ELSE replies
       \/ "usage" \in Faults /\ UNCHANGED <<spend, replies>>
    /\ UNCHANGED <<now, paused, turns, late>>

-----------------------------------------------------------------------------
(* The client's settings, and time.                                        *)

\* /api/org/ai-pause by the owner, or the controls by an admin.
SetPaused(wanted) ==
    /\ paused # wanted /\ paused' = wanted
    /\ late' = [c \in Convs |-> 0]
    /\ UNCHANGED <<now, spend, replies, turn, turns>>

\* Mutant: the day does not wrap.
LaterMinute == now + 1
NextMinute == (now + 1) % Day
\* The month of the meter begins at midnight IST.
Tick ==
    /\ now' = NextMinute
    /\ \/ UNCHANGED <<spend, replies>>
       \/ (now' + Offset) % Day = 0 /\ spend' = 0 /\ replies' = 0
    /\ UNCHANGED <<paused, turn, turns, late>>

-----------------------------------------------------------------------------

Step(c) == \/ Classify(c) \/ MeterClassifier(c) \/ ReadOrg(c) \/ ReadSpend(c) \/ CallModel(c)
           \/ Act(c) \/ RecordUsage(c)

Next == \/ \E c \in Convs : StartTurn(c) \/ Step(c)
        \/ \E wanted \in BOOLEAN : SetPaused(wanted)
        \/ Tick

Spec == Init /\ [][Next]_vars

-----------------------------------------------------------------------------
(* Properties.                                                             *)

\* A customer reads a model's words only on a turn of plain text that no check
\* of the text or of the answer objects to.
ModelWordsAreClean ==
    \A c \in Convs : turn[c].action = "send" =>
        ~turn[c].suspect /\ turn[c].attached = "none" /\ turn[c].clean

\* A text the prefilter fires on gets the constant safety reply, whatever is
\* attached to it and whatever the client's settings are.
SuspectIsSafe ==
    \A c \in Convs : turn[c].suspect /\ turn[c].action # "none" => turn[c].action = "safe"

\* The pause is a kill switch: once it is set, a conversation sends at most the
\* one reply that was under way.
OneReplyAfterPause == \A c \in Convs : late[c] <= 1

\* The cap holds up to the turns that were under way when it was reached.
OvershootIsBounded ==
    Cap # NoCap => replies < Cap + Cardinality(Convs) * MaxCost

\* The hours are those on the clinic's wall, midnight included: a turn is held
\* as closed exactly when it was read outside them.
OpenMinutes == {(OpensAt + k) % Day : k \in 0..(((ClosesAt - OpensAt) % Day) - 1)}
HoursAreHonoured ==
    \A c \in Convs : turn[c].read /\ HandsOff =>
        LET open == (turn[c].readAt + Offset) % Day \in OpenMinutes
        IN  /\ turn[c].stage = "closed" => ~open
            /\ turn[c].metered \/ turn[c].asked => open

\* No failure of the model, of the classifier or of the database ends a turn
\* without a verdict.
TurnIsSettled == \A c \in Convs : turn[c].pc = "done" /\ turns[c] > 0 => turn[c].action # "none"
=============================================================================
