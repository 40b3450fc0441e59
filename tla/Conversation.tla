---------------------------- MODULE Conversation ----------------------------
(***************************************************************************)
(* One ConversationDO (workers/api/src/do/conversation.ts) together with   *)
(* the Postgres row it mirrors, the calls it makes to Meta, and the        *)
(* dashboard routes of workers/api/src/api.ts that reach it.               *)
(*                                                                         *)
(* The handlers are asynchronous.  A Durable Object takes no event while a *)
(* storage operation is running, but it does take one while a handler      *)
(* awaits a fetch, and every call to Postgres, Meta or the model is a      *)
(* fetch.  So a handler is a program counter: a step runs from the answer  *)
(* of one fetch to the next fetch, and pcs in Computing are straight-line  *)
(* code during which nothing else runs.                                    *)
(*                                                                         *)
(* Abstracted: the wording of messages, media bytes, token decryption, the *)
(* read receipt's effect, what classifying an image costs, and the clock,  *)
(* of which only "not yet" and "due" remain.  Module ReplyDecision has     *)
(* what decideReply decides, and module Diary what a booking is.           *)
(***************************************************************************)
EXTENDS Integers, Sequences, FiniteSets

CONSTANTS
    Msgs,        \* wa_message_ids of the customer's messages
    Class,       \* what decideReply sees of each: text, flagged, image, attachment
    SentAt,      \* Meta's timestamp of each
    Stale,       \* those answered after their 24h window has shut
    Staff,       \* dashboard sessions
    Ops,         \* the routes they use
    SeenLimit,   \* SEEN_LIMIT, 200 in the code
    MaxRows,     \* bound: how many conversation rows may ever be created
    Faults,      \* which faults may happen
    MaxFaults    \* bound: how many of them

NoMsg == "no message"
HandoffStates == {"bot", "requested", "human", "returned"}
Deadlines == {"none", "wait", "due"}
Kinds == {"safe", "handoff", "reply", "booked", "sorry", "template"}
AllOps == {"takeOver", "release", "sendHuman", "erase"}

ASSUME MsgsAssumption == NoMsg \notin Msgs
ASSUME ClassAssumption == Class \in [Msgs -> {"text", "flagged", "image", "attachment"}]
ASSUME SentAtAssumption == SentAt \in [Msgs -> Nat]
ASSUME OpsAssumption == Ops \subseteq AllOps
ASSUME FaultsAssumption == Faults \subseteq {"fail", "lost", "crash", "account", "reset"}
ASSUME BoundsAssumption == /\ SeenLimit \in Nat \ {0}
                           /\ MaxRows \in Nat \ {0}
                           /\ MaxFaults \in Nat

VARIABLES
    \* the object's SQLite storage and its one alarm
    seen, pending, replies, handoff, debounceAt, returnAt, ids, convId, alarm,
    \* Postgres: the conversation row and what hangs on it
    row, made, rowHandoff, stored, dedupe, flags, bills, booked,
    \* what Meta accepted from the bot, under the message each answers
    out,
    \* the handlers in flight
    inb, al, api,
    \* the last message of the burst in which the bot took each one up, and the
    \* faults so far
    anchorOf, faults

object   == <<seen, pending, replies, handoff, debounceAt, returnAt, ids, convId, alarm>>
postgres == <<row, made, rowHandoff, stored, dedupe, flags, bills, booked>>
vars     == <<object, postgres, out, inb, al, api, anchorOf, faults>>

InbPcs   == {"new", "update", "upsert", "insert", "dedupe", "done", "lost"}
AlPcs    == {"idle", "flush", "receipt", "decide", "claim", "book", "meta", "row", "usage",
             "lead", "flag", "request", "sync", "return", "autoSync", "reschedule"}
ApiPcs   == {"idle", "attach", "call", "sync", "meta", "row", "touch", "ids", "flags", "purge",
             "rows", "media"}

IdleAl  == [pc |-> "idle", anchor |-> NoMsg, flagged |-> FALSE, kind |-> "none", conv |-> -1]
IdleApi == [pc |-> "idle", op |-> "none", conv |-> -1, waIds |-> {}, keep |-> FALSE]

ObjectType ==
    /\ seen \in Seq(Msgs)
    /\ pending \subseteq Msgs
    /\ replies \subseteq Msgs
    /\ handoff \in HandoffStates
    /\ debounceAt \in Deadlines
    /\ returnAt \in Deadlines
    /\ ids \in BOOLEAN
    /\ convId \in 0..MaxRows
    /\ alarm \in {"off", "on", "retry"}
PostgresType ==
    /\ row \in 0..MaxRows
    /\ made \in 0..MaxRows
    /\ rowHandoff \in HandoffStates
    /\ stored \in [Msgs -> {"none", "kept", "scrubbed"}]
    /\ dedupe \subseteq Msgs
    /\ flags \subseteq Msgs
    /\ bills \in [Msgs -> Nat]
    /\ booked \subseteq Msgs
InbType == inb \in [Msgs -> [pc : InbPcs, conv : 0..MaxRows]]
AlType  == al \in [pc : AlPcs, anchor : Msgs \cup {NoMsg}, flagged : BOOLEAN,
                   kind : Kinds \cup {"none", "held", "media", "text"}, conv : -1..MaxRows]
ApiType == api \in [Staff -> [pc : ApiPcs, op : AllOps \cup {"none"}, conv : -1..MaxRows,
                              waIds : SUBSET Msgs, keep : BOOLEAN]]
OtherType ==
    /\ out \in [Msgs -> Seq(Kinds)]
    /\ anchorOf \in [Msgs -> Msgs \cup {NoMsg}]
    /\ faults \in 0..MaxFaults
TypeOK == ObjectType /\ PostgresType /\ InbType /\ AlType /\ ApiType /\ OtherType

Init ==
    /\ seen = <<>> /\ pending = {} /\ replies = {}
    /\ handoff = "bot" /\ debounceAt = "none" /\ returnAt = "none"
    /\ ids = FALSE /\ convId = 0 /\ alarm = "off"
    /\ row = 0 /\ made = 0 /\ rowHandoff = "bot"
    /\ stored = [m \in Msgs |-> "none"]
    /\ dedupe = {} /\ flags = {} /\ booked = {}
    /\ bills = [m \in Msgs |-> 0]
    /\ out = [m \in Msgs |-> <<>>]
    /\ inb = [m \in Msgs |-> [pc |-> "new", conv |-> 0]]
    /\ al = IdleAl
    /\ api = [s \in Staff |-> IdleApi]
    /\ anchorOf = [m \in Msgs |-> NoMsg]
    /\ faults = 0

-----------------------------------------------------------------------------
(* The runtime: who may run, and what a call may answer.                   *)

InboundBusy(m) == inb[m].pc \notin {"new", "done", "lost"}
\* A dashboard call is inside the object once its RPC has been delivered.
ApiBusy(s) == api[s].pc \notin {"idle", "attach", "call"}
Quiet == /\ al.pc = "idle"
         /\ \A m \in Msgs : ~InboundBusy(m)
         /\ \A s \in Staff : ~ApiBusy(s)

\* conv = 0 or -1 on these pcs: the identity was missing, so the code returns
\* without a call and goes straight on.
AlComputing ==
    \/ al.pc \in {"flush", "claim", "request", "return", "reschedule"}
    \/ al.pc \in {"row", "usage", "lead", "flag", "sync", "autoSync"} /\ al.conv < 1
    \/ al.pc \in {"meta", "book"} /\ al.conv = -1
ApiComputing(s) ==
    \/ api[s].pc = "touch"
    \/ api[s].pc \in {"row", "sync"} /\ api[s].conv < 1
    \/ api[s].pc = "meta" /\ api[s].conv = -1
Computing == AlComputing \/ \E s \in Staff : ApiComputing(s)

\* A new event is taken while every handler in flight awaits a fetch.
MayStart == ~Computing
\* The alarm handler, and a dashboard call, go on when nobody else is computing.
AlMayRun == \A s \in Staff : ~ApiComputing(s)
ApiMayRun(s) == ~AlComputing /\ \A t \in Staff \ {s} : ~ApiComputing(t)

Attached == ids /\ convId # 0
\* The identity a call is issued with, read before its await.
Here == IF ids THEN convId ELSE -1

\* "fail": the call had no effect.  "lost": it took effect and its answer did
\* not arrive.  Either way the code sees an error and throws.
Outcome(o) ==
    /\ o \in {"ok", "fail", "lost"}
    /\ IF o = "ok" THEN UNCHANGED faults
                   ELSE /\ o \in Faults
                        /\ faults < MaxFaults
                        /\ faults' = faults + 1
Took(o) == o \in {"ok", "lost"}

\* Mutant: the handoff deadline is overlooked.
RearmForDebounceOnly == alarm' = IF debounceAt' = "none" THEN "off" ELSE "on"
\* #reschedule(): one alarm slot for whichever deadlines are set.
Rearm == alarm' = IF debounceAt' = "none" /\ returnAt' = "none" THEN "off" ELSE "on"

-----------------------------------------------------------------------------
(* onInbound: dedupe, #persistInbound, #scheduleDebounce.                  *)

GoInb(m, pc, conv) == inb' = [inb EXCEPT ![m] = [pc |-> pc, conv |-> conv]]
ThrowInb(m) == GoInb(m, "lost", 0)

\* The synchronous head of onInbound.  A message already in seen is a
\* "duplicate" and changes nothing.  Bound: one delivery of a message in
\* flight at a time.
OnInbound(m) ==
    /\ MayStart
    /\ ~InboundBusy(m)
    /\ \A i \in DOMAIN seen : seen[i] # m
    /\ seen' = Append(IF Len(seen) < SeenLimit THEN seen ELSE Tail(seen), m)
    /\ ids' = TRUE
    /\ handoff' = IF handoff = "returned" THEN "bot" ELSE handoff
    /\ pending' = pending \cup {m}
    /\ GoInb(m, IF convId = 0 THEN "upsert" ELSE "update", convId)
    /\ UNCHANGED <<replies, debounceAt, returnAt, convId, alarm, postgres, out, al, api,
                   anchorOf, faults>>

\* The cached conversation is updated and selected back; a row that is gone
\* means the cached id is dropped and a new row is made.
UpdateConversation(m) ==
    /\ inb[m].pc = "update" /\ ~Computing
    /\ \E o \in {"ok", "fail"} :
         /\ Outcome(o)
         /\ IF o # "ok" THEN ThrowInb(m) /\ UNCHANGED convId
            ELSE IF row = inb[m].conv THEN GoInb(m, "insert", row) /\ UNCHANGED convId
            ELSE GoInb(m, "upsert", 0) /\ convId' = 0
    /\ UNCHANGED <<seen, pending, replies, handoff, debounceAt, returnAt, ids, alarm,
                   postgres, out, al, api, anchorOf>>

\* Mutant: a plain insert, without the unique key.
InsertRow == row' = made + 1 /\ made' = made + 1 /\ rowHandoff' = "bot"
\* One row per customer: on conflict it is the row that is there.
UpsertRow == IF row = 0 THEN row' = made + 1 /\ made' = made + 1 /\ rowHandoff' = "bot"
                        ELSE UNCHANGED <<row, made, rowHandoff>>
UpsertConversation(m) ==
    /\ inb[m].pc = "upsert" /\ ~Computing
    /\ \E o \in {"ok", "fail", "lost"} :
         /\ Outcome(o)
         /\ IF Took(o) THEN UpsertRow ELSE UNCHANGED <<row, made, rowHandoff>>
         /\ IF o = "ok" THEN convId' = row' /\ GoInb(m, "insert", row')
                        ELSE UNCHANGED convId /\ ThrowInb(m)
    /\ UNCHANGED <<seen, pending, replies, handoff, debounceAt, returnAt, ids, alarm,
                   stored, dedupe, flags, bills, booked, out, al, api, anchorOf>>

\* The row is unique by wa_message_id and refers to its conversation.
InsertMessage(m) ==
    /\ inb[m].pc = "insert" /\ ~Computing
    /\ \E o \in {"ok", "fail", "lost"} :
         /\ Outcome(o)
         /\ LET legal == row = inb[m].conv /\ stored[m] = "none"
            IN  /\ stored' = IF Took(o) /\ legal THEN [stored EXCEPT ![m] = "kept"] ELSE stored
                /\ IF o = "ok" /\ legal THEN GoInb(m, "dedupe", 0) ELSE ThrowInb(m)
    /\ UNCHANGED <<object, row, made, rowHandoff, dedupe, flags, bills, booked, out, al, api,
                   anchorOf>>

\* inbound_dedupe has the id as its primary key.  Then #scheduleDebounce: a
\* first message opens the wait, a later one moves it unless the ceiling has
\* been reached, in which case nothing is written.
InsertDedupe(m) ==
    /\ inb[m].pc = "dedupe" /\ ~Computing
    /\ \E o \in {"ok", "fail", "lost"} :
         /\ Outcome(o)
         /\ dedupe' = IF Took(o) THEN dedupe \cup {m} ELSE dedupe
         /\ IF o = "ok" /\ m \notin dedupe
            THEN /\ GoInb(m, "done", 0)
                 /\ UNCHANGED returnAt
                 /\ \/ debounceAt' = "wait" /\ Rearm
                    \/ debounceAt # "none" /\ UNCHANGED <<debounceAt, alarm>>
            ELSE ThrowInb(m) /\ UNCHANGED <<debounceAt, returnAt, alarm>>
    /\ UNCHANGED <<seen, pending, replies, handoff, ids, convId, row, made, rowHandoff, stored,
                   flags, bills, booked, out, al, api, anchorOf>>

-----------------------------------------------------------------------------
(* Time.  alarm() reads its clock once, so a deadline that passes while it *)
(* runs is a deadline that passes just after it.  Assumed: the call that   *)
(* took a conversation over does not outlast the thirty minutes it set.    *)

DebounceElapses ==
    /\ debounceAt = "wait" /\ al.pc = "idle" /\ ~Computing
    /\ debounceAt' = "due"
    /\ UNCHANGED <<seen, pending, replies, handoff, returnAt, ids, convId, alarm, postgres,
                   out, inb, al, api, anchorOf, faults>>

IdleElapses ==
    /\ returnAt = "wait" /\ al.pc = "idle" /\ ~Computing
    /\ \A s \in Staff : ~(api[s].pc = "sync" /\ api[s].op = "takeOver")
    /\ returnAt' = "due"
    /\ UNCHANGED <<seen, pending, replies, handoff, debounceAt, ids, convId, alarm, postgres,
                   out, inb, al, api, anchorOf, faults>>

-----------------------------------------------------------------------------
(* alarm(): flush the burst, then the idle return, then re-arm.            *)

GoAl(pc) == al' = [al EXCEPT !.pc = pc, !.conv = Here]
\* An exception leaves alarm(): the runtime will call it again.  Bound:
\* fewer faults than the runtime's retries.
ThrowAl == al' = IdleAl /\ alarm' = "retry"

\* Mutant: a refused send is billed, and a flagged turn is not recorded.
AfterSendUnchecked(kind, sent) ==
    CASE kind \in {"safe", "handoff", "sorry"} -> "request"
      [] kind \in {"reply", "booked"}          -> "usage"
      [] OTHER                                 -> "return"
\* Where #reply goes when the send has been made, skipped or refused.
AfterSend(kind, sent) ==
    CASE kind = "safe"                  -> "flag"
      [] kind \in {"handoff", "sorry"}  -> "request"
      [] kind \in {"reply", "booked"}   -> IF sent THEN "usage" ELSE "return"
      [] OTHER                          -> "return"
AfterClaimTaken(kind) == IF kind \in {"safe", "handoff"} THEN AfterSend(kind, FALSE) ELSE "return"

CanBotReply == handoff \in {"bot", "returned"}

\* Mutant: the debounce deadline is dropped whenever the alarm fires.
AlarmFiresEarly ==
    /\ MayStart /\ al.pc = "idle"
    /\ alarm # "off" /\ "due" \in {debounceAt, returnAt}
    /\ alarm' = "off"
    /\ debounceAt' = "none"
    /\ GoAl(IF debounceAt = "due" THEN "flush" ELSE "return")
    /\ UNCHANGED <<seen, pending, replies, handoff, returnAt, ids, convId, postgres, out, inb,
                   api, anchorOf, faults>>
\* Due when a deadline is, when the runtime retries, and when erase() dropped
\* both deadlines and left the alarm set.
AlarmFires ==
    /\ MayStart /\ al.pc = "idle"
    /\ \/ alarm = "retry"
       \/ alarm = "on" /\ \/ "due" \in {debounceAt, returnAt}
                          \/ debounceAt = "none" /\ returnAt = "none"
    /\ alarm' = "off"
    /\ debounceAt' = IF debounceAt = "due" THEN "none" ELSE debounceAt
    /\ GoAl(IF debounceAt = "due" THEN "flush" ELSE "return")
    /\ UNCHANGED <<seen, pending, replies, handoff, returnAt, ids, convId, postgres, out, inb,
                   api, anchorOf, faults>>

\* Where a burst goes before its first await: #flushBatch, with the head of
\* #reply and of decideReply, where the prefilter and an attachment settle the
\* turn without one.
Has(class) == \E m \in pending : Class[m] = class
FirstStep(last) ==
    IF ~CanBotReply           THEN [pc |-> "receipt", kind |-> "held"]
    ELSE IF last \in Stale    THEN [pc |-> "receipt", kind |-> "template"]
    ELSE IF Has("flagged")    THEN [pc |-> "claim", kind |-> "safe"]
    ELSE IF Has("attachment") THEN [pc |-> "claim", kind |-> "handoff"]
    ELSE IF Has("image")      THEN [pc |-> "decide", kind |-> "media"]
    ELSE IF Attached          THEN [pc |-> "decide", kind |-> "text"]
    ELSE                           [pc |-> "return", kind |-> "none"]

FlushBatch ==
    /\ al.pc = "flush"
    /\ pending' = {}
    /\ IF pending = {} THEN GoAl("return") /\ UNCHANGED anchorOf
       ELSE \E last \in {m \in pending : \A n \in pending : SentAt[n] <= SentAt[m]} :
              LET step == FirstStep(last)
              IN /\ al' = [pc |-> step.pc, kind |-> step.kind, anchor |-> last,
                           flagged |-> Has("flagged"), conv |-> Here]
                 /\ anchorOf' = [m \in Msgs |-> IF m \in pending /\ step.kind # "held"
                                                THEN last ELSE anchorOf[m]]
    /\ UNCHANGED <<seen, replies, handoff, debounceAt, returnAt, ids, convId, alarm, postgres,
                   out, inb, api, faults>>

\* Mutant: a burst outside its window is dropped.
DropAfterReceipt ==
    /\ al.pc = "receipt" /\ AlMayRun
    /\ GoAl("return")
    /\ UNCHANGED <<object, postgres, out, inb, api, anchorOf, faults>>
\* A person holds the conversation, or the window is shut: only the receipt
\* is awaited.
AwaitReceipt ==
    /\ al.pc = "receipt" /\ AlMayRun
    /\ GoAl(IF al.kind = "held" THEN "return" ELSE "request")
    /\ UNCHANGED <<object, postgres, out, inb, api, anchorOf, faults>>

\* decideReply answers (module ReplyDecision says how).  A slot is only ever
\* chosen on a text turn.
Decide ==
    /\ al.pc = "decide" /\ AlMayRun
    /\ \E kind \in IF al.kind = "media" THEN {"safe", "handoff"}
                   ELSE {"safe", "handoff", "reply", "booked"} :
         al' = [al EXCEPT !.pc = "claim", !.kind = kind, !.conv = Here]
    /\ UNCHANGED <<object, postgres, out, inb, api, anchorOf, faults>>

\* Mutant: the claim is written but not looked at.
SendUnclaimed ==
    /\ al.pc = "claim"
    /\ replies' = replies \cup {al.anchor}
    /\ GoAl(IF al.kind = "booked" THEN "book" ELSE "meta")
    /\ UNCHANGED <<seen, pending, handoff, debounceAt, returnAt, ids, convId, alarm, postgres,
                   out, inb, api, anchorOf, faults>>
\* claimReply, and the head of what follows it.
ClaimReply ==
    /\ al.pc = "claim"
    /\ replies' = replies \cup {al.anchor}
    /\ GoAl(IF al.anchor \in replies THEN AfterClaimTaken(al.kind)
            ELSE IF al.kind = "booked" THEN "book" ELSE "meta")
    /\ UNCHANGED <<seen, pending, handoff, debounceAt, returnAt, ids, convId, alarm, postgres,
                   out, inb, api, anchorOf, faults>>

\* Mutant: a failed call is taken for a booking.
BookedAnyway(o, free) == free
BookedFor(o, free) == o = "ok" /\ free
\* #book: false for a label nobody offered, a slot that has gone, and for any
\* failed call, the ones that took effect included.
Book ==
    /\ al.pc = "book" /\ AlMayRun
    /\ \E o \in {"ok", "fail", "lost"}, free \in IF al.conv = -1 THEN {FALSE} ELSE BOOLEAN :
         /\ Outcome(o)
         /\ booked' = IF Took(o) /\ free THEN booked \cup {al.anchor} ELSE booked
         /\ al' = [al EXCEPT !.pc = "meta", !.conv = Here,
                             !.kind = IF BookedFor(o, free) THEN "booked" ELSE "sorry"]
    /\ UNCHANGED <<object, row, made, rowHandoff, stored, dedupe, flags, bills, out, inb, api,
                   anchorOf>>

\* #sendTarget and the call to Meta.  No account row, no template to send or no
\* identity sends nothing and is not an error; a send without an identity
\* afterwards counts as not sent.
SendToMeta ==
    /\ al.pc = "meta" /\ AlMayRun
    /\ IF al.conv = -1
       THEN GoAl(AfterSend(al.kind, FALSE)) /\ UNCHANGED <<out, alarm, faults>>
       ELSE \/ /\ \/ al.kind = "template" /\ UNCHANGED faults
                  \/ "account" \in Faults /\ faults < MaxFaults /\ faults' = faults + 1
               /\ GoAl(AfterSend(al.kind, FALSE)) /\ UNCHANGED <<out, alarm>>
            \/ \E o \in {"ok", "fail", "lost"} :
                 /\ Outcome(o)
                 /\ out' = IF Took(o) THEN [out EXCEPT ![al.anchor] = Append(@, al.kind)] ELSE out
                 /\ IF o # "ok" THEN ThrowAl
                    ELSE GoAl(IF Attached THEN "row" ELSE AfterSend(al.kind, FALSE))
                         /\ UNCHANGED alarm
    /\ UNCHANGED <<seen, pending, replies, handoff, debounceAt, returnAt, ids, convId,
                   postgres, inb, api, anchorOf>>

\* A write that refers to the conversation: the outbound row, the bill, the
\* lead, the flag.  Without an identity it is skipped; with a conversation
\* that is gone it breaks the foreign key.  Write is what the row adds.
AlWrite(pc, next, Write) ==
    /\ al.pc = pc /\ AlMayRun
    /\ IF al.conv < 1
       THEN GoAl(next) /\ UNCHANGED <<alarm, faults, flags, bills>>
       ELSE \E o \in {"ok", "fail", "lost"} :
              /\ Outcome(o)
              /\ IF Took(o) /\ row = al.conv THEN Write ELSE UNCHANGED <<flags, bills>>
              /\ IF o = "ok" /\ row = al.conv THEN GoAl(next) /\ UNCHANGED alarm ELSE ThrowAl
    /\ UNCHANGED <<seen, pending, replies, handoff, debounceAt, returnAt, ids, convId, row, made,
                   rowHandoff, stored, dedupe, booked, out, inb, api, anchorOf>>

InsertOutbound == AlWrite("row", AfterSend(al.kind, TRUE), UNCHANGED <<flags, bills>>)
RecordUsage ==
    AlWrite("usage", "lead",
            bills' = [bills EXCEPT ![al.anchor] = @ + 1] /\ UNCHANGED flags)
RecordLead == AlWrite("lead", "return", UNCHANGED <<flags, bills>>)
RecordFlag ==
    AlWrite("flag", IF al.kind = "safe" THEN "request" ELSE "return",
            flags' = flags \cup {al.anchor} /\ UNCHANGED bills)

\* requestHandoff: nothing to do when a person already holds the conversation.
AfterRequest == IF al.kind = "template" THEN (IF al.flagged THEN "flag" ELSE "claim") ELSE "return"
RequestHandoff ==
    /\ al.pc = "request"
    /\ IF handoff = "human" THEN GoAl(AfterRequest) /\ UNCHANGED handoff
                            ELSE GoAl("sync") /\ handoff' = "requested"
    /\ UNCHANGED <<seen, pending, replies, debounceAt, returnAt, ids, convId, alarm, postgres,
                   out, inb, api, anchorOf, faults>>

\* #syncHandoff from the alarm: an UPDATE that matches no row is no error.
AlSync(pc, state, next) ==
    /\ al.pc = pc /\ AlMayRun
    /\ IF al.conv < 1
       THEN GoAl(next) /\ UNCHANGED <<rowHandoff, alarm, faults>>
       ELSE \E o \in {"ok", "fail", "lost"} :
              /\ Outcome(o)
              /\ rowHandoff' = IF Took(o) /\ row = al.conv THEN state ELSE rowHandoff
              /\ IF o = "ok" THEN GoAl(next) /\ UNCHANGED alarm ELSE ThrowAl
    /\ UNCHANGED <<seen, pending, replies, handoff, debounceAt, returnAt, ids, convId, row, made,
                   stored, dedupe, flags, bills, booked, out, inb, api, anchorOf>>

SyncRequested == AlSync("sync", "requested", AfterRequest)
SyncReturned  == AlSync("autoSync", "returned", "reschedule")

\* Mutant: the deadline that has fired is not deleted.
AutoReturnKeepsDeadline ==
    /\ al.pc = "return"
    /\ IF returnAt = "due" /\ handoff = "human"
       THEN handoff' = "returned" /\ GoAl("autoSync")
       ELSE UNCHANGED handoff /\ GoAl("reschedule")
    /\ UNCHANGED <<seen, pending, replies, debounceAt, returnAt, ids, convId, alarm, postgres, out,
                   inb, api, anchorOf, faults>>
\* The second half of alarm(): #autoReturn.
AutoReturn ==
    /\ al.pc = "return"
    /\ returnAt' = IF returnAt = "due" THEN "none" ELSE returnAt
    /\ IF returnAt = "due" /\ handoff = "human"
       THEN handoff' = "returned" /\ GoAl("autoSync")
       ELSE UNCHANGED handoff /\ GoAl("reschedule")
    /\ UNCHANGED <<seen, pending, replies, debounceAt, ids, convId, alarm, postgres, out, inb,
                   api, anchorOf, faults>>

Reschedule ==
    /\ al.pc = "reschedule"
    /\ UNCHANGED <<debounceAt, returnAt>>
    /\ Rearm
    /\ al' = IdleAl
    /\ UNCHANGED <<seen, pending, replies, handoff, ids, convId, postgres, out, inb, api,
                   anchorOf, faults>>

-----------------------------------------------------------------------------
(* The dashboard.  conversationStub looks the row up, attaches the object  *)
(* to it, and then makes the call: three events.                           *)

GoApi(s, pc) == api' = [api EXCEPT ![s].pc = pc, ![s].conv = Here]
EndApi(s)    == api' = [api EXCEPT ![s] = IdleApi]

ConversationStub(s, op) ==
    /\ api[s].pc = "idle" /\ row # 0
    /\ api' = [api EXCEPT ![s] = [pc |-> "attach", op |-> op, conv |-> row,
                                  waIds |-> {}, keep |-> FALSE]]
    /\ UNCHANGED <<object, postgres, out, inb, al, anchorOf, faults>>

Attach(s) ==
    /\ api[s].pc = "attach" /\ MayStart
    /\ ids' = TRUE
    /\ convId' = api[s].conv
    /\ api' = [api EXCEPT ![s].pc = "call"]
    /\ UNCHANGED <<seen, pending, replies, handoff, debounceAt, returnAt, alarm, postgres, out,
                   inb, al, anchorOf, faults>>

TakeOver(s) ==
    /\ api[s].pc = "call" /\ api[s].op = "takeOver" /\ MayStart
    /\ handoff' = "human"
    /\ returnAt' = "wait" /\ UNCHANGED debounceAt /\ Rearm
    /\ GoApi(s, "sync")
    /\ UNCHANGED <<seen, pending, replies, ids, convId, postgres, out, inb, al, anchorOf, faults>>

Release(s) ==
    /\ api[s].pc = "call" /\ api[s].op = "release" /\ MayStart
    /\ handoff' = "returned"
    /\ returnAt' = "none" /\ UNCHANGED debounceAt /\ Rearm
    /\ GoApi(s, "sync")
    /\ UNCHANGED <<seen, pending, replies, ids, convId, postgres, out, inb, al, anchorOf, faults>>

\* #syncHandoff from the dashboard.
SyncFromApi(s) ==
    /\ api[s].pc = "sync" /\ ApiMayRun(s)
    /\ IF api[s].conv < 1 THEN UNCHANGED <<rowHandoff, faults>>
       ELSE \E o \in {"ok", "fail", "lost"} :
              /\ Outcome(o)
              /\ rowHandoff' = IF Took(o) /\ row = api[s].conv
                               THEN (IF api[s].op = "takeOver" THEN "human" ELSE "returned")
                               ELSE rowHandoff
    /\ EndApi(s)
    /\ UNCHANGED <<object, row, made, stored, dedupe, flags, bills, booked, out, inb, al, anchorOf>>

\* sendHuman: the lock is read before the sends, and "not_human" is an answer.
SendHuman(s) ==
    /\ api[s].pc = "call" /\ api[s].op = "sendHuman" /\ MayStart
    /\ IF handoff = "human" THEN GoApi(s, "meta") ELSE EndApi(s)
    /\ UNCHANGED <<object, postgres, out, inb, al, anchorOf, faults>>

\* #deliver for a person: the text to Meta, then its row.
DeliverHuman(s) ==
    /\ ApiMayRun(s)
    /\ \/ /\ api[s].pc = "meta"
          /\ IF api[s].conv = -1 THEN GoApi(s, "touch") /\ UNCHANGED faults
             ELSE \E o \in {"ok", "fail", "lost"} :
                    /\ Outcome(o)
                    /\ IF o = "ok" THEN GoApi(s, IF Attached THEN "row" ELSE "touch") ELSE EndApi(s)
       \/ /\ api[s].pc = "row"
          /\ \E o \in {"ok", "fail", "lost"} :
               /\ Outcome(o)
               /\ IF o = "ok" /\ row = api[s].conv THEN GoApi(s, "touch") ELSE EndApi(s)
    /\ UNCHANGED <<object, postgres, out, inb, al, anchorOf>>

TouchHuman(s) ==
    /\ api[s].pc = "touch"
    /\ UNCHANGED debounceAt
    /\ IF handoff = "human" THEN returnAt' = "wait" /\ Rearm ELSE UNCHANGED <<returnAt, alarm>>
    /\ EndApi(s)
    /\ UNCHANGED <<seen, pending, replies, handoff, ids, convId, postgres, out, inb, al, anchorOf,
                   faults>>

-----------------------------------------------------------------------------
(* erase(): read what to delete, purge, delete or scrub, remove the media, *)
(* then drop the object's own copy.  The claims and the alarm stay.  A     *)
(* group of deletes that fails may have made its first ones.               *)

EraseCall(s) ==
    /\ api[s].pc = "call" /\ api[s].op = "erase" /\ MayStart
    /\ IF Attached THEN GoApi(s, "ids") ELSE EndApi(s)
    /\ UNCHANGED <<object, postgres, out, inb, al, anchorOf, faults>>

\* The ids that inbound_dedupe is keyed by.
EraseIds(s) ==
    /\ api[s].pc = "ids" /\ ApiMayRun(s)
    /\ \E o \in {"ok", "fail"} :
         /\ Outcome(o)
         /\ IF o # "ok" THEN EndApi(s)
            ELSE api' = [api EXCEPT ![s] =
                   [pc |-> "flags", op |-> "erase", conv |-> api[s].conv, keep |-> FALSE,
                    waIds |-> {m \in Msgs : row = api[s].conv /\ stored[m] # "none"}]]
    /\ UNCHANGED <<object, postgres, out, inb, al, anchorOf>>

HasFlags(conv) == row = conv /\ flags # {}
EraseFlags(s) ==
    /\ api[s].pc = "flags" /\ ApiMayRun(s)
    /\ \E o \in {"ok", "fail"} :
         /\ Outcome(o)
         /\ IF o # "ok" THEN EndApi(s)
            ELSE api' = [api EXCEPT ![s] =
                   [pc |-> "purge", op |-> "erase", conv |-> api[s].conv,
                    keep |-> HasFlags(api[s].conv), waIds |-> api[s].waIds]]
    /\ UNCHANGED <<object, postgres, out, inb, al, anchorOf>>

\* usage_events, leads and inbound_dedupe, in that order.
ErasePurge(s) ==
    /\ api[s].pc = "purge" /\ ApiMayRun(s)
    /\ \E o \in {"ok", "fail", "lost"}, unbilled, forgotten \in BOOLEAN :
         /\ Outcome(o)
         /\ (Took(o) => forgotten) /\ (forgotten => unbilled)
         /\ bills' = IF unbilled /\ row = api[s].conv THEN [m \in Msgs |-> 0] ELSE bills
         /\ dedupe' = IF forgotten THEN dedupe \ api[s].waIds ELSE dedupe
         /\ IF o = "ok" THEN api' = [api EXCEPT ![s].pc = "rows"] ELSE EndApi(s)
    /\ UNCHANGED <<object, row, made, rowHandoff, stored, flags, booked, out, inb, al, anchorOf>>

\* A flagged conversation is scrubbed and kept; of any other the messages are
\* deleted and then the row, which cascades.  Bound: a deleted row can be made
\* again.
EraseRows(s) ==
    /\ api[s].pc = "rows" /\ ApiMayRun(s)
    /\ \E o \in {"ok", "fail", "lost"}, emptied \in BOOLEAN :
         /\ Outcome(o)
         /\ Took(o) => emptied
         /\ IF ~emptied \/ row # api[s].conv THEN UNCHANGED <<row, stored, flags>>
            ELSE IF api[s].keep
            THEN /\ stored' = [m \in Msgs |-> IF stored[m] = "none" THEN "none" ELSE "scrubbed"]
                 /\ UNCHANGED <<row, flags>>
            ELSE /\ stored' = [m \in Msgs |-> "none"]
                 /\ IF Took(o) THEN made < MaxRows /\ row' = 0 /\ flags' = {}
                               ELSE UNCHANGED <<row, flags>>
         /\ IF o = "ok" THEN api' = [api EXCEPT ![s].pc = "media"] ELSE EndApi(s)
    /\ UNCHANGED <<object, made, rowHandoff, dedupe, bills, booked, out, inb, al, anchorOf>>

\* Mutant: the claims go with the rest, and the lock stays.
DropStorageButLock ==
    /\ seen' = <<>> /\ pending' = {} /\ replies' = {}
    /\ debounceAt' = "none" /\ returnAt' = "none"
    /\ ids' = FALSE /\ convId' = 0
    /\ UNCHANGED <<handoff, alarm>>
DropStorage ==
    /\ seen' = <<>> /\ pending' = {}
    /\ handoff' = "bot" /\ debounceAt' = "none" /\ returnAt' = "none"
    /\ ids' = FALSE /\ convId' = 0
    /\ UNCHANGED <<replies, alarm>>
EraseMedia(s) ==
    /\ api[s].pc = "media" /\ ApiMayRun(s)
    /\ \E o \in {"ok", "fail", "lost"} :
         /\ Outcome(o)
         /\ IF o # "ok" THEN UNCHANGED object ELSE DropStorage
    /\ EndApi(s)
    /\ UNCHANGED <<postgres, out, inb, al, anchorOf>>

-----------------------------------------------------------------------------
(* The environment.                                                        *)

\* demo_reset() deletes a walk-in's conversation in Postgres, under the object.
DemoReset ==
    /\ "reset" \in Faults /\ faults < MaxFaults /\ row # 0 /\ made < MaxRows
    /\ faults' = faults + 1
    /\ row' = 0 /\ flags' = {}
    /\ stored' = [m \in Msgs |-> "none"]
    /\ bills' = [m \in Msgs |-> 0]
    /\ UNCHANGED <<object, made, rowHandoff, dedupe, booked, out, inb, al, api, anchorOf>>

\* The object is evicted: what awaits dies with it, storage stays, and an
\* alarm that had not finished is delivered again.
Crash ==
    /\ "crash" \in Faults /\ faults < MaxFaults /\ ~Quiet /\ ~Computing
    /\ faults' = faults + 1
    /\ inb' = [m \in Msgs |-> IF InboundBusy(m) THEN [pc |-> "lost", conv |-> 0] ELSE inb[m]]
    /\ api' = [s \in Staff |-> IF ApiBusy(s) THEN IdleApi ELSE api[s]]
    /\ al' = IdleAl
    /\ alarm' = IF al.pc = "idle" THEN alarm ELSE "retry"
    /\ UNCHANGED <<seen, pending, replies, handoff, debounceAt, returnAt, ids, convId, postgres,
                   out, anchorOf>>

-----------------------------------------------------------------------------

InboundStep(m) == \/ UpdateConversation(m) \/ UpsertConversation(m)
                  \/ InsertMessage(m) \/ InsertDedupe(m)

AlarmStep == \/ FlushBatch \/ AwaitReceipt \/ Decide \/ ClaimReply \/ Book \/ SendToMeta
             \/ InsertOutbound \/ RecordUsage \/ RecordLead \/ RecordFlag \/ RequestHandoff
             \/ SyncRequested \/ AutoReturn \/ SyncReturned \/ Reschedule

ApiStep(s) == \/ Attach(s) \/ TakeOver(s) \/ Release(s) \/ SyncFromApi(s)
              \/ SendHuman(s) \/ DeliverHuman(s) \/ TouchHuman(s)
              \/ EraseCall(s) \/ EraseIds(s) \/ EraseFlags(s)
              \/ ErasePurge(s) \/ EraseRows(s) \/ EraseMedia(s)

Next == \/ \E m \in Msgs : OnInbound(m) \/ InboundStep(m)
        \/ DebounceElapses \/ IdleElapses
        \/ AlarmFires \/ AlarmStep
        \/ \E s \in Staff : ApiStep(s) \/ \E op \in Ops : ConversationStub(s, op)
        \/ DemoReset \/ Crash

Spec == Init /\ [][Next]_vars

\* Time passes, the runtime runs what it has taken and delivers an alarm that
\* is due however many other events it also delivers.  Nobody has to write,
\* and no person has to act.
Fairness == /\ \A m \in Msgs : WF_vars(InboundStep(m))
            /\ WF_vars(AlarmStep)
            /\ \A s \in Staff : WF_vars(ApiStep(s))
            /\ WF_vars(DebounceElapses) /\ WF_vars(IdleElapses)
            /\ SF_vars(AlarmFires)
LiveSpec == Spec /\ Fairness

-----------------------------------------------------------------------------
(* Properties.                                                             *)

\* Whatever is lost, retried, redelivered or erased, the bot answers a burst
\* at most once: the claim in replies comes before the call to Meta.
AtMostOneReply == \A m \in Msgs : Len(out[m]) <= 1

\* The object, its row and Meta keep the ledger: whatever happens to them, the
\* reply to a burst is claimed in the object's storage, then sent, then charged,
\* each once (conversation.ts:533-562, 1029-1047).
Ledger == INSTANCE ReplyLedger WITH
              claimed <- replies,
              sent    <- [m \in Msgs |-> Len(out[m])],
              charged <- bills
KeepsLedger == Ledger!Spec

\* "You're booked" reaches the customer only for a slot that was taken: the
\* booking sits between the claim and the send.
NoFalseConfirmation ==
    \A m \in Msgs : \A i \in DOMAIN out[m] : out[m][i] = "booked" => m \in booked

\* The meter is charged once, and only for a model reply that went out.
BilledOnlyIfSent ==
    \A m \in Msgs : bills[m] > 0 => bills[m] = 1 /\ out[m] \in {<<"reply">>, <<"booked">>}

\* A person holds the conversation exactly as long as the idle timer that will
\* take it back is set, so no takeover is for ever and no timer outlives one.
PersonHasTimer == handoff = "human" <=> returnAt # "none"

\* The single alarm serves two deadlines: whichever is set, the alarm is armed
\* or the handler that will re-arm it is running.
DeadlineIsArmed ==
    debounceAt # "none" \/ returnAt # "none" => alarm # "off" \/ al.pc # "idle"

\* A flagged turn leaves its safety_flags row: once its turn is over, the row
\* is there.
FlaggedIsLogged ==
    Quiet => \A m \in Msgs : Class[m] = "flagged" /\ anchorOf[m] # NoMsg => anchorOf[m] \in flags

\* The agent is quiet the moment a person takes over: no word of the bot
\* leaves while the lock is held.
QuietUnderHuman == [][out' # out => handoff # "human"]_vars

\* No message is left in silence: one that has been accepted and waits is
\* answered, or is taken up by a person, or has a person asked for it.
NoSilence ==
    \A m \in Msgs : (m \in pending /\ inb[m].pc = "done") ~>
        \/ handoff \in {"requested", "human"}
        \/ anchorOf[m] # NoMsg /\ out[anchorOf[m]] # <<>>

\* A takeover that has gone stale ends: when the idle deadline has come, the
\* person stops holding the conversation or has been active since.
StaleHandoffReturns == returnAt = "due" ~> returnAt # "due"
=============================================================================
