------------------------------- MODULE Intake -------------------------------
(***************************************************************************)
(* What Meta posts to a client's webhook (workers/api/src/webhook.ts), up  *)
(* to the Durable Object of each conversation, and the keys that a         *)
(* client's secrets are sealed under while they are rotated (crypto.ts,    *)
(* scripts/rotate-key.ts).  A post is a request that looks its account up, *)
(* opens the app secret, passes the limiter, and is answered; what it      *)
(* brought is worked off after the answer.  Anything but a 2xx makes Meta  *)
(* post again.                                                             *)
(*                                                                         *)
(* Abstracted: the HMAC (only what Meta signed is posted here), the parse, *)
(* duplicates of a post (module Conversation drops them), and the text of  *)
(* errors.  The token and the app secret of a row are sealed together and  *)
(* move together.                                                          *)
(***************************************************************************)
EXTENDS Integers, Sequences, FiniteSets

CONSTANTS
    Accounts,    \* wa_accounts, one per client
    Late,        \* those that are onboarded on the way, which nobody posts to yet
    Payloads,
    Slug,        \* whose webhook each payload is posted to
    Messages,    \* the customers' messages in it: [id, number], in order
    Receipts,    \* the delivery receipts in it: [of, status], in order
    Outbound,    \* our messages that Meta has already been given
    Limit,       \* ORG_LIMITER, per window
    MaxFaults    \* bound: calls that fail

Old == 1
New == 2
NoRow == 0
NoStatus == "no status"

ASSUME IntakeAssumption ==
    /\ Late \subseteq Accounts
    /\ \A p \in Payloads : Slug[p] \in Accounts \ Late
    /\ Limit \in Nat \ {0} /\ MaxFaults \in Nat
    /\ \A p \in Payloads : DOMAIN Messages[p] \subseteq Nat /\ DOMAIN Receipts[p] \subseteq Nat
    /\ \A p \in Payloads : \A i \in DOMAIN Receipts[p] : Receipts[p][i].of \in Outbound

VARIABLES
    row,       \* the key version each account's secrets are sealed under
    keys,      \* MASTER_KEY_V* that the Worker has
    joining,   \* onboarding under way: the version it read, or NoRow
    moving,    \* the rotation: "no", "put", "proved", "done"
    post,      \* each payload at Meta: "none", "waiting" for a 2xx, "taken"
    req,       \* the request that carries it
    job,       \* what waitUntil still does with it
    used,      \* what each account has used of the limiter's window
    handed,    \* messages that reached their conversation's object
    told,      \* history: payloads whose failure reached Sentry
    out,       \* outbound messages: "sent", "row" inserted
    status,    \* messages.status
    late,      \* history: accounts whose onboarding a rotation overtook
    faults

vars == <<row, keys, joining, moving, post, req, job, used, handed, told, out, status, late, faults>>

sealing == <<row, keys, joining, moving, late>>
serving == <<post, req, job, used, handed, told>>
sending == <<out, status>>

Idle == [pc |-> "idle", env |-> {}, tries |-> 0, version |-> NoRow]
NoJob == [pc |-> "none", at |-> 0]
Ids == UNION {{Messages[p][i].id : i \in DOMAIN Messages[p]} : p \in Payloads}
Statuses == UNION {{Receipts[p][i].status : i \in DOMAIN Receipts[p]} : p \in Payloads}

\* extractInbound: a second number on the same WABA posts to the same slug.
IsOwn(p, i) == Messages[p][i].number = Slug[p]
Own(p) == {i \in DOMAIN Messages[p] : IsOwn(p, i)}

Requests == [pc : {"idle", "lookup", "verify", "limit"}, env : SUBSET {Old, New},
             tries : 0..1, version : {NoRow, Old, New}]
Jobs == [pc : {"none", "messages", "statuses", "report", "done"}, at : Nat]

TypeOK ==
    /\ row \in [Accounts -> {NoRow, Old, New}] /\ joining \in [Late -> {NoRow, Old, New}]
    /\ keys \in (SUBSET {Old, New}) \ {{}} /\ late \subseteq Late
    /\ moving \in {"no", "put", "proved", "done"}
    /\ post \in [Payloads -> {"none", "waiting", "taken"}]
    /\ req \in [Payloads -> Requests] /\ job \in [Payloads -> Jobs]
    /\ \A p \in Payloads :
        /\ req[p].pc # "idle" => post[p] = "waiting" /\ req[p].env # {}
        /\ req[p].pc \in {"verify", "limit"} => req[p].version # NoRow
        /\ req[p].pc = "limit" => Receipts[p] = <<>> /\ req[p].version \in req[p].env
        /\ job[p].pc # "none" => post[p] = "taken"
        /\ job[p].pc = "messages" => job[p].at \in Own(p)
        /\ job[p].pc = "statuses" => job[p].at \in DOMAIN Receipts[p]
    /\ used \in [Accounts \ Late -> 0..Limit]
    /\ handed \subseteq Ids /\ told \subseteq Payloads
    /\ out \in [Outbound -> {"sent", "row"}]
    /\ status \in [Outbound -> Statuses \cup {NoStatus}]
    /\ \A m \in Outbound : status[m] # NoStatus => out[m] = "row"
    /\ faults \in 0..MaxFaults

Init ==
    /\ row = [a \in Accounts |-> IF a \in Late THEN NoRow ELSE Old]
    /\ keys = {Old} /\ moving = "no" /\ joining = [a \in Late |-> NoRow] /\ late = {}
    /\ post = [p \in Payloads |-> "none"]
    /\ req = [p \in Payloads |-> Idle] /\ job = [p \in Payloads |-> NoJob]
    /\ used \in [Accounts \ Late -> 0..Limit] \* of the window that is open
    /\ handed = {} /\ told = {}
    /\ out = [m \in Outbound |-> "sent"] /\ status = [m \in Outbound |-> NoStatus]
    /\ faults = 0

Works == faults' = faults
Fails == faults < MaxFaults /\ faults' = faults + 1

-----------------------------------------------------------------------------
(* Sealing, and the rotation as the script prints it.                      *)

Oldest(env) == CHOOSE v \in env : \A w \in env : v <= w
\* The highest that is set.
CurrentVersion(env) == CHOOSE v \in env : \A w \in env : w <= v

\* POST /api/admin/orgs: the version is read and the secrets are sealed, ...
Seal(a) ==
    /\ row[a] = NoRow /\ joining[a] = NoRow
    /\ joining' = [joining EXCEPT ![a] = CurrentVersion(keys)]
    /\ UNCHANGED <<row, keys, moving, late, serving, sending, faults>>
\* ... and an await later the row is written.
InsertAccount(a) ==
    /\ joining[a] # NoRow
    /\ row' = [row EXCEPT ![a] = joining[a]] /\ joining' = [joining EXCEPT ![a] = NoRow]
    /\ UNCHANGED <<keys, moving, late, serving, sending, faults>>

\* 1. The new key beside the old one.
PutKey ==
    /\ moving = "no" /\ moving' = "put" /\ keys' = keys \cup {New}
    /\ late' = {a \in Late : joining[a] # NoRow}
    /\ UNCHANGED <<row, joining, serving, sending, faults>>
\* 2. One UPDATE per number.
MoveRow(a) ==
    /\ moving # "no" /\ row[a] = Old
    /\ row' = [row EXCEPT ![a] = New]
    /\ UNCHANGED <<keys, joining, moving, late, serving, sending, faults>>
\* 3. A real message that a row under the new key let in, ...
Prove(p) ==
    /\ moving = "put" /\ req[p].pc = "limit" /\ req[p].version = New
    /\ moving' = "proved" /\ UNCHANGED <<row, keys, joining, late, serving, sending, faults>>
\* ... and once every row has moved, the old key goes.
OldIsUnused == \A a \in Accounts : row[a] # Old
DeleteKey ==
    /\ moving = "proved" /\ OldIsUnused
    /\ moving' = "done" /\ keys' = keys \ {Old}
    /\ UNCHANGED <<row, joining, late, serving, sending, faults>>

-----------------------------------------------------------------------------
(* A post.                                                                 *)

\* Meta posts, and posts again whatever was not answered with a 2xx.  The
\* request keeps the secrets of the isolate it runs in.
Deliver(p) ==
    /\ post[p] \in {"none", "waiting"} /\ req[p] = Idle
    /\ post' = [post EXCEPT ![p] = "waiting"]
    /\ req' = [req EXCEPT ![p] = [Idle EXCEPT !.pc = "lookup", !.env = keys]]
    /\ UNCHANGED <<sealing, sending, job, used, handed, told, faults>>

\* A throw is a 500, through onError.
Refuse(p) == req' = [req EXCEPT ![p] = Idle] /\ UNCHANGED <<post, job>>

\* The loops behind the 200: what is left to do is worked off in its order.
WorkOff(p, pc, left) ==
    \/ left = {} /\ job' = [job EXCEPT ![p] = [pc |-> "done", at |-> 0]]
    \/ \E n \in left : /\ \A k \in left : n <= k
                       /\ job' = [job EXCEPT ![p] = [pc |-> pc, at |-> n]]
Onward(p, work) == WorkOff(p, job[p].pc, {n \in work : n > job[p].at})

\* The 200 goes out, and the work goes on behind it.
Take(p, pc, work) ==
    /\ req' = [req EXCEPT ![p] = Idle] /\ post' = [post EXCEPT ![p] = "taken"]
    /\ WorkOff(p, pc, work)

\* lookupAccountBySlug: once more after an error, never after an answer.
Lookup(p) ==
    /\ req[p].pc = "lookup"
    /\ \/ /\ Works /\ req' = [req EXCEPT ![p].pc = "verify", ![p].version = row[Slug[p]]]
          /\ UNCHANGED <<post, job>>
       \/ /\ Fails /\ req[p].tries = 0 /\ req' = [req EXCEPT ![p].tries = 1]
          /\ UNCHANGED <<post, job>>
       \/ Fails /\ req[p].tries = 1 /\ Refuse(p)
    /\ UNCHANGED <<sealing, sending, used, handed, told>>

OpensNewest(p) == req[p].version = CurrentVersion(req[p].env)
Opens(p) == req[p].version \in req[p].env
\* decryptSecret opens the app secret or throws; then receipts take their
\* own way, past the limiter.
Verify(p) ==
    /\ req[p].pc = "verify"
    /\ \/ ~Opens(p) /\ Refuse(p)
       \/ /\ Opens(p) /\ Receipts[p] # <<>>
          /\ Take(p, "statuses", DOMAIN Receipts[p])
       \/ /\ Opens(p) /\ Receipts[p] = <<>>
          /\ req' = [req EXCEPT ![p].pc = "limit"] /\ UNCHANGED <<post, job>>
    /\ UNCHANGED <<sealing, sending, used, handed, told, faults>>

\* The 429 comes before the parse.
DropIt(p) == Take(p, "done", {})
OverLimit(p) == Refuse(p)
LimitIt(p) ==
    LET a == Slug[p] IN
    /\ req[p].pc = "limit"
    /\ \/ /\ used[a] < Limit /\ used' = [used EXCEPT ![a] = @ + 1]
          /\ Take(p, "messages", Own(p))
       \/ used[a] = Limit /\ OverLimit(p) /\ UNCHANGED used
    /\ UNCHANGED <<sealing, sending, handed, told, faults>>

NextWindow(a) ==
    /\ used[a] > 0 /\ used' = [used EXCEPT ![a] = 0]
    /\ UNCHANGED <<sealing, sending, post, req, job, handed, told, faults>>

-----------------------------------------------------------------------------
(* Behind the 200.                                                         *)

\* guard: the throw ends the work, and is reported.
AfterThrow(p) == job' = [job EXCEPT ![p].pc = "report"]

\* dispatch: one message after the other, each to its conversation's object.
Dispatch(p) ==
    LET msg == Messages[p][job[p].at] IN
    /\ job[p].pc = "messages"
    /\ \/ Works /\ handed' = handed \cup {msg.id} /\ Onward(p, Own(p))
       \/ Fails /\ AfterThrow(p) /\ UNCHANGED handed
    /\ UNCHANGED <<sealing, sending, post, req, used, told>>

\* An update by wa_message_id; an upsert would make a row of its own.
Upserted(m) == out[m] \in {"sent", "row"}
Matches(m) == out[m] = "row"
\* persistStatuses: an update, which finds no row when there is none yet, and
\* writes what it brings over what is there.
ApplyReceipt(p) ==
    LET receipt == Receipts[p][job[p].at] IN
    /\ job[p].pc = "statuses"
    /\ \/ /\ Works /\ Onward(p, DOMAIN Receipts[p])
          /\ status' = IF Matches(receipt.of)
                       THEN [status EXCEPT ![receipt.of] = receipt.status] ELSE status
       \/ Fails /\ AfterThrow(p) /\ UNCHANGED status
    /\ UNCHANGED <<sealing, post, req, used, handed, told, out>>

\* report swallows its own failure.
Report(p) ==
    /\ job[p].pc = "report" /\ job' = [job EXCEPT ![p] = [NoJob EXCEPT !.pc = "done"]]
    /\ \/ Works /\ told' = told \cup {p}
       \/ Fails /\ UNCHANGED told
    /\ UNCHANGED <<sealing, sending, post, req, used, handed>>

\* The row of a message is inserted after Meta has the message.
InsertOutbound(m) ==
    /\ out[m] = "sent" /\ out' = [out EXCEPT ![m] = "row"]
    /\ UNCHANGED <<sealing, serving, status, faults>>

Work(p) == Dispatch(p) \/ ApplyReceipt(p) \/ Report(p)
Request(p) == Lookup(p) \/ Verify(p) \/ LimitIt(p)

Next ==
    \/ \E a \in Late : Seal(a) \/ InsertAccount(a)
    \/ PutKey \/ DeleteKey
    \/ \E a \in Accounts : MoveRow(a)
    \/ \E a \in Accounts \ Late : NextWindow(a)
    \/ \E p \in Payloads : Deliver(p) \/ Prove(p) \/ Request(p) \/ Work(p)
    \/ \E m \in Outbound : InsertOutbound(m)

Spec == Init /\ [][Next]_vars

\* Meta goes on posting, a request and the work behind it run to their end,
\* and the limiter's window passes.  Nobody is bound to onboard or to rotate.
LiveSpec ==
    /\ Spec
    /\ \A p \in Payloads : /\ WF_vars(Deliver(p)) /\ WF_vars(Request(p)) /\ WF_vars(Work(p))
    /\ \A a \in Accounts \ Late : WF_vars(NextWindow(a))
    /\ \A m \in Outbound : WF_vars(InsertOutbound(m))

-----------------------------------------------------------------------------
(* Properties.                                                             *)

\* A message that a 200 was given for is in its conversation, or still on its
\* way there, or in an error that somebody was sent.  It takes two failures, of
\* the call and of its report, to lose one with nobody told: a full limiter, a
\* message in the same post or a key that changes hands never does
\* (webhook.ts:57-68, monitor.ts:70).  Of a post that brings receipts as well
\* the code reads the receipts alone; Meta sends the two apart.
OneFailureIsNeverSilent ==
    \A p \in Payloads : \A i \in Own(p) :
        post[p] = "taken" /\ Receipts[p] = <<>> /\ job[p].pc = "done" /\ p \notin told
        => Messages[p][i].id \in handed \/ faults >= 2

\* No account's secrets are ever sealed under a key that the Worker does not
\* have, whenever its client is onboarded in a rotation; but for one whose
\* onboarding had read its version before the new key was put (crypto.ts:37-61,
\* rotate-key.ts:17-22).
SealedIsReadable ==
    \A a \in Accounts : row[a] # NoRow /\ a \notin late => row[a] \in keys

\* What Meta goes on posting is taken in the end, through failed lookups, full
\* windows and a rotation that changes the key between two steps of a request
\* (webhook.ts:52-56, accounts.ts:24-27).
PostedIsTaken ==
    \A p \in Payloads :
        post[p] = "waiting" ~> post[p] = "taken"
=============================================================================
