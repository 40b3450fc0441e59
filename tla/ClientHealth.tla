---------------------------- MODULE ClientHealth ----------------------------
(***************************************************************************)
(* The traffic light of a client: what Meta answers when it is asked about *)
(* a number (workers/api/src/admin.ts), and what the panel makes of the    *)
(* answers and of our own rows (dashboard/src/lib/health.ts).  Pure        *)
(* functions: PanelProofs says what the light tells, and what it does not. *)
(***************************************************************************)
EXTENDS Integers, FiniteSets

Yes == "yes"  No == "no"  Unknown == "null"

\* A Graph read: the world's fact, a refusal (4xx), or no verdict: no answer, a 5xx,
\* or a body that does not parse.
Answers == {"body", "refused", "nothing"}
Read(answer, fact) == CASE answer = "body" -> fact
                       [] answer = "refused" -> No
                       [] answer = "nothing" -> Unknown

\* What is true of a number, and how Meta answers each question about it.
Worlds == [token : {Yes, No}, expires : {"never", "soon", "later"}, subscribed : {Yes, No},
           quality : {"GREEN", "UNKNOWN", "YELLOW"}, template : {"none", "APPROVED", "REJECTED"},
           answer : [token : Answers, subscribed : Answers, rest : Answers]]

TokenStatus(w) == [valid |-> Read(w.answer.token, w.token),
                   expires |-> IF w.answer.token = "body" THEN w.expires ELSE "never"]
SubscriptionStatus(w) == Read(w.answer.subscribed, w.subscribed)
NumberStatus(w) == IF w.answer.rest = "body" THEN w.quality ELSE "UNKNOWN"
\* A configured template that Meta does not list has no status.
TemplateStatus(w) == IF w.template = "none" THEN "none"
                     ELSE IF w.answer.rest = "body" THEN w.template ELSE Unknown
NumberHealth(w) == [token |-> TokenStatus(w), subscribed |-> SubscriptionStatus(w),
                    quality |-> NumberStatus(w), template |-> TemplateStatus(w)]

\* Our own rows.
Data == [capped : BOOLEAN, paused : BOOLEAN, heard : BOOLEAN, answered : BOOLEAN,
         lapsed : BOOLEAN, failed : BOOLEAN, flags : BOOLEAN]

RedNumber(n) == n.token.valid = No \/ n.subscribed = No
AmberNumber(n) == \/ n.token.expires = "soon"
                  \/ n.quality \notin {"GREEN", "UNKNOWN"}
                  \/ n.template \notin {"none", "APPROVED"}
RedData(db) == db.capped \/ (db.heard /\ ~db.answered /\ ~db.paused)
AmberData(db) == db.paused \/ db.lapsed \/ db.failed \/ db.flags
\* checked is false until the row has been opened and Meta asked.
Health(db, checked, meta, walletEmpty) ==
    LET numbers == IF checked THEN meta ELSE {}
    IN  [level |-> IF walletEmpty \/ RedData(db) \/ \E n \in numbers : RedNumber(n) THEN "red"
                   ELSE IF AmberData(db) \/ \E n \in numbers : AmberNumber(n) THEN "amber"
                   ELSE "green",
         partial |-> \/ ~checked
                     \/ \E n \in numbers : Unknown \in {n.token.valid, n.subscribed}]

-----------------------------------------------------------------------------
(* The screen that shows the light (dashboard/src/Admin.tsx).              *)

Quiet == [f \in DOMAIN (CHOOSE d \in Data : TRUE) |-> FALSE]
Balances == {"left", "empty", "unread"}

\* load: a rollup that fails leaves a client with nothing against it.
Load(rollup, db) == IF rollup THEN db ELSE Quiet
\* openRow: a check that fails as a whole is a check of no numbers.
OpenRow(answered, meta) == IF answered THEN meta ELSE {}
\* A wallet that could not be read is not an empty one.
Light(rollup, db, open, answered, meta, balance) ==
    Health(Load(rollup, db), open, OpenRow(answered, meta), balance = "empty")

-----------------------------------------------------------------------------
\* A number that works, and one that Meta has spoken of.
Sound(w) == w.token = Yes /\ w.subscribed = Yes
Heard(w) == w.answer.token # "nothing" /\ w.answer.subscribed # "nothing"
=============================================================================
