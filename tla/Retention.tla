----------------------------- MODULE Retention -----------------------------
(***************************************************************************)
(* Attachments and the rows that name them.  An attachment is an object in *)
(* a bucket (packages/shared/src/storage.ts) and a media_key in Postgres,  *)
(* with no transaction over the two.  Six things change them: the object   *)
(* of the conversation when a message arrives, the nightly job of          *)
(* workers/api/src/cron.ts, an erasure, the alarm, which flags, the reset  *)
(* of the demo, and offboarding, which both leave the objects where they   *)
(* are.  Every await is a step of its own, and any of them may fail.       *)
(*                                                                         *)
(* Abstracted: bytes, text, the pages of a lookup (the job's are one page  *)
(* of PostgREST), the key that goes after the body in a scrub and before   *)
(* it in an erasure, and time, of which whole days remain: thirty days and *)
(* twelve months are MediaDays and RowDays.                                *)
(***************************************************************************)
EXTENDS Integers, FiniteSets

CONSTANTS
    Msgs,       \* messages, each in one conversation of one client
    Convs, Orgs,
    ConvOf, OrgOf,
    Pictures,   \* the messages that carry an attachment
    MediaDays,  \* MEDIA_RETENTION_DAYS
    RowDays,    \* RETENTION_MONTHS
    Overrides,  \* the settings an admin may give a client
    Earlier,    \* messages that are there on the first day
    Changing,   \* the clients he may give them to
    Touchy,     \* conversations that are flagged or erased
    WalkIns,    \* conversations of the demo that its reset deletes
    Leaving,    \* clients that are offboarded
    MaxDay,     \* bound: the days that differ
    Faults,     \* which faults may happen
    MaxFaults   \* bound: how many of them

Days == 0..MaxDay
Never == -1
NoOverride == [media |-> Never, rows |-> Never]
EveryoneElse == "everyone else"

ASSUME ConvAssumption == ConvOf \in [Msgs -> Convs] /\ OrgOf \in [Convs -> Orgs]
ASSUME ScopeAssumption == EveryoneElse \notin Orgs
ASSUME PicturesAssumption == Pictures \subseteq Msgs
ASSUME InputAssumption == /\ Earlier \subseteq Pictures /\ Touchy \cup WalkIns \subseteq Convs
                          /\ Changing \cup Leaving \subseteq Orgs
ASSUME TermsAssumption ==
    /\ MediaDays \in Nat /\ RowDays \in Nat
    /\ Overrides \subseteq [media : Nat \cup {Never}, rows : Nat \cup {Never}]
ASSUME BoundsAssumption == /\ MaxDay \in Nat /\ MaxFaults \in Nat
                           /\ Faults \subseteq {"fail", "lost", "refused", "partial"}

VARIABLES
    day,
    clients,  \* organizations
    terms,    \* organizations.retention_months and media_retention_days
    row,      \* messages: when it was sent, whether body and media_key are there
    stored,   \* the bucket
    flagged,  \* the day of the conversation's first safety_flags row
    alive,    \* whether the conversations row is there
    inb,      \* onInbound of each message
    job,      \* the nightly job
    ran,      \* the day of its last trigger
    era,      \* erase() of each conversation
    faults    \* history: the faults so far

vars == <<day, clients, terms, row, stored, flagged, alive, inb, job, ran, era, faults>>

NoRow == [at |-> Never, body |-> FALSE, key |-> FALSE]
Rows == {m \in Msgs : row[m] # NoRow}
Org(m) == OrgOf[ConvOf[m]]
NothingOwed == [scrub |-> {}, media |-> {}, rows |-> {}]
NoJob == [pc |-> "idle", phase |-> "scrub", scope |-> EveryoneElse, left |-> {},
          terms |-> [o \in Orgs |-> NoOverride], convs |-> {}, keys |-> {},
          refused |-> {}, there |-> {}, steady |-> Orgs, owed |-> NothingOwed]
NoErasure == [pc |-> "idle", keep |-> FALSE, keys |-> {}]

RowStates == [at : Days \cup {Never}, body : BOOLEAN, key : BOOLEAN]
Arrivals == [pc : {"new", "insert", "done"}, at : Days \cup {Never}, key : BOOLEAN]
Jobs == [pc : {"idle", "terms", "select", "remove", "write", "ping"},
         phase : {"scrub", "media", "rows"}, scope : Orgs \cup {EveryoneElse},
         left : SUBSET Orgs, terms : [Orgs -> Overrides \cup {NoOverride}],
         convs : SUBSET Convs, keys : SUBSET Pictures,
         refused : SUBSET Pictures, \* history: the keys that removeMedia failed to remove
         there : SUBSET Msgs,   \* history: the rows when the keys were read
         steady : SUBSET Orgs,  \* history: clients whose terms stand as at its start
         owed : [scrub : SUBSET Msgs, media : SUBSET Msgs, rows : SUBSET Msgs]]
Erasures == [pc : {"idle", "rows", "row", "list", "remove"}, keep : BOOLEAN, keys : SUBSET Pictures]

TypeOK ==
    /\ day \in Days /\ clients \subseteq Orgs
    /\ terms \in [Orgs -> Overrides \cup {NoOverride}]
    /\ row \in [Msgs -> RowStates]
    /\ stored \subseteq Pictures
    /\ flagged \in [Convs -> Days \cup {Never}]
    /\ alive \in [Convs -> BOOLEAN]
    /\ inb \in [Msgs -> Arrivals]
    /\ job \in Jobs
    /\ job.pc \in {"remove", "write"} /\ job.phase = "media" => job.keys # {}
    /\ era \in [Convs -> Erasures]
    /\ ran \in Days \cup {Never} /\ faults \in 0..MaxFaults

Init ==
    /\ day = 0 /\ faults = 0 /\ stored = Earlier /\ clients = Orgs
    /\ terms = [o \in Orgs |-> NoOverride]
    /\ row = [m \in Msgs |-> IF m \in Earlier THEN [at |-> 0, body |-> TRUE, key |-> TRUE]
                             ELSE NoRow]
    /\ flagged = [c \in Convs |-> Never]
    /\ alive = [c \in Convs |-> TRUE]
    /\ inb = [m \in Msgs |-> [pc |-> IF m \in Earlier THEN "done" ELSE "new", at |-> Never, key |-> FALSE]]
    /\ job = NoJob /\ ran = Never
    /\ era = [c \in Convs |-> NoErasure]

Fault(kind) == kind \in Faults /\ faults < MaxFaults /\ faults' = faults + 1
NoFault == faults' = faults

-----------------------------------------------------------------------------
(* A message arrives.                                                      *)

\* mediaId is set: extractInbound leaves it out for text and for video.
Carries(m) == m \in Pictures
\* Meta's timestamp, of today or of the day before when it is delivered late, and
\* then #storeMedia.  Whatever goes wrong there, the message goes on without a
\* key; the object may be there all the same.
Taken(m, at, key) == inb' = [inb EXCEPT ![m] = [pc |-> "insert", at |-> at, key |-> key]]
Arrive(m) ==
    /\ inb[m].pc = "new" /\ alive[ConvOf[m]]
    /\ \E at \in {day, day - 1} \cap Days :
         \/ NoFault /\ Carries(m) /\ Taken(m, at, TRUE) /\ stored' = stored \cup {m}
         \/ NoFault /\ ~Carries(m) /\ Taken(m, at, FALSE) /\ UNCHANGED stored
         \/ Fault("fail") /\ Carries(m) /\ Taken(m, at, FALSE) /\ UNCHANGED stored
         \/ Fault("lost") /\ Carries(m) /\ Taken(m, at, FALSE) /\ stored' = stored \cup {m}
    /\ UNCHANGED <<day, clients, terms, row, flagged, alive, job, era, ran>>

\* The messages row of #persistInbound.  It dies on the foreign key when the
\* conversation has gone, and a throw is not made good: the message is in seen.
InsertMessage(m) ==
    /\ inb[m].pc = "insert"
    /\ inb' = [inb EXCEPT ![m].pc = "done"]
    /\ \/ /\ alive[ConvOf[m]]
          /\ row' = [row EXCEPT ![m] = [at |-> inb[m].at, body |-> TRUE, key |-> inb[m].key]]
          /\ NoFault
       \/ /\ IF alive[ConvOf[m]] THEN Fault("fail") ELSE NoFault
          /\ UNCHANGED row
    /\ UNCHANGED <<day, clients, terms, stored, flagged, alive, job, era, ran>>

\* What the alarm writes on a flagged turn.
Flag(c) ==
    /\ alive[c] /\ flagged[c] = Never
    /\ flagged' = [flagged EXCEPT ![c] = day]
    /\ UNCHANGED <<day, clients, terms, row, stored, alive, inb, job, era, faults, ran>>

-----------------------------------------------------------------------------
(* The nightly job, retentionDelete.  Three phases; in each, the objects   *)
(* go before the rows that name them.                                      *)

\* The term of a client in a phase, and whether a message has outlived it.
Term(t, phase) == IF phase = "media" THEN IF t.media = Never THEN MediaDays ELSE t.media
                                     ELSE IF t.rows = Never THEN RowDays ELSE t.rows
Overrode(t, phase) == IF phase = "media" THEN t.media # Never ELSE t.rows # Never
Overdue(m, phase) == row[m].at < day - Term(terms[Org(m)], phase)
FlaggedBefore(c, d) == flagged[c] # Never /\ flagged[c] < d

\* What a job beginning now should have dropped when it reports success.
Owed == [scrub |-> {m \in Rows : FlaggedBefore(ConvOf[m], day - 1)},
         media |-> {m \in Rows : row[m].key /\ Overdue(m, "media")},
         rows  |-> {m \in Rows : Overdue(m, "rows")}]
\* Mutant: a night without flags is a night without work.
AfterNoFlags(j) == [j EXCEPT !.pc = "ping"]
\* The flagged set is empty: scrubFlaggedContent returns early, and the sweeps
\* come all the same.
AfterScrub(j) == [j EXCEPT !.pc = "terms", !.phase = "media", !.convs = {}, !.keys = {},
                           !.there = {}]
StartJob ==
    /\ job.pc = "idle" /\ ran < day /\ ran' = day
    /\ LET ids == {c \in Convs : FlaggedBefore(c, day - 1)}
           night == [NoJob EXCEPT !.owed = Owed]
       IN  job' = IF ids = {} THEN AfterScrub(night)
                  ELSE [night EXCEPT !.pc = "select", !.convs = ids]
    /\ UNCHANGED <<day, clients, terms, row, stored, flagged, alive, inb, era, faults>>

\* retentionOverrides, and the pass over everyone who has none.
ReadTerms ==
    /\ job.pc = "terms"
    /\ job' = [job EXCEPT !.pc = "select", !.scope = EveryoneElse, !.terms = terms,
                          !.left = {o \in Orgs : Overrode(terms[o], job.phase)}]
    /\ UNCHANGED <<day, clients, terms, row, stored, flagged, alive, inb, era, faults, ran>>

\* Mutant: the pass over everyone else forgets its exclusions.
ScopedToAll(m) == job.scope = EveryoneElse \/ Org(m) = job.scope
\* scoped: one client that overrode, or everyone but those.
Scoped(m) == IF job.scope = EveryoneElse THEN ~Overrode(job.terms[Org(m)], job.phase)
                                         ELSE Org(m) = job.scope
Cutoff == day - Term(IF job.scope = EveryoneElse THEN NoOverride ELSE job.terms[job.scope],
                     job.phase)
Chosen(m) == IF job.phase = "scrub" THEN ConvOf[m] \in job.convs
                                    ELSE Scoped(m) /\ row[m].at < Cutoff

\* On to the next client that overrode, the next phase, or the end.
NextPasses ==
    IF job.left # {}
    THEN {[job EXCEPT !.pc = "select", !.scope = o, !.left = @ \ {o}, !.keys = {},
                      !.there = {}] : o \in job.left}
    ELSE IF job.phase = "media"
    THEN {[job EXCEPT !.pc = "terms", !.phase = "rows", !.keys = {}, !.there = {}]}
    ELSE {[NoJob EXCEPT !.pc = "ping", !.owed = job.owed]}

\* Mutant: the sweep goes on with no keys.
GoesOn(keys) == FALSE
\* Mutant: a scrub that finds no keys returns, and leaves the text.
StopsForKeys(keys) == keys = {}
\* dropMedia stops here when there are none; the other phases go on to their rows.
NothingToDrop(keys) == keys = {} /\ job.phase = "media"
\* Mutant: the lookup is cut at its first page.
FirstPage == LET named == {m \in Rows : Chosen(m) /\ row[m].key}
             IN  IF named = {} THEN {} ELSE {CHOOSE m \in named : TRUE}
\* The keys that the rows name.
KeysToDrop == {m \in Rows : Chosen(m) /\ row[m].key}
SelectKeys ==
    /\ job.pc = "select"
    /\ LET keys == KeysToDrop
       IN  IF NothingToDrop(keys) THEN job' \in NextPasses
           ELSE job' = [job EXCEPT !.pc = "remove", !.keys = keys, !.there = Rows]
    /\ UNCHANGED <<day, clients, terms, row, stored, flagged, alive, inb, era, faults, ran>>

\* removeMedia, which looks at no answer: a refusal is taken for a success.
RemoveObjects ==
    /\ job.pc = "remove"
    /\ \E refused \in SUBSET job.keys :
         /\ IF refused = {} THEN NoFault ELSE Fault("refused")
         /\ stored' = stored \ (job.keys \ refused)
         /\ job' = [job EXCEPT !.pc = "write", !.refused = refused]
    /\ UNCHANGED <<day, clients, terms, row, flagged, alive, inb, era, ran>>

Written(m) == CASE job.phase = "scrub" -> [row[m] EXCEPT !.body = FALSE, !.key = FALSE]
                [] job.phase = "media" -> [row[m] EXCEPT !.key = FALSE]
                [] job.phase = "rows"  -> NoRow
\* The update or the delete, over the rows that answer to the filter by now.  A
\* row that came in since the select loses the key of an object that stays.
WriteRows ==
    /\ job.pc = "write"
    /\ LET hit == {m \in Rows : Chosen(m)}
       IN  row' = [m \in Msgs |-> IF m \in hit THEN Written(m) ELSE row[m]]
    /\ IF job.phase = "scrub" THEN job' = AfterScrub(job) ELSE job' \in NextPasses
    /\ UNCHANGED <<day, clients, terms, stored, flagged, alive, inb, era, faults, ran>>

\* The dead-man's switch hears of a success, and never throws.
Ping ==
    /\ job.pc = "ping" /\ job' = NoJob
    /\ UNCHANGED <<day, clients, terms, row, stored, flagged, alive, inb, era, faults, ran>>

\* Any call may throw; one that took effect and then threw is one that throws
\* at the next call.  The job is over: it reports, and is not tried again
\* before the next night.
JobFails ==
    /\ job.pc \notin {"idle", "ping"} /\ Fault("fail")
    /\ job' = NoJob
    /\ UNCHANGED <<day, clients, terms, row, stored, flagged, alive, inb, era, ran>>

-----------------------------------------------------------------------------
(* erase() of the conversation's object: rows first, then the objects, by  *)
(* their prefix.                                                           *)

EraTo(c, pc) == era' = [era EXCEPT ![c].pc = pc]

StartErasure(c) ==
    /\ era[c].pc = "idle" /\ alive[c]
    /\ era' = [era EXCEPT ![c].pc = "rows", ![c].keep = (flagged[c] # Never)]
    /\ UNCHANGED <<day, clients, terms, row, stored, flagged, alive, inb, job, faults, ran>>

\* A flagged conversation keeps its rows without their content.
EraseMessages(c) ==
    /\ era[c].pc = "rows" /\ EraTo(c, IF era[c].keep THEN "list" ELSE "row")
    /\ row' = [m \in Msgs |-> IF ConvOf[m] # c \/ m \notin Rows THEN row[m]
                              ELSE IF era[c].keep
                                   THEN [row[m] EXCEPT !.body = FALSE, !.key = FALSE]
                                   ELSE NoRow]
    /\ UNCHANGED <<day, clients, terms, stored, flagged, alive, inb, job, faults, ran>>
\* The delete of conversations, with all that hangs on them by now.
Cascade(cs) ==
    /\ alive' = [c \in Convs |-> alive[c] /\ c \notin cs]
    /\ flagged' = [c \in Convs |-> IF c \in cs THEN Never ELSE flagged[c]]
    /\ row' = [m \in Msgs |-> IF ConvOf[m] \in cs THEN NoRow ELSE row[m]]
EraseConversation(c) ==
    /\ era[c].pc = "row" /\ EraTo(c, "list") /\ Cascade({c})
    /\ UNCHANGED <<day, clients, terms, stored, inb, job, faults, ran>>

\* listMedia of the conversation's prefix.
Under(c) == {m \in stored : ConvOf[m] = c}
\* It returns what it has when a page is refused.
ListMedia(c) ==
    /\ era[c].pc = "list"
    /\ \E found \in SUBSET Under(c) :
         /\ IF found = Under(c) THEN NoFault ELSE Fault("partial")
         /\ era' = [era EXCEPT ![c].pc = "remove", ![c].keys = found]
    /\ UNCHANGED <<day, clients, terms, row, stored, flagged, alive, inb, job, ran>>
EraseObjects(c) ==
    /\ era[c].pc = "remove"
    /\ \E refused \in SUBSET era[c].keys :
         /\ IF refused = {} THEN NoFault ELSE Fault("refused")
         /\ stored' = stored \ (era[c].keys \ refused)
    /\ era' = [era EXCEPT ![c] = NoErasure]
    /\ UNCHANGED <<day, clients, terms, row, flagged, alive, inb, job, ran>>
\* A throw leaves the rest undone; once the rows have gone, the objects are
\* nobody's.
ErasureFails(c) ==
    /\ era[c].pc # "idle" /\ Fault("fail")
    /\ era' = [era EXCEPT ![c] = NoErasure]
    /\ UNCHANGED <<day, clients, terms, row, stored, flagged, alive, inb, job, ran>>

-----------------------------------------------------------------------------
(* The admin, and two deletes that reach no object.                        *)

\* demo_reset, in one transaction: what walk-ins have written.
DemoReset ==
    /\ \E c \in WalkIns : alive[c]
    /\ Cascade(WalkIns)
    /\ UNCHANGED <<day, clients, terms, stored, inb, job, era, faults, ran>>

\* The job that runs no longer answers for a client whose terms change.
Without(o) ==
    LET others(ms) == {m \in ms : Org(m) # o}
    IN  IF job.pc = "idle" THEN job
        ELSE [job EXCEPT !.steady = @ \ {o}, !.owed = [scrub |-> @.scrub, media |-> others(@.media),
                                                       rows |-> others(@.rows)]]
\* PATCH /api/admin/controls.
SetTerms(o, t) ==
    /\ o \in clients /\ t # terms[o] /\ terms' = [terms EXCEPT ![o] = t]
    /\ job' = Without(o)
    /\ UNCHANGED <<day, clients, row, stored, flagged, alive, inb, era, faults, ran>>

\* DELETE /api/admin/orgs, once the client's data have been exported: listMedia
\* of the client's own prefix finds the folders of its conversations and none of
\* the objects in them, and the cascade takes the rows.
Offboard(o) ==
    /\ o \in clients /\ clients' = clients \ {o}
    /\ Cascade({c \in Convs : OrgOf[c] = o})
    /\ terms' = [terms EXCEPT ![o] = NoOverride] /\ job' = Without(o)
    /\ UNCHANGED <<day, stored, inb, era, faults, ran>>

-----------------------------------------------------------------------------

\* The trigger fires every night (a miss is a job that fails at once), and a job,
\* an inbound message and an erasure are over before the day is.
Tick == /\ day < MaxDay /\ day' = day + 1
        /\ ran = day /\ job.pc = "idle"
        /\ \A m \in Msgs : inb[m].pc # "insert"
        /\ \A c \in Convs : era[c].pc = "idle"
        /\ UNCHANGED <<clients, terms, row, stored, flagged, alive, inb, job, era, faults, ran>>
JobStep == \/ ReadTerms \/ SelectKeys \/ RemoveObjects \/ WriteRows  \/ Ping
EraseStep(c) == \/ EraseMessages(c) \/ EraseConversation(c)
                \/ ListMedia(c) \/ EraseObjects(c)
Next == \/ \E m \in Msgs : Arrive(m) \/ InsertMessage(m)
        \/ \E c \in Touchy : Flag(c) \/ StartErasure(c) \/ EraseStep(c) \/ ErasureFails(c)
        \/ StartJob \/ JobStep \/ JobFails
        \/ Tick
        \/ \E o \in Changing, t \in Overrides : SetTerms(o, t)
        \/ DemoReset \/ \E o \in Leaving : Offboard(o)

Spec == Init /\ [][Next]_vars
\* The cron triggers fire every night, and what has begun goes on.
HandlerStep == (\E m \in Msgs : InsertMessage(m)) \/ (\E c \in Convs : EraseStep(c))
LiveSpec == Spec /\ SF_vars(Tick) /\ WF_vars(StartJob) /\ WF_vars(JobStep) /\ WF_vars(HandlerStep)

-----------------------------------------------------------------------------
(* Properties.                                                             *)

\* A key goes after its object, in each of the job's phases and wherever it
\* breaks off, so that what is still in the bucket is still found by its row.  A
\* row forgets an object that is there only for a row that came in after the
\* job had read its keys, for one whose delete the bucket refused, which the job
\* does not notice, and with the rows of an erasure, whose objects are next, or
\* of a reset or an offboarding, which forget the objects for good.
KeyGoesLast ==
    \A m \in stored : row[m].key /\ ~row'[m].key =>
        \/ job.pc = "write" /\ (m \notin job.there \/ m \in job.refused)
        \/ era[ConvOf[m]].pc # "idle" \/ ~alive'[ConvOf[m]]
NothingForgotten == [][KeyGoesLast]_vars

\* A client keeps what it asked to keep: a row, its text or its picture goes
\* only by its own term as it stood when the job began, by a flag of more than
\* a day, by an erasure, or with its conversation in a reset or an offboarding.
GoesInTime ==
    \A m \in Rows : Org(m) \in job.steady =>
         /\ row'[m] # row[m] => \/ FlaggedBefore(ConvOf[m], day - 1)
                                \/ era[ConvOf[m]].pc # "idle" \/ ~alive'[ConvOf[m]]
                                \/ Overdue(m, "media") /\ row'[m].body = row[m].body
                                \/ Overdue(m, "rows")
         /\ m \in stored \ stored' => \/ FlaggedBefore(ConvOf[m], day - 1)
                                      \/ era[ConvOf[m]].pc # "idle"
                                      \/ Overdue(m, "media") \/ Overdue(m, "rows")
NothingGoesEarly == [][GoesInTime]_vars

\* A job that pings success has dropped everything that was due when it began.
SuccessIsDone ==
    job.pc = "ping" =>
              /\ \A m \in job.owed.scrub : ~row[m].body /\ ~row[m].key
              /\ \A m \in job.owed.media : ~row[m].key
              /\ job.owed.rows \cap Rows = {}

\* What a flagged conversation holds is scrubbed in the end, though a night's job
\* fails.  Two nights must be left before MaxDay, the bound.
FlaggedIsScrubbed ==
    \A m \in Msgs :
        (row[m].body /\ flagged[ConvOf[m]] \in 0..(MaxDay - 3) /\ day <= MaxDay - 2)
           ~> (~row[m].body \/ flagged[ConvOf[m]] = Never)
=============================================================================
