# A formal model of wa-agent-platform

TLA+ modules for the parts of the WhatsApp agent platform whose behaviour is hard
to test: the Durable Object of a conversation, the decision of what to reply, the
appointment diary, the webhook, retention, the operator panel, and the screens that
act on what they loaded a while ago. TLC checks them on small instances; TLAPS proves
every safety property of the passing runs for every instance (two under a condition
that the theorem names), and that the conversation implements an abstract ledger of its
replies.

## 1. Inventory

| Part | State it keeps | Operations | What is hard about it |
| --- | --- | --- | --- |
| `ConversationDO` (`workers/api/src/do/conversation.ts`) | SQLite: `seen`, `pending`, `replies`, `handoff`, two deadlines, the cached identity; one alarm | `onInbound`, `alarm`, `attach`, `takeOver`, `release`, `sendHuman`, `touchHuman`, `requestHandoff`, `erase` | handlers interleave at every fetch; a call may take effect and report failure; the object may be evicted; one alarm slot serves two deadlines |
| Reply decision (`packages/shared/src/reply.ts`, `window.ts`, `llm.ts`) | none of its own; reads `organizations` and `usage_events` | `decideReply`, `holdFor`, `isWithinHours`, `complete`, `#classifyImages` | controls that change under a running turn; a meter shared by every conversation; a normative order of checks; failures that must not silence anybody |
| Diary (`supabase/migrations/0029`-`0044`, `dashboard/src/Diary.tsx`) | `business_hours`, `appointments` with a partial unique index on the start | `free_slots`, `book_appointment`, `book_manual`, `reschedule_appointment`, `block_time`, status buttons, saving the week | functions interleave statement by statement; screens act by id on what they loaded long ago; the index compares starts, not spans |
| API routes (`workers/api/src/api.ts`) | none | takeover, release, send, erase, pause, export | look up, attach and call are three separate events |
| Webhook (`webhook.ts`, `accounts.ts`), keys (`crypto.ts`, `scripts/rotate-key.ts`) | the limiter's window; key versions in rows and in the Worker | verify, rate-limit, dispatch, persist statuses; put, move, prove, delete a key | Meta posts again what is refused and nothing that was taken; a rotation under live requests |
| Cron (`cron.ts`, `monitor.ts`) and storage (`packages/shared/src/storage.ts`) | objects in a bucket, rows that name them, terms per client | scrub, purge, drop media | two stores, no transaction; arrivals, flags, erasures and new terms under the job |
| Operator panel (`admin.ts`) | clients, logins, members, documents, flags | onboard, invite, demote, remove, grant, export, offboard, upload, resolve | check-then-act over several calls; undo in another system |
| Traffic light (`admin.ts`, `dashboard/src/lib/health.ts`, `Admin.tsx`) | none | ask Meta about a number, judge a client | a refusal, a silence and a partial answer mean different things |
| Desk and thread (`Desk.tsx`, `Thread.tsx`) | React state, Realtime | load, open, act, guess, erase | one mounted thread for every customer; answers that overtake each other |
| Training console (`Console.tsx`, `DemoReset.tsx`) | React state | pick a client, ask, save its tone, documents and hours, reset the demo, load a setup into it | what is under way for one client is answered on the screen of the next |
| Auth | none | JWT and MFA check, `denyAdmin` | - |

How they meet: the webhook calls `onInbound` of the object named after
(client, account, customer). The object writes Postgres, asks `decideReply`, books
through `book_appointment`, and sends to Meta. The dashboard reads Postgres directly
(rows and Realtime), writes the diary directly, and reaches the object through the
Worker's routes. Cron and the demo reset change Postgres underneath the object.

What makes each part correct, in one line each:

* Conversation: one answer per burst whatever is retried; nothing accepted is left in
  silence; a person who takes over is not talked over, and is not for ever; what is
  confirmed and billed really happened.
* Reply decision: safety outranks everything; pause, hours and cap mean what they say;
  every turn ends in a verdict.
* Diary: nobody is booked on top of anybody; what a customer was promised stays on
  record; what the assistant booked stays in the screen's count until a person cancels it.
* Intake: what Meta posts is taken in the end, and what was taken reaches its
  conversation or somebody's error log; a secret can always be opened.
* Retention: the job takes no key before its object; nothing goes before its term; what
  is flagged is scrubbed in the end.
* Panel: nobody can sign in to nothing; nobody loses the panel by her own hand; no
  client is deleted before it was exported. Light: what could be read shows.
* Desk: at rest it leaves out nobody who waits; an erasure is of the customer both clicks
  were for.
* Console: the list of documents settles on what is stored, at most one answer is out of
  place, a document only ever holds what was written for its client, and what is on
  screen as spent is metered.

## 2. Modules

| Module | Role |
| --- | --- |
| `ReplyLedger` | abstract: what a conversation promises of its replies |
| `Conversation` | the object, its row in Postgres, Meta, the dashboard's calls, faults; `Ledger` is the refinement mapping |
| `ConversationProofs` | its types, the sends, the timers, the flags, and that it implements `ReplyLedger` |
| `ReplyDecision` | the decision, several conversations of one client |
| `ReplyDecisionProofs` | its invariants |
| `Diary` | the appointment book and its screens |
| `DiaryProofs` | its invariants; which saved weeks keep bookings apart |
| `Intake` | a post, from Meta to the objects; the keys that open it |
| `IntakeProofs` | its invariants |
| `Retention` | attachments, the rows that name them, the nightly job, erasure |
| `RetentionProofs` | its invariants, and its two action properties |
| `Panel` | the admins' requests, await by await |
| `ClientHealth` | the traffic light, as functions |
| `PanelProofs` | the invariants of `Panel`, its action property, and the traffic light for any set of numbers |
| `Desk` | one dashboard: the desk and the thread beside it |
| `DeskProofs` | its invariants and its action property |
| `Console` | one training console and the routes behind it |
| `ConsoleProofs` | its invariants |
| `MC...` | values for TLC |

The modules share Postgres and are kept apart by what each leaves to its environment:
`Intake` hands messages to objects and `Conversation` takes them in any order and again;
`Conversation` takes a verdict as given and `ReplyDecision` reaches it; the bookings
`Conversation` confirms are rows of `Diary`; `Retention` has arrivals, flags and erasures
as `Conversation` makes them, with the attachments; `Desk` lets conversations move at
will; the week editor of the console is left out, its two writes are `Diary`'s.

### Conversation

Handlers are program counters. A Durable Object takes no event while storage is being
read or written, but does while a handler awaits a `fetch`; so a step of the model runs
from the answer of one fetch to the issue of the next. Program counters in `AlComputing`
and `ApiComputing` stand for straight-line code: nothing else may move meanwhile.

| Variable | Code |
| --- | --- |
| `seen`, `pending`, `replies` | the tables of the constructor (`seen` is a window of `SeenLimit`) |
| `handoff`, `debounceAt`, `returnAt`, `ids`, `convId` | rows of the `kv` table; deadlines are `none`, `wait` or `due` |
| `alarm` | the storage alarm; `retry` is the runtime's redelivery after a throw |
| `row`, `made`, `rowHandoff`, `stored`, `dedupe`, `flags`, `bills`, `booked` | Postgres; `row` is the id of the conversation row, 0 when there is none |
| `out` | what Meta accepted from the bot, under the message it answers |
| `inb`, `al`, `api` | the handlers in flight: one per message, the alarm, one per dashboard session |
| `anchorOf`, `faults` | history: the burst in which the bot took a message up; the faults so far |

A call answers `ok`, `fail` (no effect) or `lost` (effect, but an error for the code).
`Crash` evicts the object: what awaits dies, storage stays, an unfinished alarm comes
again. `DemoReset` deletes the row under the object. Reads whose failure only throws
before any write are folded into the call they precede. Awaits that change nothing and
after which the code reads nothing it had read before are one await: the model of the
read receipt, of token decryption and of the account lookup keep only their outcomes.

### ReplyDecision

Each conversation runs one turn at a time; each await of `decideReply` is a step.
`read`, `metered`, `asked` and `clean` record what the turn has learnt. `spend` is the
month's meter, `replies` the part of it that was spent by turns that had read the meter,
`late` the replies sent since the pause was last set by turns that had read the
controls. `Act` stands for everything `Conversation` does with a verdict; the missing
identity (`no_context`) is a case of `Conversation`, not of this module.

### Diary

A Postgres function runs at READ COMMITTED: `calls` holds the function an actor is in, and
each statement that reads is a step; the writes come at its commit, in the last one. `shown`
is, per row, every status some screen may still show; the buttons act on any of them.
`offered` is the list the assistant put before the customer, `listed` every instant a form
has shown. The rows are never removed from the sequence: a deleted block becomes `deleted`.
`DeleteConversation` is the erasure of a conversation that was never flagged: the foreign
key leaves its bookings to nobody (0041), and refuses the insert of a call that began
before. `dropped` and `closed` are history: the last button pressed on the row was Cancel;
the row this one was moved from. The client is not the demo, whose diary is rebuilt whole,
nor one that is offboarded. One day stands for the week, because windows belong to a weekday
and no slot crosses midnight. `free_slots`' limit counts instants here, which is what it
counts in SQL unless two windows of the day share an instant.

### ReplyLedger

Three sets of facts, by the message a reply answers: claimed (the `replies` table), sent
(what Meta accepted), charged (`usage_events` of replies). A reply is claimed, then sent,
then charged, each at most once; a claim and a send are never taken back. `Forget` is the
erasure or the demo reset, which take the charges with them. `Conversation!Ledger`
maps `replies`, the length of `out` and `bills` to them; every other step is a stutter.

### Intake

A request reads the account (with the one retry of `accounts.ts`), opens its app secret
with the keys its own isolate has (`env`), passes the limiter, is answered, and leaves a
`job` behind the 200. `row` is the key version an account's secrets are sealed under,
`keys` the versions the Worker has; the rotation is put, move row by row, prove, delete.
`late` and `told` are history: an onboarding that read its version before the new key
was put, and a failure that reached Sentry.

### Retention

Days are whole; a message is today's or, late, yesterday's. `row` is a message's row,
`stored` the bucket. The job is a program counter with a phase (scrub, media, rows), a
scope (one client that overrode, or everyone else) and the terms it read when the phase
began. `owed` and `steady` are history: what was due when the job began, and whose terms
have stood since; `there` and `refused` are the rows that were there when a pass read its
keys, and the keys whose delete the bucket refused. `DemoReset` and `Offboard` delete rows
and reach no object: demo_reset does not look at the bucket (0028:251-253), and offboarding
lists the client's own prefix, under which there are folders and no objects
(admin.ts:928-929). The export that offboarding asks for is `Panel`'s.

The job's select of media keys has no pages in the code (cron.ts:153, 285-287). The model
takes all of a pass to fit one page of PostgREST; were the server to cut it (Supabase does
at a thousand rows, by default), the update would clear keys that were never read, and
their objects would stay.

### Panel

Each admin has one request under way. A handler stops at every await; a call works, fails
before its effect, or fails after it where the code can tell the difference. `strayed` are
logins and clients that a failure left half made, `revoked` the admins another has revoked,
`logged` the audit row that offboarding looks for. Not here: the controls (`Retention`,
`ReplyDecision`, `Console`), the hours (`Diary`), what offboarding leaves in the bucket
(`Retention`), template, reset link, test message and the audit screen, each a single read
or write.

### ClientHealth

Pure functions: `graph`, the four status reads, `health`, and the `load` and `openRow` of
the screen, over every world of a number (facts times the ways Meta may answer) and every
row of our own data. No run evaluates them: `PanelProofs` has two theorems about them, one
of what the light tells and one of what it does not.

### Desk

Who waits is `desk_queue` down to rank 2: a conversation with an unresolved safety flag, or
one that asked for a person or is in a person's hands. A flag is raised by the alarm, which
asks for a person after it (`Raise`, `HandOff`; `raising` is in between), and resolved in the
panel (`Resolve`), which is no event of the conversation. Conversations may be deleted, by
the open dashboard or another; `Gone` is a row that is not there.

`loads` are reads of the desk under way, each with what it saw; either half of one may
fail, and then brings nothing and raises `loadError`. A read brings those who wait and any of
the others, which stands for the latest fifty; `jump` is the row that a search fetches by
itself. `timer` is the debounce. The thread is on screen while its row is on the desk;
`optimistic`, `confirm` and `call` are its state, which survives a switch unless an effect
resets it. An act takes effect, or does not, and is answered as done or as failed in any
combination the routes allow (`Effect`, `Perform`): an erasure that took effect and whose audit
failed is answered as failed, an act on what has gone is refused.

History: `lost`, whose event Realtime lost, and `silent`, who stopped waiting by a resolved
flag or a deleted row, both until the next read; `overtaken`, an older read was applied after
a newer one; `armedFor`, whose Erase was clicked. The event of a delete is not
relied upon: the model lets it come or not.

Left out: what the thread shows of its customer (older pages, an export, a draft), callbacks
(rank 3) and leads, the queue's own limit, and the day's numbers.

### Console

A text is told apart by the client it was written for and, for the demo, by how often it had
been rewritten (`era`). `Rewrite` is what `demo_reset` and `demo_setup_load` do in Postgres:
the tone and every document are replaced, the defaults or the saved ones are put back, and a
reset deletes the demo's usage rows (`erased` remembers them). Its answer may be lost:
`untold` says that the demo on screen was rewritten and the transcript has not been cleared
since.

`run`, `voiceCall` and `kbCall` are the requests under way. The list a panel asks for when it
is given its client (`load`) is answered to nobody after a switch; the list asked for after
a save (`reload`) is not cancelled, and is shown under whichever client is picked by then.
`kb.stale` is history: the list on screen is not the stored one, because it came for a
client that was left, was read before a write that overtook it, or was followed by a write
whose list never came. A document that is deleted stays `Deleted`: Postgres gives an
identifier once, so a form that was opened on it can never come to hold another client's.

`Decide` is the route up to the answer of `complete`, which may ask the model twice: a call
that was paid for and answered too late, or not as JSON, is not reported, and where both
fail nothing is (llm.ts:126-132, reply.ts:240-246). `paid` counts what was spent, `billed`
the usage rows written. The reads of the route are one step.

Left out: the week editor (`HoursEditor`), whose form keeps the previous client's week while
the next is read, see section 6; the saving and deleting of setups. One rewrite and one save
are under way at a time.

## 3. Runs

| Run | Expects | Shows |
| --- | --- | --- |
| `ConversationFaults` | pass | at most one reply, true confirmations, earned bills, with one fault anywhere and a message redelivered after the `seen` window has forgotten it |
| `ConversationErase` | pass | across an erasure or a demo reset and a new row, the object keeps the ledger; the lock and its timer agree; a deadline always has its alarm |
| `ConversationLive` | pass | without faults: no accepted message left in silence, flagged turns logged, stale takeovers end |
| `ConversationTakeover` | violation | a reply already being decided is sent after a person took over |
| `DiaryRace` | pass | no two live spans overlap, promises stay on record though their conversation is deleted, and a booking leaves the count only by a Cancel |
| `ReplyDecision` | pass | order of the checks, one late reply per pause, bounded overshoot of the cap, hours across midnight, a verdict for every turn |
| `Intake` | pass | a post is taken in the end, and one failure is never silent; every account's secrets stay readable through a rotation |
| `Retention` | pass | no key goes before its object, nothing goes early, success means done, what is flagged is scrubbed in the end |
| `Panel` | pass | nothing half made but by an unrepaired failure, no admin locks herself out, the document limit is overrun only by uploads under way, export before delete |
| `Desk` | pass | at rest the desk leaves out nobody who waits, flagged or asked for; erasure is of the confirmed customer |
| `Console` | pass | at most one stray answer, the list settles, documents stay with their client, what is shown as spent is metered and what is not is bounded |
| `ConsoleTone` | violation | saving a form that was never filled nulls the client's tone |

The violation runs are disagreements between the code and what it says of itself;
PROJECT.json quotes the line each contradicts under `findings`.

`TypeOK` is among the invariants of four runs. Those of `Diary`, `Panel`, `Desk` and
`Console` are left to their proofs, which need them; TLC finds no violation of them in
the same configurations.

### Bounds, and why they are enough

* Two messages make a burst, and the smallest one in which arrival order and Meta's
  timestamps differ. `SeenLimit` is 1 where redelivery matters, so that the second
  message pushes the first out of the window, as the 201st does in the code; it is 200
  where it must not matter.
* `MaxFaults` is 1: each property is about what one lost answer or eviction leaves
  behind, at any of the points where it can happen. The theorems below have no bound.
* `MaxRows` is 2 for erasure and demo reset, which is what it takes for a handler to
  hold the id of a row that has been replaced.
* One dashboard session in the runs: sessions only meet in the object, one event at a
  time, and the theorems cover any number.
* Diary: a day of seven half-hours with a morning whose closing is no multiple of the
  slot and an afternoon that starts at it. Three rows are enough for a booking, its move,
  and a rival for either slot. `Clock` has one instant before and one inside the day.
  `DiaryRace` saves only weeks made of the windows the day already has: with another
  grid (`Resaved <- OneWeek` of `MCDiary`) `NoOverlap` fails, see section 6. One conversation
  and one session suffice for a booking, its rival and a deletion under both; the theorems
  have any number.
* ReplyDecision: a day of three minutes, open across midnight, with an offset from UTC;
  a cap of two calls, so that both conversations can be under way when it is reached.
* Intake: the post of three messages has one for another number in the middle, so that
  the work goes on past it; the limiter holds one, so that the second post of a window is
  over it; two failures, because a failure and the failure of its report are two.
* Retention: four days leave two nights after a flag's first eligible one, which is what
  a night that fails needs to be made good. Default terms of zero and two days against
  overrides of one and three make each phase select one client and not the other. The
  picture of the first day and one that arrives are enough for a row that comes between
  the select and the update. Only one conversation is flagged or erased, and only the
  other client changes its terms: both at once on one client is excused by the properties.
  The client whose conversation is touched is the one that is reset and offboarded.
* Panel: two admins, because every race here is of two requests; three requests, so that
  a third finds what two have left; one failure.
* Desk: two reads under way suffice for one to overtake the other; four moves and clicks
  reach a switch between the two clicks of an erasure, and a flag, a takeover and a
  deletion of one conversation; reads, answers and events are not counted among them.
* Console: a limit of one document and a history of one exchange are reached in two
  clicks; five allow ask, switch, ask, switch and one more, or a reset under any of them. One
  rewrite tells the texts before from those after. Three documents are one to begin with and
  two to be made. The documents are
  interchangeable (`SYMMETRY`); the clients are not, as one is the demo.

### Fairness

`ConversationLive`: weak fairness for the handlers in flight (the runtime runs what it
has taken) and for the deadlines (time passes); strong fairness for `AlarmFires`, because
other events may keep the object busy for a while but the runtime delivers a due alarm in
the end. No fairness for customers, for staff, or for faults.

`Intake`: Meta goes on posting what was not taken, a request and the work behind it run to
their end, and the limiter's window passes. Nobody is bound to onboard or to rotate.

`Retention`: the cron triggers fire every night (`StartJob`), what has begun goes on
(`JobStep`, `HandlerStep`), and days pass: strongly, because an arrival or an erasure may
hold the day open again and again.

## 4. Proofs

For any set of messages and staff, any classes, any `SeenLimit`, `MaxRows`, `Faults` and
`MaxFaults`, from the named assumptions of `Conversation`:

* `TypeCorrectness`: `Spec => []TypeOK`. `TypeOK` is not inductive: a step out of
  `meta` needs to know that the turn has a message and a kind that can be sent, a step
  that makes a row needs room for it, and a call of the dashboard needs to know which
  row it looked up. `TypeInv` adds these (`TurnIsKnown`, `CallIsKnown`, `RowCanBeMade`).
* `ReplyOnce`, `ConfirmationIsTrue`, `BillIsEarned`: the three properties of the sends,
  proved together as `SendInv`. Whoever stands between the claim and the send holds the
  claim for its message and nothing has gone out for it (`ClaimedFirst`); a turn that
  is about to send a confirmation has booked (`BookedFirst`); a turn that is about to
  bill has sent exactly that reply and has not billed (`SentFirst`). Only the alarm's
  steps touch any of this; `SendOthers` disposes of the rest.
* `HoldIsTimed`, `DeadlineHasAlarm`: the lock, the timer and the alarm, as `TimerInv`.
* `LedgerIsKept`: `Spec => Ledger!Spec`. The mapping needs no
  invariant of its own: `SendInv` says who stands under a claim, so that each step of the
  alarm is a claim, a send, a charge or a stutter; erasure and reset forget; nobody else
  touches `replies`, `out` or `bills`.
* `FlaggedTurnsAreLogged`, under `Faults \subseteq {"account"}` and `"erase" \notin Ops`: an
  object that meets no failed call, no eviction and no erasure, as in `ConversationLive`
  (a missing account is not a fault of a call but a branch of the code, and the theorem
  keeps it). Without the condition the property is false, and the code does not
  claim it. `Rowed` says that every handler holds the row that is there, since nothing
  deletes it; `FlagOwed` that a flagged burst the bot took up either has its row in
  `safety_flags` or is in a turn that still passes through the insert.

For any conversations, day, offset, hours, cap, prices and `MaxTurns`, and whichever
calls fail, from the named assumptions of `ReplyDecision`:

* `TypeCorrectness`: `Spec => []TypeOK`, inductive as it stands.
* `WordsAreClean`, `PrefilterWins`, `EveryTurnIsSettled`: a verdict does not say how it
  was reached, so `TurnInv` gives each program counter what has been established by
  then (`InOrder`): before the verdict nothing has fired, past the media stage nothing
  is attached, from the verdict on there is one.
* `PauseStops`: by `Stopped`, also in `TurnInv`. A conversation that has sent a reply since
  the pause is in no turn that could send another: it ends that one, and every later turn
  that reads the controls is held by them.
* `HoursHold`: `ReadInTime` relates what a turn did to the minute at which it read the
  controls; the lemma `HoursAgree` shows that the code's comparison of three numbers
  modulo the day is membership in the minutes from opening to closing, for every
  opening and closing. Equal hours are never open, in both.
* `CapHolds`: `MeterInv` says that the replies of the month pass the cap by less than one
  reply of each conversation that is not `UnderWay`. Reading the meter below the cap
  makes a conversation one of those under way and restores the bound outright; billing
  takes it out again and adds at most one reply.

For any customers, staff, day and weeks that may be saved, from the assumptions of `Diary`:

* `DiaryTypes`: a call that is about to write knows what, and a move names a row that is
  there (`CallIsKnown`).
* `NobodyOnTop`, under `SlotsAreSpaced`: a slot that any of the weeks may give ends by the
  next instant at which any of them has one. `Unique` is the partial index (and is
  `HeldOnce`, a theorem without condition); `SlotInv` says that every instant that
  was ever offered, listed, asked for or booked starts a slot of some week, and that every
  row is as long as a window on whose grid it lies. Two live rows then start at different
  starts of slots, so that the earlier is over when the later begins. `ApartIsSpaced` and
  `AlignedIsSpaced` give the weeks that qualify: windows that coincide or lie apart (those
  of `DiaryRace`), or one slot length on one grid. The weeks of `OneWeek` do not, and there
  the overlap is real; the code has no check that tells them apart.
* `PromisesStay`, `BookingsStayCounted`: `RecordInv`. A row that a move cancels is closed by
  the row the move adds, in the same step, and no later step changes which row closed which.
  `BookingsAreNeverRewritten` is the action property behind both: a step adds rows or sets
  statuses, and touches neither time, length nor origin, nor the party but for a
  conversation that is deleted, whose rows become nobody's.

For any accounts, payloads, limit and failures, from the assumptions of `Intake`:

* `IntakeTypes`, `RowsStayReadable`: `KeysFollow` ties the keys that the Worker has to the
  step of the rotation; `SealedInTime` says that an onboarding not yet written seals with
  the newest key, unless the rotation overtook it (`late`). `DeleteKey` looks only at the rows
  that are there; what it could strand is an onboarding under way, which is what
  `SealedInTime` is for.
* `OneFailureTells`: `WalkedInOrder` follows a job through its messages: all before the
  present one are handed over, a report has cost one failure, and a job that is done and
  told nobody has handed over everything or cost two. It speaks of posts without receipts,
  as the property does: one with receipts is taken for its receipts.

For any clients, conversations, terms, days and faults, from the assumptions of `Retention`:

* `RetentionTypes`, `NothingIsForgotten`, `NothingIsDroppedEarly`, by `SafeInv`: `Fresh`
  (what is not inserted, or whose conversation has gone, has no row), `Erasing` (an erasure
  holds objects of its own conversation), `Sweeping` (what a pass has read still answers to
  its filter and is all that did, and the objects go before the rows but for those refused),
  `GoesByTerms` (the terms read at the start of a phase are still those of a client that has
  kept its own).
* `JobsFinishTheirWork`: `NotPassedOver` says that whatever was due when the job began is in
  this pass, in one that is left, or in a phase to come, so that nothing is left at the ping.

For any clients, users, admins, limit and failures, from the assumptions of `Panel`:

* `PanelTypes`: with `Known`, what a request is about by where it stands.
* `ClientsAreExportedFirst`: `Members` (admins are nobody's members, people are members of what
  is there), `Onboarding` (one per client, and the client as far as it has come) and
  `Offboarding` (past the check, the audit row is there or the client is not).
* `NobodyLocksHerselfOut`: who takes her own flag stands before the restore, and only there.
* `OverrunIsBounded`: `KbOverrun` counts documents; `Reserved` adds the uploads that are past
  their count, which an insert turns into documents one for one.
* `NobodyIsLeftHalfMade`: `Settled` names who is at work on a login or a client that is not
  whole: the request that made it, or one that will undo it. The hard steps are those
  where another admin deletes the client, or removes the member, between two awaits.
* `EveryNumberCounts`, of `ClientHealth`: for a client whose rows, wallet and numbers could
  all be read, with any set of numbers, a green that claims to be checked means that every
  number works and no row objects; a refusal is red, a silence is not.
* `NothingReadLooksChecked` is the other half: where the check failed as a whole, or there are
  no numbers, the light claims to be checked and shows the colour of our own rows, green
  if those could not be read. health.ts:15-16 says otherwise, see section 6.

For any conversations and bounds, from the assumptions of `Desk`:

* `DeskTypes`: what belongs to a thread does not outlive it.
* `NoErasureByMistake`: `Armed`, what is armed is armed for the thread that is open.
* `TheDeskSettles`: `Caught`. While no timer runs, the last read under way saw who waits, but
  for those whose event was lost or is to come and those who stopped waiting in silence
  since; and with none under way the queue is what the last read saw, or an older one was
  applied after it, or it failed.

For any clients, documents, limits and failures, from the assumptions of `Console`:

* `ConsoleTypes`: `TypeInv` adds whose each call is, and that a question is on its way only
  while there is room for its answer, which is why the transcript passes the limit by one
  exchange and no more.
* `NoMixedDocuments`: `OwnInv`. What a list holds of a document is still its client's, or the
  document was deleted; a save holds the text of its client, or its statement matches nothing.
* `CostsAreMetered`: `SpentInv` numbers the usage rows, so that each exchange with a cost, and
  the one about to be shown, has a row of its own, which only a reset deletes.
* `OneAnswerStrays`: `StrayInv` counts the answer that is going to be out of place with
  the one that is: both at once cannot be, as the pick or the reset at which a question
  strays has cleared the transcript, and no other question is sent while one is under
  way. It is the same argument for another client's transcript and, until a reset that
  nobody was told of, for another walk-in's.
* `TheListSettles`: `ListInv`. A list on its way that nothing overtook is the stored one; a
  list on screen that is neither stale nor the stored one has its successor on the way.

## 5. Only model-checked

Liveness (`NoSilence`, `StaleHandoffReturns`, `PostedIsTaken`, `FlaggedIsScrubbed`) is beyond
the prover and is TLC's alone. `QuietUnderHuman` and `ToneIsKept` are refuted by their
runs. Everything else that a run checks is a theorem above. That the fair specifications
`LiveSpec` have the safety properties too follows from `Spec` being one of their
conjuncts.

## 6. What the models show besides

Behaviours of the code that the models have and no standing run reports. Those marked TLC
were found as counterexamples of a property that was then weakened or set aside.

* Conversation. The alarm's retry finds nothing pending (conversation.ts:449, TLC), although
  :45 counts on it. The idle timer hands back a flagged conversation (:1011, TLC), although
  :601 speaks of no auto-resume. A returned conversation is `bot` again in the object while its
  row says `returned` (:266).
* ReplyDecision. The image classifier is called before the controls are read
  (conversation.ts:639, TLC), although 0015_runtime_controls.sql:12-13 has the object read them
  before every call. A usage row that fails after the classifier saw something passes
  over what it saw (:646, TLC).
* Diary. Hours saved on another grid let a new slot overlap an old booking (0029:76, TLC).
  `reschedule_appointment` selects without a lock, so two moves of one booking both insert
  (0044:155, TLC), and the assistant's count then has one row too many; a no-show that is moved
  is counted twice as well (Diary.tsx:434).
* Intake. A payload with statuses and messages is taken for its statuses (webhook.ts:43). A
  late receipt moves a status back, and one that comes before its row is lost (:128).
  An onboarding that read its key version before the rotation put the new key ends with
  an account whose secrets cannot be opened once the old key is deleted (TLC). Without
  `--key`, the script makes a new key under the same version.
* Retention. Objects that no row names any more, with no fault at all: those of a client that
  is offboarded, since `listMedia` of its prefix finds direct children only, although
  admin.ts:925-927 wants media first so that none is orphaned; those of the demo's walk-ins
  after each reset (0028:251-253); and that of a late message whose key the sweep clears
  between select and update (cron.ts:153). With a fault: `removeMedia` looks at no answer
  (storage.ts:86), and `listMedia` returns what it has when a page is refused, which its
  comment (:99-100) says it must not. Beyond a page of PostgREST, see `Retention` in
  section 2.
* Panel. Two requests can remove the last two owners (admin.ts:587, TLC). The restore of a
  self-revocation can undo another admin's revocation. The undo of an invitation can
  delete an existing login that never accepted. Onboarding passes over errors of the
  `users` and `org_members` inserts, and offboarding over the answers of `deleteUser`. A
  document count that fails is a count of none. An export never goes stale.
* ClientHealth. A client with no numbers, or whose check failed as a whole
  (Admin.tsx:72), is green and not partial; so is one whose rollup or whose wallet could not
  be read, once its row is open. health.ts:15-16 says it must never call something green
  that it has not checked.
* Desk. The guess stays when a colleague hands back before the desk is read
  (Thread.tsx:106-107). A flag that is resolved leaves its conversation on the open desk until
  something moves. A read that fails empties its half of the desk, closes a
  thread that was open from it, and with it the confirmation and the answer of an act
  under way (Desk.tsx:139-144). Loads that answer out of order leave the desk stale until
  something moves (TLC). Not modelled: an older page asked for one customer is
  shown over the next (Thread.tsx:197-201), and so is an export, although :109-112 speaks
  against it.
* Console. An answer after a switch or the reset lands in the other client's transcript and
  fills its Voice form (Console.tsx:98-104, TLC). A reset, or a setup loaded, whose answer
  is lost leaves the last walk-in's transcript and documents on screen (DemoReset.tsx:72-78,
  :58-62, TLC), although Console.tsx:78-80 says why they must go. A reload after a save
  shows one client's documents under another (:539-584, TLC). Documents are safe from this
  because every statement names the client. Model calls that were paid for and not reported
  are not metered (llm.ts:126-132), although admin.ts:1158-1159 has every run write a usage
  row for the money it really spent. A transcript over the limit makes every question fail
  until it is cleared. Not modelled: the week editor keeps the previous client's days, and
  what was typed, until the next client's arrive, so that Save writes one client's week over
  the other's (Diary.tsx:1188-1203).

## 7. Not modelled, and the plan

Left out for good: regular expressions and prompts (inputs of the models), cryptography, JWT
verification, rendering, search and filters, read-only analytics, row-level security
policies, `usageCheck` and `sweepDedupe` (a count, a single delete), one-off scripts, and
generated types. The nightly roll of the demo's diary and the keeping of its setups are left
out, as is the export's own content. The debounce's milliseconds are not modelled:
`Conversation` knows a deadline that waits or is due.

What would say most next: the refinement of more abstract specifications, as `ReplyLedger`
is one of the conversation: the diary as a set of spans that are held and released, the
console and the desk as views of a remote state; action properties of what a step may
never do (a flag that goes without an erasure, a row that outlives its client); and
the two conditions above made weaker: `FlaggedIsLogged` with the failures
that leave it true, and `NoOverlap` for weeks that change while the old bookings are over.
