------------------------------- MODULE Diary -------------------------------
(***************************************************************************)
(* The appointment book of one client: business_hours, appointments and    *)
(* the functions that read and write them (supabase/migrations/0029 to     *)
(* 0044), the slots a ConversationDO offers and books, and the dashboard's *)
(* Diary screen, whose buttons act on what it last loaded.                 *)
(*                                                                         *)
(* A Postgres function runs at READ COMMITTED: each statement sees what is *)
(* committed when it starts, and what the function writes is seen at its   *)
(* commit.  So a function is a call that moves statement by statement, and *)
(* its writes are its last step.                                           *)
(*                                                                         *)
(* Abstracted: names and services, and all but one day: windows belong to  *)
(* a weekday and no slot of the grid crosses midnight.  The client is not  *)
(* the demo, whose diary is rebuilt whole (0045_demo_diary_source.sql),    *)
(* nor one that is offboarded.                                             *)
(***************************************************************************)
EXTENDS Integers, Sequences, FiniteSets

CONSTANTS
    Customers,  \* conversations with the assistant
    Staff,      \* dashboard sessions
    Week,       \* the windows the owner has set, as [opens, closes, len]
    Resaved,    \* the sets of windows that may be saved over them
    Lead,       \* free_slots.p_lead_minutes
    Limit,      \* SLOT_LIMIT
    Horizon,    \* bound: the last instant of the day
    Edges,      \* bound: where a block of time may begin and end
    Clock,      \* bound: the instants at which anything happens
    Outcomes,   \* attended, no_show, or one of them: the diary treats them alike
    MaxRows     \* bound: how many appointments may ever be made

Nobody == "nobody"
Instants == 0..Horizon
Windows == {w \in [opens : Instants, closes : Instants, len : 1..Horizon] : w.opens < w.closes}
Statuses == {"booked", "cancelled", "attended", "no_show", "deleted"}

ASSUME WeekAssumption == Week \subseteq Windows
ASSUME ResavedAssumption == Resaved \subseteq SUBSET Windows
ASSUME ActorsAssumption == Customers \cap Staff = {} /\ Nobody \notin Customers
ASSUME DiaryBounds == Horizon \in Nat /\ Lead \in Nat /\ Limit \in Nat /\ MaxRows \in Nat
ASSUME OutcomesAssumption == Outcomes \subseteq {"attended", "no_show"}
ASSUME ClockAssumption == Edges \subseteq 0..Horizon /\ Clock \subseteq 0..Horizon /\ 0 \in Clock

VARIABLES
    hours,    \* business_hours
    rows,     \* appointments, a row's place its id; a deleted block stays as "deleted"
    now,
    calls,    \* the function each actor is in
    offered,  \* #slots: what each conversation was offered in this turn
    told,     \* the confirmations that customers were sent
    listed,   \* the instants that the forms have listed as slots
    gone      \* the conversations that have been deleted

vars == <<hours, rows, now, calls, offered, told, listed, gone>>

\* shown: the statuses that a screen may still show of it.  History: closed,
\* the row that its move cancelled; dropped, whether the last button pressed
\* on it was "Cancel".
Row == [at : Instants, len : 1..Horizon, status : Statuses, kind : {"appointment", "block"},
        conv : Customers \cup {Nobody}, source : {"assistant", "person"},
        closed : Nat, dropped : BOOLEAN, shown : SUBSET Statuses]
CallState == [pc : {"idle", "select", "length", "write"},
              op : {"none", "assistant", "manual", "move", "hours"},
              id : Nat, at : Instants, len : 0..Horizon, conv : Customers \cup {Nobody},
              status : Statuses, week : {{}} \cup Resaved]
IdleCall == [pc |-> "idle", op |-> "none", id |-> 0, at |-> 0, len |-> 0, conv |-> Nobody,
             status |-> "booked", week |-> {}]

TypeOK ==
    /\ hours \subseteq Windows
    /\ rows \in Seq(Row)
    /\ now \in Instants
    /\ calls \in [Customers \cup Staff -> CallState]
    /\ offered \in [Customers -> SUBSET Instants]
    /\ told \subseteq Customers \X Instants
    /\ listed \subseteq Instants /\ gone \subseteq Customers

-----------------------------------------------------------------------------
(* The grid and the index.                                                 *)

\* app.slot_grid: the last slot of a window ends by its closing.
GridOf(w) == {t \in w.opens..(w.closes - w.len) : (t - w.opens) % w.len = 0}
SlotGrid == UNION {{[at |-> t, len |-> w.len] : t \in GridOf(w)} : w \in hours}

OnGrid(w, t) == t >= w.opens /\ t < w.closes /\ (t - w.opens) % w.len = 0
\* app.slot_length: the lengths of the windows that have an instant on their
\* grid; with several, "limit 1" takes any of them.
SlotLengths(t) == {w.len : w \in {w \in hours : OnGrid(w, t)}}

Live(r) == r.status \notin {"cancelled", "deleted"}
Taken(t) == \E i \in DOMAIN rows : rows[i].at = t /\ Live(rows[i])

\* day_slots, and free_slots but for its limits.
Free == {g.at : g \in {h \in SlotGrid : ~Taken(h.at)}}
\* free_slots: the first few that are not too soon.
FreeSlots == LET soon == {t \in Free : t >= now + Lead}
             IN  {t \in soon : Cardinality({u \in soon : u < t}) < Limit}

\* Mutant: a slot is only held by a customer who is still expected.
ConflictWithBooked(t) == \E i \in DOMAIN rows : rows[i].at = t /\ rows[i].status = "booked"
\* appointments_slot_idx: at most one row that is not cancelled per instant.
Conflict(t) == Taken(t)

Init ==
    /\ hours = Week /\ rows = <<>> /\ now = 0
    /\ calls = [a \in Customers \cup Staff |-> IdleCall]
    /\ offered = [c \in Customers |-> {}] /\ told = {} /\ gone = {}
    /\ listed = {g.at : g \in SlotGrid}

Idle(a) == calls[a].pc = "idle"
Return(a) == calls' = [calls EXCEPT ![a] = IdleCall]
InFlight == {a \in Customers \cup Staff : ~Idle(a)}
\* Bound: no more calls than there is room for the rows they may make.
HasRoomFor(n) == Len(rows) + Cardinality(InFlight) + n <= MaxRows

-----------------------------------------------------------------------------
(* The assistant.                                                          *)

\* #promptContext: the slots of this turn replace those of the last.
Offer(c) ==
    /\ Idle(c) /\ c \notin gone
    /\ offered' = [offered EXCEPT ![c] = FreeSlots]
    /\ UNCHANGED <<hours, rows, now, calls, told, listed, gone>>

\* #book and the head of book_appointment: a label that was offered, and an
\* instant that has not come.
BookAppointment(c) ==
    /\ Idle(c) /\ HasRoomFor(1)
    /\ \E at \in offered[c] :
         calls' = IF at <= now THEN calls
                  ELSE [calls EXCEPT ![c] = [IdleCall EXCEPT !.pc = "length", !.op = "assistant",
                                                             !.at = at, !.conv = c]]
    /\ offered' = [offered EXCEPT ![c] = {}]
    /\ UNCHANGED <<hours, rows, now, told, listed, gone>>

\* The conversation is deleted, by erase().  Its bookings stay, without the
\* thread they were agreed in: on delete set null (conversation_id).
DeleteConversation(c) ==
    /\ c \notin gone /\ gone' = gone \cup {c}
    /\ rows' = [i \in DOMAIN rows |-> IF rows[i].conv = c THEN [rows[i] EXCEPT !.conv = Nobody]
                                      ELSE rows[i]]
    /\ UNCHANGED <<hours, now, calls, offered, told, listed>>

-----------------------------------------------------------------------------
(* The functions, statement by statement.                                  *)

\* The select at the head of reschedule_appointment.
SelectPrevious(a) ==
    /\ calls[a].pc = "select"
    /\ LET prev == rows[calls[a].id]
       IN  IF prev.kind = "appointment" /\ prev.status # "cancelled"
           THEN calls' = [calls EXCEPT ![a].pc = "length", ![a].status = prev.status,
                                       ![a].conv = prev.conv]
           ELSE Return(a)
    /\ UNCHANGED <<hours, rows, now, offered, told, listed, gone>>

\* Null when the instant is not a slot.
SlotLength(a) ==
    /\ calls[a].pc = "length"
    /\ IF SlotLengths(calls[a].at) = {} THEN Return(a)
       ELSE \E len \in SlotLengths(calls[a].at) :
              calls' = [calls EXCEPT ![a].pc = "write", ![a].len = len]
    /\ UNCHANGED <<hours, rows, now, offered, told, listed, gone>>

NewRow(call, source, closed) ==
    [at |-> call.at, len |-> call.len, status |-> "booked", kind |-> "appointment",
     conv |-> call.conv, source |-> source, closed |-> closed, dropped |-> FALSE,
     shown |-> {"booked"}]
NewBlock(slot) ==
    [at |-> slot.at, len |-> slot.len, status |-> "booked", kind |-> "block", conv |-> Nobody,
     source |-> "person", closed |-> 0, dropped |-> FALSE, shown |-> {"booked"}]
\* The screen leaves cancelled rows out.
WithStatus(r, status) ==
    [r EXCEPT !.status = status, !.shown = @ \cup ({status} \ {"cancelled"})]

\* An insert that does nothing, on a slot that is held, or that fails on the
\* foreign key, for a conversation that was there when the call began.
NotInserted(call) == Conflict(call.at) \/ call.conv \in gone

\* book_appointment and book_manual.  The assistant confirms what was taken; a
\* person who books tells nobody.
WriteBooking(a) ==
    /\ calls[a].pc = "write" /\ calls[a].op \in {"assistant", "manual"}
    /\ LET source == IF calls[a].op = "assistant" THEN "assistant" ELSE "person"
       IN  IF NotInserted(calls[a]) THEN UNCHANGED <<rows, told>>
           ELSE /\ rows' = Append(rows, NewRow(calls[a], source, 0))
                /\ told' = IF calls[a].op = "assistant"
                           THEN told \cup {<<calls[a].conv, calls[a].at>>} ELSE told
    /\ Return(a)
    /\ UNCHANGED <<hours, now, offered, listed, gone>>

\* Mutant: the row is moved in place.
MoveInPlace(id, new) == [rows EXCEPT ![id].at = new.at, ![id].len = new.len]
\* Take the new slot, then close the old row if it was booked when selected.
TakeThenClose(id, new) ==
    [i \in 1..(Len(rows) + 1) |->
        IF i = Len(rows) + 1 THEN new
        ELSE IF i = new.closed THEN WithStatus(rows[i], "cancelled") ELSE rows[i]]

\* Mutant: a moved booking is a person's.
SourceOfMove(prev) == "person"
SourceKept(prev) == prev.source

WriteMove(a) ==
    /\ calls[a].pc = "write" /\ calls[a].op = "move"
    /\ LET id == calls[a].id
           closed == IF calls[a].status = "booked" THEN id ELSE 0
       IN  rows' = IF NotInserted(calls[a]) THEN rows
                   ELSE TakeThenClose(id, NewRow(calls[a], SourceKept(rows[id]), closed))
    /\ Return(a)
    /\ UNCHANGED <<hours, now, offered, told, listed, gone>>

-----------------------------------------------------------------------------
(* The Diary screen.  A screen shows what it loaded, however long ago, and *)
(* each button writes by id without asking what the row has become.        *)

Shown(id, kind, status) == rows[id].kind = kind /\ status \in rows[id].shown
Ask(s, call) == calls' = [calls EXCEPT ![s] = call]

BookManual(s) ==
    /\ Idle(s) /\ HasRoomFor(1)
    /\ \E at \in listed, conv \in Customers \cup {Nobody} :
         Ask(s, [IdleCall EXCEPT !.pc = "length", !.op = "manual", !.at = at, !.conv = conv])
    /\ UNCHANGED <<hours, rows, now, offered, told, listed, gone>>

Reschedule(s) ==
    /\ Idle(s) /\ HasRoomFor(1)
    /\ \E id \in DOMAIN rows, at \in listed :
         /\ \E status \in {"booked"} \cup Outcomes : Shown(id, "appointment", status)
         /\ Ask(s, [IdleCall EXCEPT !.pc = "select", !.op = "move", !.id = id, !.at = at])
    /\ UNCHANGED <<hours, rows, now, offered, told, listed, gone>>

\* The index refuses an update that brings a row back to a slot given away.
Pressed(r, status) == [WithStatus(r, status) EXCEPT !.dropped = (status = "cancelled")]
SetStatus(id, status) ==
    rows' = IF status # "cancelled" /\ ~Live(rows[id]) /\ Conflict(rows[id].at) THEN rows
            ELSE [rows EXCEPT ![id] = Pressed(@, status)]

Cancel(id) ==
    /\ Shown(id, "appointment", "booked")
    /\ SetStatus(id, "cancelled")
    /\ UNCHANGED <<hours, now, calls, offered, told, listed, gone>>

\* "Came" and "No show", once the hour has come.
Mark(id) ==
    /\ Shown(id, "appointment", "booked") /\ rows[id].at <= now
    /\ \E status \in Outcomes : SetStatus(id, status)
    /\ UNCHANGED <<hours, now, calls, offered, told, listed, gone>>

\* "Undo" of either.
Undo(id) ==
    /\ \E status \in Outcomes : Shown(id, "appointment", status)
    /\ SetStatus(id, "booked")
    /\ UNCHANGED <<hours, now, calls, offered, told, listed, gone>>

\* Only blocks are deleted.
Unblock(id) ==
    /\ Shown(id, "block", "booked") /\ rows[id].status # "deleted"
    /\ rows' = [rows EXCEPT ![id].status = "deleted"]
    /\ UNCHANGED <<hours, now, calls, offered, told, listed, gone>>

\* block_time: one row per slot of the range; a slot already taken stays taken.
BlockTime(from, to) ==
    LET free == {g \in SlotGrid : g.at >= from /\ g.at < to /\ ~Conflict(g.at)}
        many == Cardinality({g.at : g \in free})
    IN  /\ from < to /\ HasRoomFor(many)
        /\ \E order \in [1..many -> free] :
             /\ \A i \in 1..many : \A j \in 1..(i - 1) : order[j].at < order[i].at
             /\ rows' = rows \o [i \in 1..many |-> NewBlock(order[i])]
        /\ UNCHANGED <<hours, now, calls, offered, told, listed, gone>>

\* saveHours, and PUT /api/admin/hours: the week is replaced in two calls.  The
\* second may fail, and is refused when a window it brings opens when one that
\* is there does; the first is not undone.
ClearHours(s) ==
    /\ Idle(s)
    /\ \E week \in Resaved :
         Ask(s, [IdleCall EXCEPT !.pc = "write", !.op = "hours", !.week = week])
    /\ hours' = {}
    /\ UNCHANGED <<rows, now, offered, told, listed, gone>>
InsertHours(s) ==
    /\ calls[s].pc = "write" /\ calls[s].op = "hours"
    /\ \/ UNCHANGED hours
       \/ /\ \A w \in hours, v \in calls[s].week : v.opens # w.opens
          /\ hours' = hours \cup calls[s].week
    /\ listed' = listed \cup {g.at : g \in SlotGrid'}
    /\ Return(s)
    /\ UNCHANGED <<rows, now, offered, told, gone>>

Tick == /\ \E t \in Clock : t > now /\ now' = t
        /\ UNCHANGED <<hours, rows, calls, offered, told, listed, gone>>

-----------------------------------------------------------------------------

Call(a) == SelectPrevious(a) \/ SlotLength(a) \/ WriteBooking(a) \/ WriteMove(a) \/ InsertHours(a)
Form(s) == BookManual(s) \/ Reschedule(s) \/ ClearHours(s)
Button(id) == Cancel(id) \/ Mark(id) \/ Undo(id) \/ Unblock(id)

Next == \/ \E a \in Customers \cup Staff : Call(a)
        \/ \E c \in Customers : Offer(c) \/ BookAppointment(c) \/ DeleteConversation(c)
        \/ \E s \in Staff : Form(s)
        \/ \E id \in DOMAIN rows : Button(id)
        \/ \E from, to \in Edges : BlockTime(from, to)
        \/ Tick

Spec == Init /\ [][Next]_vars

-----------------------------------------------------------------------------
(* Properties.                                                             *)

\* Nobody is booked on top of anybody: the spans of two appointments or blocks
\* that hold their slots never overlap, although only their starts are compared.
NoOverlap ==
    \A i, j \in DOMAIN rows :
        i < j /\ Live(rows[i]) /\ Live(rows[j]) =>
            rows[i].at + rows[i].len <= rows[j].at \/ rows[j].at + rows[j].len <= rows[i].at

\* A time that a customer was told has the row in which it was promised, however
\* often the booking has been moved, marked or cancelled: under the customer's
\* conversation while that is there, under nobody's once it has been deleted,
\* though a call that began before may write its row after.
PromiseIsOnRecord ==
    \A promise \in told : \E i \in DOMAIN rows :
        /\ rows[i].source = "assistant" /\ rows[i].at = promise[2]
        /\ rows[i].conv = IF promise[1] \in gone THEN Nobody ELSE promise[1]

\* The screen counts what the assistant booked by the rows that are neither
\* blocks nor cancelled.  A booking leaves that count only by a person's Cancel:
\* one that a move cancelled is counted, under the same source, by the row that
\* took its place, however many move, mark or bring it back at once.
Counted(i) == rows[i].kind = "appointment" /\ rows[i].status # "cancelled"
TookItsPlace(j, i) == rows[j].closed = i /\ rows[j].source = rows[i].source
CountedUntilCancelled ==
    \A i \in DOMAIN rows : rows[i].kind = "appointment" =>
        Counted(i) \/ rows[i].dropped \/ \E j \in DOMAIN rows : j > i /\ TookItsPlace(j, i)
=============================================================================
