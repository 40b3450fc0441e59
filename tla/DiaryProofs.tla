---------------------------- MODULE DiaryProofs ----------------------------
(***************************************************************************)
(* What Diary promises, for any customers, staff, weeks and bounds: its    *)
(* types, that what was promised stays on record and a booking in the      *)
(* screen's count, and that nobody is booked on top of anybody, as long as *)
(* the weeks the owner saves have their slots spaced.                      *)
(***************************************************************************)
EXTENDS Diary, SequenceTheorems, FiniteSetTheorems, TLAPS

\* A call knows what it is about to write, and the row that it moves.
CallIsKnown(call, ids) ==
    /\ call.pc = "idle" <=> call.op = "none"
    /\ call.pc = "select" => call.op = "move"
    /\ call.pc = "length" => call.op # "hours"
    /\ call.op = "assistant" => call.conv \in Customers
    /\ call.op = "move" => call.id \in ids
    /\ call.pc = "write" /\ call.op # "hours" => call.len \in 1..Horizon

TypeInv == TypeOK /\ \A a \in Customers \cup Staff : CallIsKnown(calls[a], DOMAIN rows)

\* Two rows that hold their slots hold different ones.
Unique == \A i, j \in DOMAIN rows : i # j /\ Live(rows[i]) /\ Live(rows[j]) => rows[i].at # rows[j].at

RecordInv == TypeInv /\ PromiseIsOnRecord /\ CountedUntilCancelled

\* What a step may never do to a row: give it another time, length or origin, or
\* another party, but that it loses the conversation it was agreed in with it.
SameBooking(r, q) == /\ r.at = q.at /\ r.len = q.len /\ r.kind = q.kind
                     /\ r.source = q.source /\ r.closed = q.closed
                     /\ \/ q.conv = r.conv
                        \/ q.conv = Nobody /\ r.conv \in gone'
RowsGrow == /\ DOMAIN rows \subseteq DOMAIN rows'
            /\ \A i \in DOMAIN rows : SameBooking(rows[i], rows'[i])

-----------------------------------------------------------------------------
(* The sequence of rows.                                                   *)

\* A sequence of rows is a function on its length.
LEMMA RowsAre ==
    ASSUME NEW s \in Seq(Row)
    PROVE  /\ Len(s) \in Nat /\ DOMAIN s = 1..Len(s)
           /\ \A i \in DOMAIN s : s[i] \in Row
  BY LenProperties, ElementOfSeq

LEMMA RowFields ==
    ASSUME NEW r \in Row, NEW status \in Statuses
    PROVE  /\ WithStatus(r, status) \in Row
           /\ WithStatus(r, status).status = status
           /\ SameBooking(r, WithStatus(r, status))
<1> DEFINE k == [r EXCEPT !.status = status]
<1>1. k \in Row /\ k.status = status /\ SameBooking(r, k) /\ k.shown = r.shown
  BY DEF Row, SameBooking
<1>2. WithStatus(r, status) = [k EXCEPT !.shown = @ \cup ({status} \ {"cancelled"})]
  BY DEF Row, WithStatus
<1> HIDE DEF k
<1>3. k.shown \cup ({status} \ {"cancelled"}) \in SUBSET Statuses
  BY <1>1 DEF Row
<1> QED
  BY <1>1, <1>2, <1>3 DEF Row, SameBooking

\* "Cancel", "Came", "No show" and "Undo".
LEMMA PressedFields ==
    ASSUME NEW r \in Row, NEW status \in Statuses
    PROVE  /\ Pressed(r, status) \in Row
           /\ Pressed(r, status).status = status
           /\ Pressed(r, status).dropped = (status = "cancelled")
           /\ SameBooking(r, Pressed(r, status))
<1> DEFINE k == WithStatus(r, status)
           d == (status = "cancelled")
<1>1. k \in Row /\ k.status = status /\ SameBooking(r, k)
  BY RowFields
<1>2. Pressed(r, status) = [k EXCEPT !.dropped = d] /\ d \in BOOLEAN
  BY DEF Pressed
<1> HIDE DEF k, d
<1>3. Pressed(r, status) \in Row /\ Pressed(r, status).status = status
      /\ SameBooking(r, Pressed(r, status))
  BY <1>1, <1>2 DEF Row, SameBooking
<1>4. Pressed(r, status).dropped = d
  BY <1>1, <1>2 DEF Row
<1> QED
  BY <1>3, <1>4 DEF d

\* insert: the row is the last, and no other has changed.
LEMMA AddRow ==
    ASSUME TypeOK, NEW r \in Row, rows' = Append(rows, r)
    PROVE  /\ rows' \in Seq(Row)
           /\ Len(rows') = Len(rows) + 1
           /\ rows'[Len(rows) + 1] = r
           /\ \A i \in DOMAIN rows : rows'[i] = rows[i]
  BY AppendProperties, RowsAre DEF TypeOK

\* reschedule_appointment: the row is the last, and the one it closes is cancelled.
LEMMA MoveRow ==
    ASSUME TypeOK, NEW r \in Row, NEW id, rows' = TakeThenClose(id, r)
    PROVE  /\ rows' \in Seq(Row)
           /\ Len(rows') = Len(rows) + 1
           /\ rows'[Len(rows) + 1] = r
           /\ \A i \in DOMAIN rows :
                rows'[i] = IF i = r.closed THEN WithStatus(rows[i], "cancelled") ELSE rows[i]
<1> DEFINE n == Len(rows) + 1
<1>1. Len(rows) \in Nat /\ DOMAIN rows = 1..Len(rows) /\ \A i \in DOMAIN rows : rows[i] \in Row
  BY RowsAre DEF TypeOK
<1>2. \A i \in DOMAIN rows : WithStatus(rows[i], "cancelled") \in Row
  BY <1>1, RowFields DEF Statuses
<1>3. n \in Nat /\ \A i \in 1..n : i # n => i \in DOMAIN rows
  BY <1>1
<1>4. rows' = [i \in 1..n |->
        IF i = n THEN r ELSE IF i = r.closed THEN WithStatus(rows[i], "cancelled") ELSE rows[i]]
  BY DEF TakeThenClose
<1> HIDE DEF n
<1>5. rows' \in [1..n -> Row]
  BY <1>1, <1>2, <1>3, <1>4
<1>6. rows' \in Seq(Row)
  BY <1>3, <1>5, SeqDef
<1>7. Len(rows') = n
  BY <1>3, <1>5, <1>6, LenProperties
<1>8. n \in 1..n /\ \A i \in DOMAIN rows : i \in 1..n /\ i # n
  BY <1>1 DEF n
<1>9. n = Len(rows) + 1
  BY DEF n
<1>10. rows'[n] = r
  BY <1>4, <1>8
<1>11. \A i \in DOMAIN rows :
         rows'[i] = IF i = r.closed THEN WithStatus(rows[i], "cancelled") ELSE rows[i]
  BY <1>4, <1>8
<1> QED
  BY <1>6, <1>7, <1>9, <1>10, <1>11

\* update ... where id: one row has changed.
LEMMA SetRow ==
    ASSUME TypeOK, NEW id \in DOMAIN rows, NEW r \in Row, rows' = [rows EXCEPT ![id] = r]
    PROVE  /\ rows' \in Seq(Row)
           /\ DOMAIN rows' = DOMAIN rows
           /\ rows'[id] = r
           /\ \A i \in DOMAIN rows \ {id} : rows'[i] = rows[i]
  BY ExceptSeq, RowsAre DEF TypeOK

-----------------------------------------------------------------------------
(* The grid.                                                               *)

\* A slot of the grid is an instant of a window and as long as its slots are.
LEMMA GridFits ==
    ASSUME TypeOK, NEW g \in SlotGrid
    PROVE  /\ g.at \in Instants /\ g.len \in 1..Horizon
           /\ \E w \in hours : g.at \in GridOf(w) /\ g.len = w.len
<1>1. PICK w \in hours : \E u \in GridOf(w) : g = [at |-> u, len |-> w.len]
  BY DEF SlotGrid
<1>0. PICK t \in GridOf(w) : g = [at |-> t, len |-> w.len]
  BY <1>1
<1>2. w \in Windows /\ w.opens \in Nat /\ w.closes \in 0..Horizon /\ w.len \in 1..Horizon
  BY DiaryBounds DEF TypeOK, Windows, Instants
<1>3. t \in w.opens..(w.closes - w.len)
  BY DEF GridOf
<1>4. t \in Instants
  BY <1>2, <1>3, DiaryBounds DEF Instants
<1> QED
  BY <1>0, <1>2, <1>4

\* A slot of a window's grid is on it as app.slot_length asks.
LEMMA GridIsOnGrid ==
    ASSUME NEW w \in Windows, NEW t \in GridOf(w)
    PROVE  OnGrid(w, t) /\ t \in Instants
  BY DiaryBounds DEF Windows, Instants, GridOf, OnGrid

\* block_time: the new rows are the last ones, each a block of a free slot of
\* the grid, and no two of them of the same.
LEMMA AddBlocks ==
    ASSUME TypeOK, NEW from \in Edges, NEW to \in Edges, BlockTime(from, to)
    PROVE  /\ rows' \in Seq(Row)
           /\ DOMAIN rows \subseteq DOMAIN rows'
           /\ \A i \in DOMAIN rows : rows'[i] = rows[i]
           /\ \A i \in DOMAIN rows' \ DOMAIN rows :
                \E g \in SlotGrid : ~Conflict(g.at) /\ rows'[i] = NewBlock(g)
           /\ \A i, j \in DOMAIN rows' \ DOMAIN rows : i < j => rows'[i].at # rows'[j].at
<1> DEFINE free == {g \in SlotGrid : g.at >= from /\ g.at < to /\ ~Conflict(g.at)}
           starts == {g.at : g \in free}
           many == Cardinality(starts)
<1>1. starts \subseteq Instants
  BY GridFits
<1>2. many \in Nat
  <2>1. IsFiniteSet(Instants)
    BY FS_Interval, DiaryBounds DEF Instants
  <2> QED
    BY <1>1, <2>1, FS_Subset, FS_CardinalityType
<1>3. PICK order \in [1..many -> free] :
        /\ \A i \in 1..many : \A j \in 1..(i - 1) : order[j].at < order[i].at
        /\ rows' = rows \o [i \in 1..many |-> NewBlock(order[i])]
  BY DEF BlockTime
<1> DEFINE blocks == [i \in 1..many |-> NewBlock(order[i])]
<1>4. \A g \in SlotGrid : NewBlock(g) \in Row
  BY GridFits DEF NewBlock, Row, Statuses
<1>5. /\ \A i \in 1..many : order[i] \in SlotGrid /\ ~Conflict(order[i].at)
      /\ rows' = rows \o blocks
  BY <1>3
<1>6. blocks = [i \in 1..many |-> NewBlock(order[i])]
  OBVIOUS
<1> HIDE DEF many, blocks
<1>7. blocks \in [1..many -> Row]
  BY <1>4, <1>5, <1>6
<1>8. blocks \in Seq(Row)
  BY <1>2, <1>7, SeqDef
<1>9. Len(blocks) = many
  BY <1>2, <1>7, <1>8, LenProperties
<1>10. rows \in Seq(Row) /\ Len(rows) \in Nat /\ DOMAIN rows = 1..Len(rows)
  BY RowsAre DEF TypeOK
<1>11. /\ rows' \in Seq(Row) /\ Len(rows') = Len(rows) + many
       /\ \A i \in 1..(Len(rows) + many) :
            rows'[i] = IF i <= Len(rows) THEN rows[i] ELSE blocks[i - Len(rows)]
  BY <1>5, <1>8, <1>9, <1>10, ConcatProperties
<1>12. DOMAIN rows' = 1..(Len(rows) + many)
  BY <1>11, RowsAre
<1>13. ASSUME NEW i \in DOMAIN rows' \ DOMAIN rows
       PROVE  /\ i - Len(rows) \in 1..many
              /\ rows'[i] = NewBlock(order[i - Len(rows)])
  BY <1>2, <1>6, <1>10, <1>11, <1>12
<1>14. ASSUME NEW i \in DOMAIN rows' \ DOMAIN rows, NEW j \in DOMAIN rows' \ DOMAIN rows, i < j
       PROVE  rows'[i].at # rows'[j].at
  <2> DEFINE p == i - Len(rows)
             q == j - Len(rows)
  <2>1. p \in 1..many /\ q \in 1..many /\ p < q
    BY <1>2, <1>10, <1>12, <1>13, <1>14
  <2>2. rows'[i].at = order[p].at /\ rows'[j].at = order[q].at
    BY <1>13 DEF NewBlock
  <2>3. order[p] \in SlotGrid /\ order[q] \in SlotGrid
    BY <1>5, <2>1
  <2> HIDE DEF p, q
  <2>4. p \in 1..(q - 1)
    BY <1>2, <2>1
  <2>5. order[p].at < order[q].at
    BY <1>3, <2>1, <2>4
  <2>6. order[p].at \in Int /\ order[q].at \in Int
    BY <2>3, GridFits, DiaryBounds DEF Instants
  <2> QED
    BY <2>2, <2>5, <2>6
<1>15. DOMAIN rows \subseteq DOMAIN rows' /\ \A i \in DOMAIN rows : rows'[i] = rows[i]
  BY <1>2, <1>10, <1>11, <1>12
<1>16. ASSUME NEW i \in DOMAIN rows' \ DOMAIN rows
       PROVE  \E g \in SlotGrid : ~Conflict(g.at) /\ rows'[i] = NewBlock(g)
  <2>1. order[i - Len(rows)] \in SlotGrid /\ ~Conflict(order[i - Len(rows)].at)
    BY <1>5, <1>13
  <2> QED
    BY <1>13, <2>1
<1> QED
  BY <1>11, <1>14, <1>15, <1>16

-----------------------------------------------------------------------------
(* Types.                                                                  *)

\* A status button changes the status of its row, or nothing.  A row comes
\* back to its slot only if nobody else has it.
LEMMA StatusStep ==
    ASSUME TypeOK, NEW id \in DOMAIN rows, NEW status \in Statuses, SetStatus(id, status)
    PROVE  /\ rows' \in Seq(Row)
           /\ DOMAIN rows' = DOMAIN rows
           /\ \A i \in DOMAIN rows \ {id} : rows'[i] = rows[i]
           /\ SameBooking(rows[id], rows'[id])
           /\ Live(rows'[id]) => Live(rows[id]) \/ ~Conflict(rows[id].at)
           /\ rows' = rows \/ rows'[id].status # "cancelled" \/ rows'[id].dropped
<1>1. rows[id] \in Row
  BY RowsAre DEF TypeOK
<1>2. CASE rows' = rows
  <2>1. rows' \in Seq(Row) /\ DOMAIN rows' = DOMAIN rows
    BY <1>2 DEF TypeOK
  <2> QED
    BY <1>2, <2>1 DEF SameBooking
<1>3. CASE rows' # rows
  <2> DEFINE r == Pressed(rows[id], status)
  <2>1. r \in Row /\ r.status = status /\ SameBooking(rows[id], r)
    BY <1>1, PressedFields
  <2>5. status = "cancelled" => r.dropped
    BY <1>1, PressedFields
  <2>2. /\ rows' = [rows EXCEPT ![id] = r]
        /\ ~(status # "cancelled" /\ ~Live(rows[id]) /\ Conflict(rows[id].at))
    BY <1>3 DEF SetStatus
  <2> HIDE DEF r
  <2>3. /\ rows' \in Seq(Row) /\ DOMAIN rows' = DOMAIN rows /\ rows'[id] = r
        /\ \A i \in DOMAIN rows \ {id} : rows'[i] = rows[i]
    BY <2>1, <2>2, SetRow
  <2>4. Live(r) => status # "cancelled"
    BY <2>1 DEF Live
  <2> QED
    BY <2>1, <2>2, <2>3, <2>4, <2>5
<1> QED
  BY <1>2, <1>3

\* erase(): the rows agreed in a conversation are no longer anybody's, and are
\* otherwise as they were.
LEMMA DeleteStep ==
    ASSUME TypeOK, NEW c \in Customers, DeleteConversation(c)
    PROVE  /\ rows' \in Seq(Row)
           /\ DOMAIN rows' = DOMAIN rows
           /\ \A i \in DOMAIN rows :
                /\ SameBooking(rows[i], rows'[i])
                /\ rows'[i].status = rows[i].status /\ rows'[i].dropped = rows[i].dropped
                /\ rows[i].conv = c => rows'[i].conv = Nobody
<1>1. Len(rows) \in Nat /\ DOMAIN rows = 1..Len(rows) /\ \A i \in DOMAIN rows : rows[i] \in Row
  BY RowsAre DEF TypeOK
<1>2. \A r \in Row : /\ [r EXCEPT !.conv = Nobody] \in Row
                     /\ r.conv = c => SameBooking(r, [r EXCEPT !.conv = Nobody])
                     /\ [r EXCEPT !.conv = Nobody].status = r.status
                     /\ [r EXCEPT !.conv = Nobody].conv = Nobody
  BY DEF Row, SameBooking, DeleteConversation
<1>3. \A r \in Row : [r EXCEPT !.conv = Nobody].dropped = r.dropped
  BY DEF Row
<1>4. \A i \in DOMAIN rows : rows'[i] = IF rows[i].conv = c THEN [rows[i] EXCEPT !.conv = Nobody]
                                       ELSE rows[i]
  BY DEF DeleteConversation
<1>5. rows' \in [1..Len(rows) -> Row] /\ DOMAIN rows' = DOMAIN rows
  BY <1>1, <1>2 DEF DeleteConversation
<1>6. rows' \in Seq(Row)
  BY <1>1, <1>5, SeqDef
<1>7. ASSUME NEW i \in DOMAIN rows
      PROVE  /\ SameBooking(rows[i], rows'[i])
             /\ rows'[i].status = rows[i].status /\ rows'[i].dropped = rows[i].dropped
             /\ rows[i].conv = c => rows'[i].conv = Nobody
  <2>1. CASE rows[i].conv = c
    BY <1>1, <1>2, <1>3, <1>4, <2>1
  <2>2. CASE rows[i].conv # c
    BY <1>4, <2>2 DEF SameBooking
  <2> QED
    BY <2>1, <2>2
<1> QED
  BY <1>5, <1>6, <1>7

\* "Unblock" deletes a block.
LEMMA UnblockStep ==
    ASSUME TypeOK, NEW id \in DOMAIN rows, Unblock(id)
    PROVE  /\ rows' \in Seq(Row)
           /\ DOMAIN rows' = DOMAIN rows
           /\ \A i \in DOMAIN rows \ {id} : rows'[i] = rows[i]
           /\ SameBooking(rows[id], rows'[id])
           /\ ~Live(rows'[id])
<1> DEFINE r == [rows[id] EXCEPT !.status = "deleted"]
<1>1. rows[id] \in Row
  BY RowsAre DEF TypeOK
<1>2. r \in Row /\ r.status = "deleted" /\ SameBooking(rows[id], r)
  BY <1>1 DEF Row, Statuses, SameBooking
<1>3. rows' = [rows EXCEPT ![id] = r]
  BY DEF Unblock
<1> HIDE DEF r
<1> QED
  BY <1>2, <1>3, SetRow DEF Live

\* The status that a button sets is one of the table's.
LEMMA ButtonSets ==
    ASSUME NEW id, Cancel(id) \/ Mark(id) \/ Undo(id)
    PROVE  \E status \in Statuses : SetStatus(id, status)
  BY OutcomesAssumption DEF Cancel, Mark, Undo, Statuses

\* What a call writes is a row.
LEMMA NewRowTyped ==
    ASSUME TypeInv, NEW a \in Customers \cup Staff, calls[a].pc = "write", calls[a].op # "hours",
           NEW source \in {"assistant", "person"}, NEW closed \in Nat
    PROVE  NewRow(calls[a], source, closed) \in Row
<1>1. calls[a] \in CallState /\ calls[a].len \in 1..Horizon
  BY DEF TypeInv, TypeOK, CallIsKnown
<1> QED
  BY <1>1 DEF NewRow, Row, CallState, Statuses

LEMMA RowsStep ==
    ASSUME TypeInv, Next
    PROVE  rows' \in Seq(Row) /\ RowsGrow
<1>1. rows \in Seq(Row) /\ Len(rows) \in Nat /\ DOMAIN rows = 1..Len(rows)
      /\ \A i \in DOMAIN rows : rows[i] \in Row
  BY RowsAre DEF TypeInv, TypeOK
<1>2. ASSUME UNCHANGED rows PROVE rows' \in Seq(Row) /\ RowsGrow
  BY <1>1, <1>2 DEF RowsGrow, SameBooking
<1>3. ASSUME NEW a \in Customers \cup Staff, WriteBooking(a) PROVE rows' \in Seq(Row) /\ RowsGrow
  <2>1. CASE NotInserted(calls[a])
    BY <1>2, <1>3, <2>1 DEF WriteBooking
  <2>2. CASE ~NotInserted(calls[a])
    <3> DEFINE source == IF calls[a].op = "assistant" THEN "assistant" ELSE "person"
               r == NewRow(calls[a], source, 0)
    <3>1. rows' = Append(rows, r) /\ r \in Row
      BY <1>3, <2>2, NewRowTyped DEF WriteBooking
    <3> HIDE DEF r
    <3>2. /\ rows' \in Seq(Row) /\ Len(rows') = Len(rows) + 1
          /\ \A i \in DOMAIN rows : rows'[i] = rows[i]
      BY <3>1, AddRow DEF TypeInv
    <3> QED
      BY <1>1, <3>2, RowsAre DEF RowsGrow, SameBooking
  <2> QED
    BY <2>1, <2>2
<1>4. ASSUME NEW a \in Customers \cup Staff, WriteMove(a) PROVE rows' \in Seq(Row) /\ RowsGrow
  <2>1. CASE NotInserted(calls[a])
    BY <1>2, <1>4, <2>1 DEF WriteMove
  <2>2. CASE ~NotInserted(calls[a])
    <3> DEFINE id == calls[a].id
               closed == IF calls[a].status = "booked" THEN id ELSE 0
               r == NewRow(calls[a], SourceKept(rows[id]), closed)
    <3>1. id \in DOMAIN rows
      BY <1>4 DEF WriteMove, TypeInv, CallIsKnown
    <3>2. SourceKept(rows[id]) \in {"assistant", "person"} /\ id \in Nat /\ closed \in Nat
      BY <1>1, <3>1 DEF SourceKept, Row
    <3>3. rows' = TakeThenClose(id, r)
      BY <1>4, <2>2 DEF WriteMove
    <3>4. r \in Row
      BY <1>4, <3>2, NewRowTyped DEF WriteMove
    <3> HIDE DEF r, id
    <3>5. /\ rows' \in Seq(Row) /\ Len(rows') = Len(rows) + 1
          /\ \A i \in DOMAIN rows :
               rows'[i] = IF i = r.closed THEN WithStatus(rows[i], "cancelled") ELSE rows[i]
      BY <3>3, <3>4, MoveRow DEF TypeInv
    <3>6. \A i \in DOMAIN rows : SameBooking(rows[i], WithStatus(rows[i], "cancelled"))
      BY <1>1, RowFields DEF Statuses
    <3> QED
      BY <1>1, <3>5, <3>6, RowsAre DEF RowsGrow, SameBooking
  <2> QED
    BY <2>1, <2>2
<1>5. ASSUME NEW id \in DOMAIN rows, Button(id) PROVE rows' \in Seq(Row) /\ RowsGrow
  <2>1. /\ rows' \in Seq(Row) /\ DOMAIN rows' = DOMAIN rows
        /\ \A i \in DOMAIN rows \ {id} : rows'[i] = rows[i]
        /\ SameBooking(rows[id], rows'[id])
    BY <1>5, ButtonSets, StatusStep, UnblockStep DEF TypeInv, Button
  <2> QED
    BY <2>1 DEF RowsGrow, SameBooking
<1>6. ASSUME NEW from \in Edges, NEW to \in Edges, BlockTime(from, to)
      PROVE  rows' \in Seq(Row) /\ RowsGrow
  BY <1>6, AddBlocks DEF TypeInv, RowsGrow, SameBooking
<1>9. ASSUME NEW c \in Customers, DeleteConversation(c) PROVE rows' \in Seq(Row) /\ RowsGrow
  BY <1>9, DeleteStep DEF TypeInv, RowsGrow
<1>7. CASE UNCHANGED rows
  BY <1>2, <1>7
<1>8. CASE ~UNCHANGED rows
  BY <1>3, <1>4, <1>5, <1>6, <1>8, <1>9 DEF Next, Call, SelectPrevious, SlotLength, InsertHours, Offer,
     BookAppointment, Form, BookManual, Reschedule, ClearHours, Tick
<1> QED
  BY <1>7, <1>8

LEMMA IdleTyped == IdleCall \in CallState
  BY DiaryBounds DEF IdleCall, CallState, Instants, Statuses

\* Setting the fields that every call sets, and one more.
LEMMA CallFields ==
    ASSUME NEW k \in CallState, NEW pc \in {"select", "length", "write"},
           NEW op \in {"assistant", "manual", "move", "hours"}
    PROVE  LET r == [k EXCEPT !.pc = pc, !.op = op]
           IN  r \in CallState /\ r.pc = pc /\ r.op = op
<1> DEFINE h == [k EXCEPT !.pc = pc]
           r == [h EXCEPT !.op = op]
<1>1. h \in CallState /\ h.pc = pc
  BY DEF CallState
<1>2. [k EXCEPT !.pc = pc, !.op = op] = r
  BY DEF CallState
<1> HIDE DEF h
<1>3. r \in CallState /\ r.pc = pc /\ r.op = op
  BY <1>1 DEF CallState
<1> QED
  BY <1>2, <1>3

\* One call has moved, and knows what it needs.
LEMMA OneCall ==
    ASSUME TypeInv, RowsGrow, NEW a \in Customers \cup Staff, NEW r \in CallState,
           CallIsKnown(r, DOMAIN rows'), calls' = [calls EXCEPT ![a] = r]
    PROVE  /\ calls' \in [Customers \cup Staff -> CallState]
           /\ \A b \in Customers \cup Staff : CallIsKnown(calls'[b], DOMAIN rows')
<1>1. \A b \in Customers \cup Staff : calls'[b] = IF b = a THEN r ELSE calls[b]
  BY DEF TypeInv, TypeOK
<1>2. \A b \in Customers \cup Staff : CallIsKnown(calls[b], DOMAIN rows')
  BY DEF TypeInv, RowsGrow, CallIsKnown
<1> QED
  BY <1>1, <1>2 DEF TypeInv, TypeOK

LEMMA CallsStep ==
    ASSUME TypeInv, Next
    PROVE  /\ calls' \in [Customers \cup Staff -> CallState]
           /\ \A b \in Customers \cup Staff : CallIsKnown(calls'[b], DOMAIN rows')
<1> DEFINE Goal == /\ calls' \in [Customers \cup Staff -> CallState]
                   /\ \A b \in Customers \cup Staff : CallIsKnown(calls'[b], DOMAIN rows')
<1>1. RowsGrow
  BY RowsStep
<1>2. TypeInv /\ TypeOK /\ 0 \in Nat /\ Instants \subseteq Nat /\ Horizon \in Nat
  BY DiaryBounds DEF TypeInv, Instants
<1>3. ASSUME NEW a \in Customers \cup Staff, NEW r \in CallState, CallIsKnown(r, DOMAIN rows'),
             calls' = [calls EXCEPT ![a] = r]
      PROVE  Goal
  BY <1>1, <1>3, OneCall
<1>4. ASSUME UNCHANGED calls PROVE Goal
  <2>1. \A b \in Customers \cup Staff : CallIsKnown(calls[b], DOMAIN rows')
    BY <1>1 DEF TypeInv, RowsGrow, CallIsKnown
  <2> QED
    BY <1>4, <2>1 DEF TypeInv, TypeOK
<1>5. ASSUME NEW a \in Customers \cup Staff, Return(a) PROVE Goal
  BY <1>3, <1>5, IdleTyped DEF Return, CallIsKnown, IdleCall
<1> HIDE DEF Goal
<1>6. ASSUME NEW a \in Customers \cup Staff, SelectPrevious(a) PROVE Goal
  <2> DEFINE id == calls[a].id
             prev == rows[id]
  <2>1. calls[a] \in CallState /\ CallIsKnown(calls[a], DOMAIN rows) /\ calls[a].op = "move"
    BY <1>6 DEF TypeInv, TypeOK, SelectPrevious, CallIsKnown
  <2>2. id \in DOMAIN rows /\ prev \in Row
    BY <2>1, RowsAre DEF CallIsKnown, TypeInv, TypeOK
  <2>3. CASE Return(a)
    BY <1>5, <2>3
  <2>4. CASE ~Return(a)
    <3> DEFINE k1 == [calls[a] EXCEPT !.pc = "length"]
               k2 == [k1 EXCEPT !.status = prev.status]
               k3 == [k2 EXCEPT !.conv = prev.conv]
    <3>1. calls' = [calls EXCEPT ![a] = k3]
      BY <1>6, <2>4, <2>1 DEF SelectPrevious, TypeInv, TypeOK, CallState
    <3>2. k1 \in CallState /\ k1.pc = "length" /\ k1.op = "move" /\ k1.id = id
      BY <2>1 DEF CallState
    <3> HIDE DEF k1
    <3>3. k2 \in CallState /\ k2.pc = "length" /\ k2.op = "move" /\ k2.id = id
      BY <2>2, <3>2 DEF CallState, Row
    <3> HIDE DEF k2
    <3>4. k3 \in CallState /\ k3.pc = "length" /\ k3.op = "move" /\ k3.id = id
      BY <2>2, <3>3 DEF CallState, Row
    <3> HIDE DEF k3
    <3>5. CallIsKnown(k3, DOMAIN rows')
      BY <1>1, <2>2, <3>4 DEF CallIsKnown, RowsGrow
    <3> QED
      BY <1>3, <3>1, <3>4, <3>5
  <2> QED
    BY <2>3, <2>4
<1>7. ASSUME NEW a \in Customers \cup Staff, SlotLength(a) PROVE Goal
  <2>1. calls[a] \in CallState /\ CallIsKnown(calls[a], DOMAIN rows) /\ calls[a].pc = "length"
    BY <1>7 DEF TypeInv, TypeOK, SlotLength
  <2>2. CASE Return(a)
    BY <1>5, <2>2
  <2>3. CASE ~Return(a)
    <3>1. PICK len \in SlotLengths(calls[a].at) :
            calls' = [calls EXCEPT ![a].pc = "write", ![a].len = len]
      BY <1>7, <2>3 DEF SlotLength
    <3>2. len \in 1..Horizon
      BY DEF SlotLengths, TypeInv, TypeOK, Windows
    <3> DEFINE k1 == [calls[a] EXCEPT !.pc = "write"]
               k2 == [k1 EXCEPT !.len = len]
    <3>3. calls' = [calls EXCEPT ![a] = k2]
      BY <2>1, <3>1 DEF TypeInv, TypeOK, CallState
    <3>4. /\ k1 \in CallState /\ k1.pc = "write" /\ k1.op = calls[a].op
          /\ k1.id = calls[a].id /\ k1.conv = calls[a].conv
      BY <2>1 DEF CallState
    <3> HIDE DEF k1
    <3>5. len \in 0..Horizon
      BY <1>2, <3>2
    <3>6. /\ k2 \in CallState /\ k2.pc = "write" /\ k2.op = calls[a].op /\ k2.len = len
          /\ k2.id = calls[a].id /\ k2.conv = calls[a].conv
      BY <3>4, <3>5 DEF CallState
    <3> HIDE DEF k2
    <3>7. CallIsKnown(k2, DOMAIN rows')
      BY <1>1, <2>1, <3>2, <3>6 DEF CallIsKnown, RowsGrow
    <3> QED
      BY <1>3, <3>3, <3>6, <3>7
  <2> QED
    BY <2>2, <2>3
<1>8. ASSUME NEW a \in Customers \cup Staff, WriteBooking(a) \/ WriteMove(a) \/ InsertHours(a)
      PROVE  Goal
  BY <1>5, <1>8 DEF WriteBooking, WriteMove, InsertHours
<1>9. ASSUME NEW c \in Customers, BookAppointment(c) PROVE Goal
  <2>1. PICK at \in offered[c] :
          calls' = IF at <= now THEN calls
                   ELSE [calls EXCEPT ![c] = [IdleCall EXCEPT !.pc = "length", !.op = "assistant",
                                                              !.at = at, !.conv = c]]
    BY <1>9 DEF BookAppointment
  <2> DEFINE r == [IdleCall EXCEPT !.pc = "length", !.op = "assistant", !.at = at, !.conv = c]
  <2>2. at \in Instants
    BY DEF TypeInv, TypeOK
  <2>3. r \in CallState /\ r.pc = "length" /\ r.op = "assistant" /\ r.conv = c
    <3> DEFINE k0 == [IdleCall EXCEPT !.pc = "length", !.op = "assistant"]
               k1 == [k0 EXCEPT !.at = at]
               k2 == [k1 EXCEPT !.conv = c]
    <3>1. r = k2
      BY IdleTyped DEF CallState
    <3>2. k0 \in CallState /\ k0.pc = "length" /\ k0.op = "assistant"
      BY IdleTyped, CallFields
    <3> HIDE DEF k0
    <3>3. k1 \in CallState /\ k1.pc = "length" /\ k1.op = "assistant" /\ k1.at = at
      BY <3>2, <1>2, <2>2 DEF CallState, TypeOK
    <3> HIDE DEF k1
    <3>4. k2 \in CallState /\ k2.pc = "length" /\ k2.op = "assistant" /\ k2.at = at /\ k2.conv = c
      BY <3>3, <1>2, <2>2 DEF CallState, TypeOK
    <3> HIDE DEF k2
    <3> QED
      BY <3>1, <3>4
  <2>4. calls' = calls \/ calls' = [calls EXCEPT ![c] = r]
    BY <2>1
  <2> HIDE DEF r
  <2>5. CallIsKnown(r, DOMAIN rows')
    BY <2>3 DEF CallIsKnown
  <2> QED
    BY <1>3, <1>4, <2>3, <2>4, <2>5
<1>10. ASSUME NEW s \in Staff, BookManual(s) PROVE Goal
  <2>1. PICK at \in listed, conv \in Customers \cup {Nobody} :
          Ask(s, [IdleCall EXCEPT !.pc = "length", !.op = "manual", !.at = at, !.conv = conv])
    BY <1>10 DEF BookManual
  <2> DEFINE r == [IdleCall EXCEPT !.pc = "length", !.op = "manual", !.at = at, !.conv = conv]
  <2>2. r \in CallState /\ r.pc = "length" /\ r.op = "manual"
    <3> DEFINE k0 == [IdleCall EXCEPT !.pc = "length", !.op = "manual"]
               k1 == [k0 EXCEPT !.at = at]
               k2 == [k1 EXCEPT !.conv = conv]
    <3>1. r = k2
      BY IdleTyped DEF CallState
    <3>2. k0 \in CallState /\ k0.pc = "length" /\ k0.op = "manual"
      BY IdleTyped, CallFields
    <3> HIDE DEF k0
    <3>3. k1 \in CallState /\ k1.pc = "length" /\ k1.op = "manual" /\ k1.at = at
      BY <3>2, <1>2 DEF CallState, TypeOK
    <3> HIDE DEF k1
    <3>4. k2 \in CallState /\ k2.pc = "length" /\ k2.op = "manual" /\ k2.at = at /\ k2.conv = conv
      BY <3>3, <1>2 DEF CallState, TypeOK
    <3> HIDE DEF k2
    <3> QED
      BY <3>1, <3>4
  <2>3. calls' = [calls EXCEPT ![s] = r]
    BY <2>1 DEF Ask
  <2> HIDE DEF r
  <2>4. CallIsKnown(r, DOMAIN rows')
    BY <2>2 DEF CallIsKnown
  <2> QED
    BY <1>3, <2>2, <2>3, <2>4
<1>11. ASSUME NEW s \in Staff, Reschedule(s) PROVE Goal
  <2>1. PICK id \in DOMAIN rows, at \in listed :
          Ask(s, [IdleCall EXCEPT !.pc = "select", !.op = "move", !.id = id, !.at = at])
    BY <1>11 DEF Reschedule
  <2> DEFINE r == [IdleCall EXCEPT !.pc = "select", !.op = "move", !.id = id, !.at = at]
  <2>2. id \in Nat
    BY RowsAre DEF TypeInv, TypeOK
  <2>3. r \in CallState /\ r.pc = "select" /\ r.op = "move" /\ r.id = id
    <3> DEFINE k0 == [IdleCall EXCEPT !.pc = "select", !.op = "move"]
               k1 == [k0 EXCEPT !.id = id]
               k2 == [k1 EXCEPT !.at = at]
    <3>1. r = k2
      BY IdleTyped DEF CallState
    <3>2. k0 \in CallState /\ k0.pc = "select" /\ k0.op = "move"
      BY IdleTyped, CallFields
    <3> HIDE DEF k0
    <3>3. k1 \in CallState /\ k1.pc = "select" /\ k1.op = "move" /\ k1.id = id
      BY <3>2, <1>2, <2>2 DEF CallState, TypeOK
    <3> HIDE DEF k1
    <3>4. k2 \in CallState /\ k2.pc = "select" /\ k2.op = "move" /\ k2.id = id /\ k2.at = at
      BY <3>3, <1>2, <2>2 DEF CallState, TypeOK
    <3> HIDE DEF k2
    <3> QED
      BY <3>1, <3>4
  <2>4. calls' = [calls EXCEPT ![s] = r]
    BY <2>1 DEF Ask
  <2> HIDE DEF r
  <2>5. CallIsKnown(r, DOMAIN rows')
    BY <1>1, <2>3 DEF CallIsKnown, RowsGrow
  <2> QED
    BY <1>3, <2>3, <2>4, <2>5
<1>12. ASSUME NEW s \in Staff, ClearHours(s) PROVE Goal
  <2>1. PICK week \in Resaved :
          Ask(s, [IdleCall EXCEPT !.pc = "write", !.op = "hours", !.week = week])
    BY <1>12 DEF ClearHours
  <2> DEFINE r == [IdleCall EXCEPT !.pc = "write", !.op = "hours", !.week = week]
  <2>2. r \in CallState /\ r.pc = "write" /\ r.op = "hours"
    <3> DEFINE k0 == [IdleCall EXCEPT !.pc = "write", !.op = "hours"]
               k1 == [k0 EXCEPT !.week = week]
    <3>1. r = k1
      BY IdleTyped DEF CallState
    <3>2. k0 \in CallState /\ k0.pc = "write" /\ k0.op = "hours"
      BY IdleTyped, CallFields
    <3> HIDE DEF k0
    <3>3. k1 \in CallState /\ k1.pc = "write" /\ k1.op = "hours" /\ k1.week = week
      BY <3>2 DEF CallState, TypeOK
    <3> HIDE DEF k1
    <3> QED
      BY <3>1, <3>3
  <2>3. calls' = [calls EXCEPT ![s] = r]
    BY <2>1 DEF Ask
  <2> HIDE DEF r
  <2>4. CallIsKnown(r, DOMAIN rows')
    BY <2>2 DEF CallIsKnown
  <2> QED
    BY <1>3, <2>2, <2>3, <2>4
<1>13. ASSUME ~UNCHANGED calls PROVE Goal
  BY <1>6, <1>7, <1>8, <1>9, <1>10, <1>11, <1>12, <1>13 DEF Next, Call, Offer,
     DeleteConversation, Form, Button, Cancel, Mark, Undo, Unblock, BlockTime, Tick
<1> QED
  BY <1>4, <1>13 DEF Goal

LEMMA GridTyped ==
    ASSUME hours \subseteq Windows
    PROVE  {g.at : g \in SlotGrid} \subseteq Instants
<1>1. \A w \in hours : \A t \in GridOf(w) : t \in Instants
  BY GridIsOnGrid
<1>2. \A g \in SlotGrid : g.at \in Instants
  BY <1>1 DEF SlotGrid
<1> QED
  BY <1>2

LEMMA TypeInit == Init => TypeInv
<1> SUFFICES ASSUME Init PROVE TypeInv
  OBVIOUS
<1>1. hours \subseteq Windows /\ listed \subseteq Instants
  BY WeekAssumption, GridTyped DEF Init
<1>2. rows \in Seq(Row) /\ now \in Instants
  BY DiaryBounds, EmptySeq DEF Init, Instants
<1>3. calls \in [Customers \cup Staff -> CallState]
  BY IdleTyped DEF Init
<1>4. \A a \in Customers \cup Staff : CallIsKnown(calls[a], DOMAIN rows)
  BY DEF Init, CallIsKnown, IdleCall
<1>5. offered \in [Customers -> SUBSET Instants] /\ told \subseteq Customers \X Instants
      /\ gone \subseteq Customers
  BY DEF Init
<1> QED
  BY <1>1, <1>2, <1>3, <1>4, <1>5 DEF TypeInv, TypeOK

\* What is offered is an instant of the grid.
LEMMA OfferedIsOnGrid == FreeSlots \subseteq {g.at : g \in SlotGrid}
  BY DEF FreeSlots, Free

LEMMA TypeNext == TypeInv /\ [Next]_vars => TypeInv'
<1> SUFFICES ASSUME TypeInv, [Next]_vars PROVE TypeInv'
  OBVIOUS
<1>1. CASE UNCHANGED vars
  <2>1. UNCHANGED <<hours, rows, now, calls, offered, told, listed, gone>>
    BY <1>1 DEF vars
  <2> QED
    BY <2>1 DEF TypeInv, TypeOK
<1>2. CASE Next
  <2>1. TypeOK /\ rows' \in Seq(Row) /\ calls' \in [Customers \cup Staff -> CallState]
        /\ \A b \in Customers \cup Staff : CallIsKnown(calls'[b], DOMAIN rows')
    BY <1>2, RowsStep, CallsStep DEF TypeInv
  <2>2. ASSUME NEW a \in Customers \cup Staff, InsertHours(a)
        PROVE  hours' \subseteq Windows /\ listed' \subseteq Instants
    <3>1. calls[a].week \in {{}} \cup Resaved
      BY <2>1 DEF TypeOK, CallState
    <3>2. calls[a].week \subseteq Windows
      BY <3>1, ResavedAssumption
    <3>3. hours' \subseteq Windows
      BY <2>1, <2>2, <3>2 DEF InsertHours, TypeOK
    <3>4. {g.at : g \in SlotGrid'} \subseteq Instants
      <4>1. \A w \in hours' : \A t \in GridOf(w) : t \in Instants
        BY <3>3, GridIsOnGrid
      <4>2. \A g \in SlotGrid' : g.at \in Instants
        BY <4>1 DEF SlotGrid
      <4> QED
        BY <4>2
    <3> QED
      BY <2>1, <2>2, <3>3, <3>4 DEF InsertHours, TypeOK
  <2>3. hours' \subseteq Windows /\ listed' \subseteq Instants
    BY <1>2, <2>1, <2>2 DEF TypeOK, Next, Call, SelectPrevious, SlotLength, WriteBooking, WriteMove, Offer,
       BookAppointment, Form, BookManual, Reschedule, ClearHours, Button, Cancel, Mark, Undo,
       Unblock, BlockTime, Tick, DeleteConversation
  <2>4. now' \in Instants
    BY <1>2, <2>1, ClockAssumption DEF TypeOK, Instants, Next, Call, SelectPrevious, SlotLength,
       WriteBooking, WriteMove, InsertHours, Offer, BookAppointment, Form, BookManual, Reschedule,
       ClearHours, Button, Cancel, Mark, Undo, Unblock, BlockTime, Tick, DeleteConversation
  <2>5. ASSUME NEW c \in Customers, Offer(c) PROVE offered' \in [Customers -> SUBSET Instants]
    <3>1. FreeSlots \subseteq Instants
      BY <2>1, OfferedIsOnGrid, GridTyped DEF TypeOK
    <3> HIDE DEF FreeSlots
    <3> QED
      BY <2>1, <2>5, <3>1 DEF Offer, TypeOK
  <2>6. offered' \in [Customers -> SUBSET Instants]
    BY <1>2, <2>1, <2>5 DEF TypeOK, Next, Call, SelectPrevious, SlotLength, WriteBooking, WriteMove,
       InsertHours, BookAppointment, Form, BookManual, Reschedule, ClearHours, Button, Cancel,
       Mark, Undo, Unblock, BlockTime, Tick, DeleteConversation
  <2>7. ASSUME NEW a \in Customers \cup Staff, WriteBooking(a)
        PROVE  told' \subseteq Customers \X Instants
    <3>1. calls[a] \in CallState /\ (calls[a].op = "assistant" => calls[a].conv \in Customers)
      BY <2>1 DEF TypeInv, TypeOK, CallIsKnown
    <3>2. calls[a].at \in Instants
      BY <3>1 DEF CallState
    <3> QED
      BY <2>1, <2>7, <3>1, <3>2 DEF WriteBooking, TypeOK
  <2>8. told' \subseteq Customers \X Instants
    BY <1>2, <2>1, <2>7 DEF TypeOK, Next, Call, SelectPrevious, SlotLength, WriteMove,
       InsertHours, Offer, BookAppointment, Form, BookManual, Reschedule, ClearHours, Button,
       Cancel, Mark, Undo, Unblock, BlockTime, Tick, DeleteConversation
  <2>9. gone' \subseteq Customers
    BY <1>2, <2>1 DEF TypeOK, Next, Call, SelectPrevious, SlotLength, WriteBooking, WriteMove,
       InsertHours, Offer, BookAppointment, Form, BookManual, Reschedule, ClearHours, Button,
       Cancel, Mark, Undo, Unblock, BlockTime, Tick, DeleteConversation
  <2> QED
    BY <2>1, <2>3, <2>4, <2>6, <2>8, <2>9 DEF TypeInv, TypeOK
<1> QED
  BY <1>1, <1>2

\* Every variable of the diary keeps its type, and a call that moves a row (reschedule_appointment)
\* always has one to move.
THEOREM DiaryTypes == Spec => []TypeOK
<1>1. TypeInv => TypeOK
  BY DEF TypeInv
<1> QED
  BY <1>1, TypeInit, TypeNext, PTL DEF Spec

\* What a row says of its time, of whose it is and of who booked it is never rewritten: a move is
\* another row (0044_lead_edit_and_thread_booking.sql), the buttons set a status only, and a row
\* loses its customer only with the conversation that is deleted (on delete set null, 0041).
THEOREM BookingsAreNeverRewritten == Spec => [][RowsGrow]_vars
<1>1. TypeInv /\ [Next]_vars => [RowsGrow]_vars
  BY RowsStep
<1> QED
  BY <1>1, TypeInit, TypeNext, PTL DEF Spec

-----------------------------------------------------------------------------
(* The record.                                                             *)

Fresh == DOMAIN rows' \ DOMAIN rows

\* A conversation is deleted by DeleteConversation alone.
LEMMA GoneStep ==
    ASSUME Next, ~UNCHANGED gone
    PROVE  \E c \in Customers : DeleteConversation(c)
  BY DEF Next, Call, SelectPrevious, SlotLength, WriteBooking, WriteMove, InsertHours, Offer,
     BookAppointment, Form, BookManual, Reschedule, ClearHours, Button, Cancel, Mark, Undo, Unblock,
     BlockTime, Tick

\* A promise keeps its row, which loses its customer with the conversation.
LEMMA PromiseKept ==
    ASSUME TypeInv, Next, NEW c, NEW t, NEW i \in DOMAIN rows,
           rows[i].source = "assistant", rows[i].at = t,
           rows[i].conv = IF c \in gone THEN Nobody ELSE c
    PROVE  /\ i \in DOMAIN rows' /\ rows'[i].source = "assistant" /\ rows'[i].at = t
           /\ rows'[i].conv = IF c \in gone' THEN Nobody ELSE c
<1>1. i \in DOMAIN rows' /\ SameBooking(rows[i], rows'[i])
  BY RowsStep DEF RowsGrow
<1>2. CASE UNCHANGED gone
  BY <1>1, <1>2 DEF SameBooking
<1>3. CASE ~UNCHANGED gone
  <2>1. PICK d \in Customers : DeleteConversation(d)
    BY <1>3, GoneStep
  <2>2. gone' = gone \cup {d} /\ (rows[i].conv = d => rows'[i].conv = Nobody)
    BY <2>1, DeleteStep DEF TypeInv, DeleteConversation
  <2> QED
    BY <1>1, <2>2 DEF SameBooking
<1> QED
  BY <1>1, <1>2, <1>3 DEF SameBooking

LEMMA PromisesNext ==
    ASSUME TypeInv, PromiseIsOnRecord, Next
    PROVE  PromiseIsOnRecord'
<1> DEFINE Row1(promise) == \E i \in DOMAIN rows' :
               /\ rows'[i].source = "assistant" /\ rows'[i].at = promise[2]
               /\ rows'[i].conv = IF promise[1] \in gone' THEN Nobody ELSE promise[1]
<1>1. ASSUME NEW promise \in told PROVE Row1(promise)
  <2>1. PICK i \in DOMAIN rows :
          /\ rows[i].source = "assistant" /\ rows[i].at = promise[2]
          /\ rows[i].conv = IF promise[1] \in gone THEN Nobody ELSE promise[1]
    BY DEF PromiseIsOnRecord
  <2> QED
    BY <2>1, PromiseKept
<1>2. ASSUME NEW a \in Customers \cup Staff, WriteBooking(a), NEW promise \in told' \ told
      PROVE  Row1(promise)
  <2> DEFINE r == NewRow(calls[a], "assistant", 0)
  <2>1. /\ ~NotInserted(calls[a]) /\ calls[a].op = "assistant"
        /\ promise = <<calls[a].conv, calls[a].at>> /\ rows' = Append(rows, r)
    BY <1>2 DEF WriteBooking
  <2>2. r \in Row /\ r.source = "assistant" /\ r.at = promise[2] /\ r.conv = promise[1]
    BY <1>2, <2>1, NewRowTyped DEF NewRow, WriteBooking
  <2> HIDE DEF r
  <2>3. rows' \in Seq(Row) /\ Len(rows') = Len(rows) + 1 /\ rows'[Len(rows) + 1] = r
    BY <2>1, <2>2, AddRow DEF TypeInv
  <2>4. Len(rows) + 1 \in DOMAIN rows'
    BY <2>3, RowsAre DEF TypeInv, TypeOK
  <2>5. promise[1] \notin gone'
    BY <1>2, <2>1 DEF NotInserted, WriteBooking
  <2> QED
    BY <2>2, <2>3, <2>4, <2>5
<1>3. ASSUME NEW promise \in told' \ told PROVE \E a \in Customers \cup Staff : WriteBooking(a)
  BY <1>3 DEF Next, Call, SelectPrevious, SlotLength, WriteMove, InsertHours, Offer, BookAppointment,
     DeleteConversation, Form, BookManual, Reschedule, ClearHours, Button, Cancel, Mark, Undo,
     Unblock, BlockTime, Tick
<1>4. \A promise \in told' : Row1(promise)
  BY <1>1, <1>2, <1>3
<1> QED
  BY <1>4 DEF PromiseIsOnRecord

\* A step that leaves nothing uncounted but by a Cancel or a row in its place.
LEMMA CountKept ==
    ASSUME CountedUntilCancelled, RowsGrow,
           \A i \in DOMAIN rows :
               rows[i].kind = "appointment" /\ (rows[i].status # "cancelled" \/ rows[i].dropped) =>
                   \/ rows'[i].status # "cancelled"
                   \/ rows'[i].dropped
                   \/ \E j \in Fresh : j > i /\ rows'[j].closed = i /\ rows'[j].source = rows[i].source,
           \A i \in Fresh : rows'[i].kind = "appointment" => rows'[i].status # "cancelled"
    PROVE  CountedUntilCancelled'
<1> SUFFICES ASSUME NEW i \in DOMAIN rows', rows'[i].kind = "appointment"
             PROVE  \/ rows'[i].status # "cancelled" \/ rows'[i].dropped
                    \/ \E j \in DOMAIN rows' : /\ j > i
                                               /\ rows'[j].closed = i /\ rows'[j].source = rows'[i].source
  BY DEF CountedUntilCancelled, Counted, TookItsPlace
<1>1. CASE i \in Fresh
  BY <1>1
<1>2. CASE i \in DOMAIN rows
  <2>1. SameBooking(rows[i], rows'[i])
    BY <1>2 DEF RowsGrow
  <2>2. rows[i].kind = "appointment" /\ rows'[i].source = rows[i].source
    BY <2>1 DEF SameBooking
  <2>3. \/ rows[i].status # "cancelled" \/ rows[i].dropped
        \/ \E j \in DOMAIN rows : j > i /\ rows[j].closed = i /\ rows[j].source = rows[i].source
    BY <1>2, <2>2 DEF CountedUntilCancelled, Counted, TookItsPlace
  <2>4. ASSUME NEW j \in DOMAIN rows, rows[j].closed = i, rows[j].source = rows[i].source
        PROVE  j \in DOMAIN rows' /\ rows'[j].closed = i /\ rows'[j].source = rows'[i].source
    BY <2>2, <2>4 DEF RowsGrow, SameBooking
  <2>5. CASE rows[i].status # "cancelled" \/ rows[i].dropped
    BY <1>2, <2>2, <2>5 DEF Fresh
  <2> QED
    BY <2>3, <2>4, <2>5
<1> QED
  BY <1>1, <1>2 DEF Fresh

LEMMA CountNext ==
    ASSUME TypeInv, CountedUntilCancelled, Next
    PROVE  CountedUntilCancelled'
<1> DEFINE Goal == CountedUntilCancelled'
<1>1. TypeOK /\ RowsGrow
  BY RowsStep DEF TypeInv
<1>2. rows \in Seq(Row) /\ Len(rows) \in Nat /\ DOMAIN rows = 1..Len(rows)
      /\ \A i \in DOMAIN rows : rows[i] \in Row
  BY <1>1, RowsAre DEF TypeOK
<1>3. ASSUME UNCHANGED rows PROVE Goal
  BY <1>3 DEF CountedUntilCancelled, Counted, TookItsPlace
<1>4. ASSUME DOMAIN rows' = DOMAIN rows,
             \A i \in DOMAIN rows : rows[i].kind = "appointment" =>
                 \/ rows'[i].status # "cancelled" \/ rows'[i].dropped
                 \/ rows'[i].status = rows[i].status /\ rows'[i].dropped = rows[i].dropped
      PROVE  Goal
  BY <1>1, <1>4, CountKept DEF Fresh
<1> HIDE DEF Goal
<1>5. ASSUME NEW a \in Customers \cup Staff, WriteBooking(a), ~NotInserted(calls[a]) PROVE Goal
  <2> DEFINE source == IF calls[a].op = "assistant" THEN "assistant" ELSE "person"
             r == NewRow(calls[a], source, 0)
  <2>1. rows' = Append(rows, r) /\ r \in Row /\ r.status = "booked"
    BY <1>5, NewRowTyped DEF WriteBooking, NewRow
  <2> HIDE DEF r
  <2>2. /\ rows' \in Seq(Row) /\ Len(rows') = Len(rows) + 1 /\ rows'[Len(rows) + 1] = r
        /\ \A i \in DOMAIN rows : rows'[i] = rows[i]
    BY <1>1, <2>1, AddRow
  <2>3. Fresh = {Len(rows) + 1}
    BY <1>2, <2>2, RowsAre DEF Fresh
  <2> QED
    BY <1>1, <2>1, <2>2, <2>3, CountKept DEF Goal
<1>6. ASSUME NEW a \in Customers \cup Staff, WriteMove(a), ~NotInserted(calls[a]) PROVE Goal
  <2> DEFINE id == calls[a].id
             closed == IF calls[a].status = "booked" THEN id ELSE 0
             r == NewRow(calls[a], SourceKept(rows[id]), closed)
  <2>1. id \in DOMAIN rows
    BY <1>6 DEF WriteMove, TypeInv, CallIsKnown
  <2>2. SourceKept(rows[id]) \in {"assistant", "person"} /\ id \in Nat /\ closed \in Nat
    BY <1>2, <2>1 DEF SourceKept, Row
  <2>3. rows' = TakeThenClose(id, r)
    BY <1>6 DEF WriteMove
  <2>4. r \in Row /\ r.status = "booked" /\ r.source = rows[id].source /\ r.closed \in {id, 0}
    BY <1>6, <2>2, NewRowTyped DEF WriteMove, NewRow, SourceKept
  <2> HIDE DEF r, id
  <2>5. /\ rows' \in Seq(Row) /\ Len(rows') = Len(rows) + 1 /\ rows'[Len(rows) + 1] = r
        /\ \A i \in DOMAIN rows :
             rows'[i] = IF i = r.closed THEN WithStatus(rows[i], "cancelled") ELSE rows[i]
    BY <1>1, <2>3, <2>4, MoveRow
  <2>6. Fresh = {Len(rows) + 1} /\ \A i \in DOMAIN rows : i # 0 /\ Len(rows) + 1 > i
    BY <1>2, <2>5, RowsAre DEF Fresh
  <2>7. \A i \in DOMAIN rows : i = r.closed => r.source = rows[i].source
    BY <2>4, <2>6
  <2> QED
    BY <1>1, <2>4, <2>5, <2>6, <2>7, CountKept DEF Goal
<1>7. ASSUME NEW id \in DOMAIN rows, Cancel(id) \/ Mark(id) \/ Undo(id) PROVE Goal
  <2>1. /\ DOMAIN rows' = DOMAIN rows
        /\ \A i \in DOMAIN rows \ {id} : rows'[i] = rows[i]
        /\ rows' = rows \/ rows'[id].status # "cancelled" \/ rows'[id].dropped
    BY <1>1, <1>7, ButtonSets, StatusStep
  <2> QED
    BY <1>3, <1>4, <2>1
<1>8. ASSUME NEW id \in DOMAIN rows, Unblock(id) PROVE Goal
  <2>1. DOMAIN rows' = DOMAIN rows /\ \A i \in DOMAIN rows \ {id} : rows'[i] = rows[i]
    BY <1>1, <1>8, UnblockStep
  <2>2. rows[id].kind = "block"
    BY <1>8 DEF Unblock, Shown
  <2> QED
    BY <1>4, <2>1, <2>2
<1>9. ASSUME NEW from \in Edges, NEW to \in Edges, BlockTime(from, to) PROVE Goal
  <2>1. /\ \A i \in DOMAIN rows : rows'[i] = rows[i]
        /\ \A i \in Fresh : \E g \in SlotGrid : rows'[i] = NewBlock(g)
    BY <1>1, <1>9, AddBlocks DEF Fresh
  <2>2. \A g \in SlotGrid : NewBlock(g).kind = "block"
    BY DEF NewBlock
  <2>3. \A i \in Fresh : rows'[i].kind # "appointment"
    BY <2>1, <2>2
  <2> QED
    BY <1>1, <2>1, <2>3, CountKept DEF Goal
<1>10. ASSUME NEW c \in Customers, DeleteConversation(c) PROVE Goal
  BY <1>1, <1>4, <1>10, DeleteStep
<1>11. ASSUME ~UNCHANGED rows PROVE Goal
  BY <1>5, <1>6, <1>7, <1>8, <1>9, <1>10, <1>11 DEF Next, Call, SelectPrevious, SlotLength,
     WriteBooking, WriteMove, InsertHours, Offer, BookAppointment, Form, BookManual, Reschedule,
     ClearHours, Button, Tick
<1> QED
  BY <1>3, <1>11 DEF Goal

LEMMA RecordNext == RecordInv /\ [Next]_vars => RecordInv'
<1> SUFFICES ASSUME RecordInv, [Next]_vars PROVE RecordInv'
  OBVIOUS
<1>1. TypeInv'
  BY TypeNext DEF RecordInv
<1>2. CASE Next
  BY <1>1, <1>2, PromisesNext, CountNext DEF RecordInv
<1>3. CASE UNCHANGED vars
  BY <1>1, <1>3 DEF vars, RecordInv, PromiseIsOnRecord, CountedUntilCancelled, Counted, TookItsPlace
<1> QED
  BY <1>2, <1>3

LEMMA RecordInit == Init => RecordInv
  BY TypeInit DEF Init, RecordInv, PromiseIsOnRecord, CountedUntilCancelled

\* Of the bookings that the screen counts as the assistant's (Diary.tsx), none leaves the count but
\* by a person's Cancel: what a move cancels has a row in its place, taken by the same hands
\* (0044_lead_edit_and_thread_booking.sql), whatever several people press at once.
THEOREM BookingsStayCounted == Spec => []CountedUntilCancelled
<1>1. RecordInv => CountedUntilCancelled
  BY DEF RecordInv
<1> QED
  BY <1>1, RecordInit, RecordNext, PTL DEF Spec

\* A time that a customer was told has the assistant's row, whatever was moved, cancelled or marked
\* since, and whichever of them have been erased (book_appointment, the buttons of Diary.tsx,
\* on delete set null in 0041).
THEOREM PromisesStay == Spec => []PromiseIsOnRecord
<1>1. RecordInv => PromiseIsOnRecord
  BY DEF RecordInv
<1> QED
  BY <1>1, RecordInit, RecordNext, PTL DEF Spec

-----------------------------------------------------------------------------
(* Nobody on top of anybody.                                               *)

AllWindows == Week \cup UNION Resaved
SlotStarts == {t \in Instants : \E w \in AllWindows : t \in GridOf(w)}
Fits(t, len) == \E w \in AllWindows : OnGrid(w, t) /\ len = w.len

\* What the theorem asks of the weeks the owner saves: a slot that any of them
\* may give ends by the next instant at which any of them has one.
SlotsAreSpaced == \A t, u \in SlotStarts : \A w \in AllWindows :
    OnGrid(w, t) /\ t < u => t + w.len <= u

\* Every instant that is shown, asked for or booked starts a slot of some week,
\* and whatever is written is as long as a window on whose grid it lies.
OnSlots(call) == call.op \in {"assistant", "manual", "move"} =>
    call.at \in SlotStarts /\ (call.pc = "write" => Fits(call.at, call.len))
SlotInv ==
    /\ hours \subseteq AllWindows
    /\ listed \subseteq SlotStarts /\ \A c \in Customers : offered[c] \subseteq SlotStarts
    /\ \A a \in Customers \cup Staff : OnSlots(calls[a])
    /\ \A i \in DOMAIN rows : rows[i].at \in SlotStarts /\ Fits(rows[i].at, rows[i].len)

DiaryInv == TypeInv /\ Unique /\ SlotInv

\* A step that adds rows for instants that nobody has, and revives none.
LEMMA UniqueAdd ==
    ASSUME Unique, RowsGrow,
           \A i \in DOMAIN rows : Live(rows'[i]) => Live(rows[i]),
           \A i \in Fresh : ~Conflict(rows'[i].at),
           \A i, j \in Fresh : i # j => rows'[i].at # rows'[j].at
    PROVE  Unique'
<1> SUFFICES ASSUME NEW i \in DOMAIN rows', NEW j \in DOMAIN rows', i # j,
                    Live(rows'[i]), Live(rows'[j])
             PROVE  rows'[i].at # rows'[j].at
  BY DEF Unique, Live
<1>1. \A k \in DOMAIN rows : rows'[k].at = rows[k].at
  BY DEF RowsGrow, SameBooking
<1>2. \A k \in DOMAIN rows, n \in Fresh : Live(rows[k]) => rows[k].at # rows'[n].at
  BY DEF Conflict, Taken
<1>3. CASE i \in DOMAIN rows /\ j \in DOMAIN rows
  BY <1>1, <1>3 DEF Unique
<1>4. CASE i \in DOMAIN rows /\ j \in Fresh
  BY <1>1, <1>2, <1>4
<1>5. CASE i \in Fresh /\ j \in DOMAIN rows
  BY <1>1, <1>2, <1>5
<1>6. CASE i \in Fresh /\ j \in Fresh
  BY <1>6
<1> QED
  BY <1>3, <1>4, <1>5, <1>6 DEF Fresh

LEMMA UniqueNext ==
    ASSUME TypeInv, Unique, Next
    PROVE  Unique'
<1>1. TypeOK /\ RowsGrow
  BY RowsStep DEF TypeInv
<1>2. rows \in Seq(Row) /\ Len(rows) \in Nat /\ DOMAIN rows = 1..Len(rows)
      /\ \A i \in DOMAIN rows : rows[i] \in Row
  BY <1>1, RowsAre DEF TypeOK
<1>3. ASSUME UNCHANGED rows PROVE Unique'
  BY <1>3 DEF Unique
<1>4. ASSUME NEW r \in Row, rows' \in Seq(Row), Len(rows') = Len(rows) + 1,
             rows'[Len(rows) + 1] = r, ~Conflict(r.at),
             \A i \in DOMAIN rows : Live(rows'[i]) => Live(rows[i])
      PROVE  Unique'
  <2>1. DOMAIN rows' = 1..(Len(rows) + 1)
    BY <1>4, RowsAre
  <2>2. Fresh = {Len(rows) + 1}
    BY <1>2, <2>1 DEF Fresh
  <2>3. \A i \in Fresh : ~Conflict(rows'[i].at)
    BY <1>4, <2>2
  <2> QED
    BY <1>1, <1>4, <2>2, <2>3, UniqueAdd
<1>5. ASSUME NEW a \in Customers \cup Staff, WriteBooking(a), ~NotInserted(calls[a]) PROVE Unique'
  <2> DEFINE source == IF calls[a].op = "assistant" THEN "assistant" ELSE "person"
             r == NewRow(calls[a], source, 0)
  <2>1. rows' = Append(rows, r) /\ r \in Row /\ r.at = calls[a].at
    BY <1>5, NewRowTyped DEF WriteBooking, NewRow
  <2> HIDE DEF r
  <2> QED
    BY <1>1, <1>4, <1>5, <2>1, AddRow DEF NotInserted
<1>6. ASSUME NEW a \in Customers \cup Staff, WriteMove(a), ~NotInserted(calls[a]) PROVE Unique'
  <2> DEFINE id == calls[a].id
             closed == IF calls[a].status = "booked" THEN id ELSE 0
             r == NewRow(calls[a], SourceKept(rows[id]), closed)
  <2>1. id \in DOMAIN rows
    BY <1>6 DEF WriteMove, TypeInv, CallIsKnown
  <2>2. SourceKept(rows[id]) \in {"assistant", "person"} /\ id \in Nat /\ closed \in Nat
    BY <1>2, <2>1 DEF SourceKept, Row
  <2>3. rows' = TakeThenClose(id, r)
    BY <1>6 DEF WriteMove
  <2>4. r \in Row /\ r.at = calls[a].at
    BY <1>6, <2>2, NewRowTyped DEF WriteMove, NewRow
  <2> HIDE DEF r, id
  <2>5. /\ rows' \in Seq(Row) /\ Len(rows') = Len(rows) + 1 /\ rows'[Len(rows) + 1] = r
        /\ \A i \in DOMAIN rows :
             rows'[i] = IF i = r.closed THEN WithStatus(rows[i], "cancelled") ELSE rows[i]
    BY <1>1, <2>3, <2>4, MoveRow
  <2>6. \A i \in DOMAIN rows : ~Live(WithStatus(rows[i], "cancelled"))
    BY <1>2, RowFields DEF Statuses, Live
  <2>7. \A i \in DOMAIN rows : Live(rows'[i]) => Live(rows[i])
    BY <2>5, <2>6
  <2> QED
    BY <1>4, <1>6, <2>4, <2>5, <2>7 DEF NotInserted
<1>7. ASSUME NEW id \in DOMAIN rows, Button(id) PROVE Unique'
  <2>1. /\ DOMAIN rows' = DOMAIN rows
        /\ \A i \in DOMAIN rows \ {id} : rows'[i] = rows[i]
        /\ rows'[id].at = rows[id].at
        /\ Live(rows'[id]) => Live(rows[id]) \/ ~Conflict(rows[id].at)
    BY <1>1, <1>7, ButtonSets, StatusStep, UnblockStep DEF Button, SameBooking
  <2> SUFFICES ASSUME NEW i \in DOMAIN rows, NEW j \in DOMAIN rows, i # j,
                      Live(rows'[i]), Live(rows'[j])
               PROVE  rows'[i].at # rows'[j].at
    BY <2>1 DEF Unique, Live
  <2>2. ASSUME NEW k \in DOMAIN rows, k # id, Live(rows'[k]), Live(rows'[id])
        PROVE  rows[k].at # rows[id].at
    BY <2>1, <2>2 DEF Unique, Conflict, Taken
  <2> QED
    BY <2>1, <2>2 DEF Unique
<1>8. ASSUME NEW from \in Edges, NEW to \in Edges, BlockTime(from, to) PROVE Unique'
  <2>1. /\ rows' \in Seq(Row)
        /\ \A i \in DOMAIN rows : rows'[i] = rows[i]
        /\ \A i \in Fresh : \E g \in SlotGrid : ~Conflict(g.at) /\ rows'[i] = NewBlock(g)
        /\ \A i, j \in Fresh : i < j => rows'[i].at # rows'[j].at
    BY <1>1, <1>8, AddBlocks DEF Fresh
  <2>2. \A i \in Fresh : ~Conflict(rows'[i].at)
    <3>1. \A g \in SlotGrid : NewBlock(g).at = g.at
      BY DEF NewBlock
    <3> QED
      BY <2>1, <3>1
  <2>3. Fresh \subseteq Nat
    BY <2>1, RowsAre DEF Fresh
  <2>4. \A i, j \in Fresh : i # j => rows'[i].at # rows'[j].at
    <3> SUFFICES ASSUME NEW i \in Fresh, NEW j \in Fresh, i # j PROVE rows'[i].at # rows'[j].at
      OBVIOUS
    <3>1. i < j \/ j < i
      BY <2>3
    <3> QED
      BY <2>1, <3>1
  <2> QED
    BY <1>1, <2>1, <2>2, <2>4, UniqueAdd
<1>10. ASSUME NEW c \in Customers, DeleteConversation(c) PROVE Unique'
  <2>1. DOMAIN rows' = DOMAIN rows /\ \A i \in DOMAIN rows :
          rows'[i].at = rows[i].at /\ rows'[i].status = rows[i].status
    BY <1>1, <1>10, DeleteStep DEF SameBooking
  <2> QED
    BY <2>1 DEF Unique, Live
<1>9. ASSUME ~UNCHANGED rows PROVE Unique'
  BY <1>5, <1>6, <1>7, <1>8, <1>9, <1>10 DEF Next, Call, SelectPrevious, SlotLength, WriteBooking, WriteMove,
     InsertHours, Offer, BookAppointment, Form, BookManual, Reschedule, ClearHours, Tick
<1> QED
  BY <1>3, <1>9

LEMMA WindowsTyped == AllWindows \subseteq Windows
  BY WeekAssumption, ResavedAssumption DEF AllWindows

\* A grid of the owner's windows starts their slots.
LEMMA GridStarts ==
    ASSUME NEW w \in AllWindows, NEW t \in GridOf(w)
    PROVE  t \in SlotStarts /\ Fits(t, w.len)
  BY WindowsTyped, GridIsOnGrid DEF SlotStarts, Fits

\* Rows that a step leaves, or gives another status, stay on their slots.
LEMMA SlotsOfRows ==
    ASSUME TypeInv, SlotInv, Next
    PROVE  \A i \in DOMAIN rows' : rows'[i].at \in SlotStarts /\ Fits(rows'[i].at, rows'[i].len)
<1> DEFINE Goal == \A i \in DOMAIN rows' : rows'[i].at \in SlotStarts /\ Fits(rows'[i].at, rows'[i].len)
<1>1. TypeOK /\ RowsGrow
  BY RowsStep DEF TypeInv
<1>2. rows \in Seq(Row) /\ Len(rows) \in Nat /\ DOMAIN rows = 1..Len(rows)
      /\ \A i \in DOMAIN rows : rows[i] \in Row
  BY <1>1, RowsAre DEF TypeOK
<1>3. ASSUME \A i \in Fresh : rows'[i].at \in SlotStarts /\ Fits(rows'[i].at, rows'[i].len)
      PROVE  Goal
  <2>1. \A i \in DOMAIN rows : rows'[i].at \in SlotStarts /\ Fits(rows'[i].at, rows'[i].len)
    BY <1>1 DEF RowsGrow, SameBooking, SlotInv
  <2> QED
    BY <1>3, <2>1 DEF Fresh
<1>4. ASSUME DOMAIN rows' = DOMAIN rows PROVE Goal
  BY <1>3, <1>4 DEF Fresh
<1>5. ASSUME NEW r \in Row, rows' \in Seq(Row), Len(rows') = Len(rows) + 1,
             rows'[Len(rows) + 1] = r, r.at \in SlotStarts, Fits(r.at, r.len)
      PROVE  Goal
  <2>1. DOMAIN rows' = 1..(Len(rows) + 1)
    BY <1>5, RowsAre
  <2>2. Fresh = {Len(rows) + 1}
    BY <1>2, <2>1 DEF Fresh
  <2> QED
    BY <1>3, <1>5, <2>2
<1> HIDE DEF Goal
<1>6. ASSUME NEW a \in Customers \cup Staff, WriteBooking(a), ~NotInserted(calls[a]) PROVE Goal
  <2> DEFINE source == IF calls[a].op = "assistant" THEN "assistant" ELSE "person"
             r == NewRow(calls[a], source, 0)
  <2>1. rows' = Append(rows, r) /\ r \in Row /\ r.at = calls[a].at /\ r.len = calls[a].len
    BY <1>6, NewRowTyped DEF WriteBooking, NewRow
  <2>2. calls[a].at \in SlotStarts /\ Fits(calls[a].at, calls[a].len)
    BY <1>6 DEF WriteBooking, SlotInv, OnSlots
  <2> HIDE DEF r
  <2> QED
    BY <1>1, <1>5, <2>1, <2>2, AddRow
<1>7. ASSUME NEW a \in Customers \cup Staff, WriteMove(a), ~NotInserted(calls[a]) PROVE Goal
  <2> DEFINE id == calls[a].id
             closed == IF calls[a].status = "booked" THEN id ELSE 0
             r == NewRow(calls[a], SourceKept(rows[id]), closed)
  <2>1. id \in DOMAIN rows
    BY <1>7 DEF WriteMove, TypeInv, CallIsKnown
  <2>2. SourceKept(rows[id]) \in {"assistant", "person"} /\ id \in Nat /\ closed \in Nat
    BY <1>2, <2>1 DEF SourceKept, Row
  <2>3. rows' = TakeThenClose(id, r)
    BY <1>7 DEF WriteMove
  <2>4. r \in Row /\ r.at = calls[a].at /\ r.len = calls[a].len
    BY <1>7, <2>2, NewRowTyped DEF WriteMove, NewRow
  <2>5. calls[a].at \in SlotStarts /\ Fits(calls[a].at, calls[a].len)
    BY <1>7 DEF WriteMove, SlotInv, OnSlots
  <2> HIDE DEF r, id
  <2>6. rows' \in Seq(Row) /\ Len(rows') = Len(rows) + 1 /\ rows'[Len(rows) + 1] = r
    BY <1>1, <2>3, <2>4, MoveRow
  <2> QED
    BY <1>5, <2>4, <2>5, <2>6
<1>8. ASSUME NEW id \in DOMAIN rows, Button(id) PROVE Goal
  <2>1. DOMAIN rows' = DOMAIN rows
    BY <1>1, <1>8, ButtonSets, StatusStep, UnblockStep DEF Button
  <2> QED
    BY <1>4, <2>1
<1>9. ASSUME NEW from \in Edges, NEW to \in Edges, BlockTime(from, to) PROVE Goal
  <2>1. \A i \in DOMAIN rows' \ DOMAIN rows :
          \E g \in SlotGrid : ~Conflict(g.at) /\ rows'[i] = NewBlock(g)
    BY <1>1, <1>9, AddBlocks
  <2>2. ASSUME NEW g \in SlotGrid
        PROVE  /\ NewBlock(g).at \in SlotStarts
               /\ Fits(NewBlock(g).at, NewBlock(g).len)
    <3>1. PICK w \in hours : g.at \in GridOf(w) /\ g.len = w.len
      BY <1>1, GridFits
    <3>2. w \in AllWindows
      BY DEF SlotInv
    <3>3. g.at \in SlotStarts /\ Fits(g.at, g.len)
      BY <3>1, <3>2, GridStarts
    <3>4. NewBlock(g).at = g.at /\ NewBlock(g).len = g.len
      BY DEF NewBlock
    <3> QED
      BY <3>3, <3>4
  <2>3. ASSUME NEW i \in Fresh
        PROVE  rows'[i].at \in SlotStarts /\ Fits(rows'[i].at, rows'[i].len)
    <3>1. PICK g \in SlotGrid : rows'[i] = NewBlock(g)
      BY <2>1 DEF Fresh
    <3> QED
      BY <2>2, <3>1
  <2> QED
    BY <1>3, <2>3
<1>11. ASSUME NEW c \in Customers, DeleteConversation(c) PROVE Goal
  BY <1>1, <1>4, <1>11, DeleteStep
<1>10. ASSUME ~UNCHANGED rows PROVE Goal
  BY <1>6, <1>7, <1>8, <1>9, <1>10, <1>11 DEF Next, Call, SelectPrevious, SlotLength, WriteBooking, WriteMove,
     InsertHours, Offer, BookAppointment, Form, BookManual, Reschedule, ClearHours, Tick
<1> QED
  BY <1>4, <1>10 DEF Goal

\* What is in flight, offered and listed stays on the slots too.
LEMMA SlotsOfCalls ==
    ASSUME TypeInv, SlotInv, Next
    PROVE  \A a \in Customers \cup Staff : OnSlots(calls'[a])
<1> DEFINE Goal == \A a \in Customers \cup Staff : OnSlots(calls'[a])
<1>1. TypeOK /\ hours \subseteq AllWindows /\ listed \subseteq SlotStarts
      /\ (\A c \in Customers : offered[c] \subseteq SlotStarts)
      /\ \A a \in Customers \cup Staff : OnSlots(calls[a])
  BY DEF TypeInv, SlotInv
<1>2. ASSUME NEW a \in Customers \cup Staff, NEW r, OnSlots(r), calls' = [calls EXCEPT ![a] = r]
      PROVE  Goal
  BY <1>1, <1>2 DEF TypeOK
<1>3. ASSUME UNCHANGED calls PROVE Goal
  BY <1>1, <1>3
<1> HIDE DEF Goal
<1>4. ASSUME NEW a \in Customers \cup Staff, Return(a) PROVE Goal
  BY <1>2, <1>4 DEF Return, OnSlots, IdleCall
<1>5. ASSUME NEW a \in Customers \cup Staff, SelectPrevious(a), ~Return(a) PROVE Goal
  <2> DEFINE r == [calls[a] EXCEPT !.pc = "length", !.status = rows[calls[a].id].status,
                                   !.conv = rows[calls[a].id].conv]
  <2>1. calls[a] \in CallState /\ OnSlots(calls[a])
    BY <1>1 DEF TypeOK
  <2>2. calls' = [calls EXCEPT ![a] = r]
    BY <1>1, <1>5, <2>1 DEF SelectPrevious, TypeOK, CallState
  <2>3. r.pc = "length" /\ r.op = calls[a].op /\ r.at = calls[a].at
    BY <2>1 DEF CallState
  <2> HIDE DEF r
  <2> QED
    BY <1>2, <2>1, <2>2, <2>3 DEF OnSlots
<1>6. ASSUME NEW a \in Customers \cup Staff, SlotLength(a), ~Return(a) PROVE Goal
  <2>1. PICK len \in SlotLengths(calls[a].at) :
          calls' = [calls EXCEPT ![a].pc = "write", ![a].len = len]
    BY <1>6 DEF SlotLength
  <2> DEFINE r == [calls[a] EXCEPT !.pc = "write", !.len = len]
  <2>2. calls[a] \in CallState /\ OnSlots(calls[a])
    BY <1>1 DEF TypeOK
  <2>3. calls' = [calls EXCEPT ![a] = r]
    BY <1>1, <2>1, <2>2 DEF TypeOK, CallState
  <2>4. r.pc = "write" /\ r.op = calls[a].op /\ r.at = calls[a].at /\ r.len = len
    BY <2>2 DEF CallState
  <2>5. Fits(calls[a].at, len)
    BY <1>1 DEF SlotLengths, Fits
  <2> HIDE DEF r
  <2> QED
    BY <1>2, <2>2, <2>3, <2>4, <2>5 DEF OnSlots
<1>7. ASSUME NEW a \in Customers \cup Staff, WriteBooking(a) \/ WriteMove(a) \/ InsertHours(a)
      PROVE  Goal
  BY <1>4, <1>7 DEF WriteBooking, WriteMove, InsertHours
<1>8. ASSUME NEW c \in Customers, BookAppointment(c) PROVE Goal
  <2>1. PICK at \in offered[c] :
          calls' = IF at <= now THEN calls
                   ELSE [calls EXCEPT ![c] = [IdleCall EXCEPT !.pc = "length", !.op = "assistant",
                                                              !.at = at, !.conv = c]]
    BY <1>8 DEF BookAppointment
  <2> DEFINE r == [IdleCall EXCEPT !.pc = "length", !.op = "assistant", !.at = at, !.conv = c]
  <2>2. r.pc = "length" /\ r.at = at
    BY DEF IdleCall
  <2>3. calls' = calls \/ calls' = [calls EXCEPT ![c] = r]
    BY <2>1
  <2> HIDE DEF r
  <2> QED
    BY <1>1, <1>2, <1>3, <2>2, <2>3 DEF OnSlots
<1>9. ASSUME NEW s \in Staff, BookManual(s) PROVE Goal
  <2>1. PICK at \in listed, conv \in Customers \cup {Nobody} :
          Ask(s, [IdleCall EXCEPT !.pc = "length", !.op = "manual", !.at = at, !.conv = conv])
    BY <1>9 DEF BookManual
  <2> DEFINE r == [IdleCall EXCEPT !.pc = "length", !.op = "manual", !.at = at, !.conv = conv]
  <2>2. r.pc = "length" /\ r.at = at
    BY DEF IdleCall
  <2>3. calls' = [calls EXCEPT ![s] = r]
    BY <2>1 DEF Ask
  <2> HIDE DEF r
  <2> QED
    BY <1>1, <1>2, <2>2, <2>3 DEF OnSlots
<1>10. ASSUME NEW s \in Staff, Reschedule(s) PROVE Goal
  <2>1. PICK id \in DOMAIN rows, at \in listed :
          Ask(s, [IdleCall EXCEPT !.pc = "select", !.op = "move", !.id = id, !.at = at])
    BY <1>10 DEF Reschedule
  <2> DEFINE r == [IdleCall EXCEPT !.pc = "select", !.op = "move", !.id = id, !.at = at]
  <2>2. r.pc = "select" /\ r.at = at
    BY DEF IdleCall
  <2>3. calls' = [calls EXCEPT ![s] = r]
    BY <2>1 DEF Ask
  <2> HIDE DEF r
  <2> QED
    BY <1>1, <1>2, <2>2, <2>3 DEF OnSlots
<1>11. ASSUME NEW s \in Staff, ClearHours(s) PROVE Goal
  <2>1. PICK week \in Resaved :
          Ask(s, [IdleCall EXCEPT !.pc = "write", !.op = "hours", !.week = week])
    BY <1>11 DEF ClearHours
  <2> DEFINE r == [IdleCall EXCEPT !.pc = "write", !.op = "hours", !.week = week]
  <2>2. r.op = "hours" /\ calls' = [calls EXCEPT ![s] = r]
    BY <2>1 DEF Ask, IdleCall
  <2> HIDE DEF r
  <2> QED
    BY <1>2, <2>2 DEF OnSlots
<1>12. ASSUME ~UNCHANGED calls PROVE Goal
  BY <1>4, <1>5, <1>6, <1>7, <1>8, <1>9, <1>10, <1>11, <1>12 DEF Next, Call, Offer,
     DeleteConversation, Form, Button, Cancel, Mark, Undo, Unblock, BlockTime, Tick
<1> QED
  BY <1>3, <1>12 DEF Goal

LEMMA SlotsNext ==
    ASSUME TypeInv, SlotInv, Next
    PROVE  SlotInv'
<1>1. TypeOK /\ hours \subseteq AllWindows /\ listed \subseteq SlotStarts
      /\ (\A c \in Customers : offered[c] \subseteq SlotStarts)
  BY DEF TypeInv, SlotInv
<1>2. ASSUME NEW a \in Customers \cup Staff, InsertHours(a)
      PROVE  hours' \subseteq AllWindows /\ listed' \subseteq SlotStarts
  <2>1. calls[a].week \in {{}} \cup Resaved
    BY <1>1 DEF TypeOK, CallState
  <2>2. hours' \subseteq AllWindows
    BY <1>1, <1>2, <2>1 DEF InsertHours, AllWindows
  <2>3. \A w \in hours' : \A t \in GridOf(w) : t \in SlotStarts
    BY <2>2, GridStarts
  <2>4. \A g \in SlotGrid' : g.at \in SlotStarts
    BY <2>3 DEF SlotGrid
  <2> QED
    BY <1>1, <1>2, <2>2, <2>4 DEF InsertHours
<1>3. hours' \subseteq AllWindows /\ listed' \subseteq SlotStarts
  BY <1>1, <1>2 DEF Next, Call, SelectPrevious, SlotLength, WriteBooking, WriteMove, Offer,
     BookAppointment, Form, BookManual, Reschedule, ClearHours, Button, Cancel, Mark, Undo,
     Unblock, BlockTime, Tick, DeleteConversation
<1>4. ASSUME NEW c \in Customers, Offer(c) PROVE \A d \in Customers : offered'[d] \subseteq SlotStarts
  <2>1. \A w \in hours : \A t \in GridOf(w) : t \in SlotStarts
    BY <1>1, GridStarts
  <2>2. \A g \in SlotGrid : g.at \in SlotStarts
    BY <2>1 DEF SlotGrid
  <2>3. FreeSlots \subseteq SlotStarts
    BY <2>2, OfferedIsOnGrid
  <2> HIDE DEF FreeSlots
  <2> QED
    BY <1>1, <1>4, <2>3 DEF Offer, TypeOK
<1>5. ASSUME NEW c \in Customers, BookAppointment(c)
      PROVE  \A d \in Customers : offered'[d] \subseteq SlotStarts
  BY <1>1, <1>5 DEF BookAppointment, TypeOK
<1>6. \A d \in Customers : offered'[d] \subseteq SlotStarts
  BY <1>1, <1>4, <1>5 DEF Next, Call, SelectPrevious, SlotLength, WriteBooking, WriteMove, InsertHours,
     Form, BookManual, Reschedule, ClearHours, Button, Cancel, Mark, Undo, Unblock, BlockTime, Tick,
     DeleteConversation
<1> QED
  BY <1>3, <1>6, SlotsOfRows, SlotsOfCalls DEF SlotInv

LEMMA DiaryNext == DiaryInv /\ [Next]_vars => DiaryInv'
<1> SUFFICES ASSUME DiaryInv, [Next]_vars PROVE DiaryInv'
  OBVIOUS
<1>1. CASE Next
  BY <1>1, TypeNext, UniqueNext, SlotsNext DEF DiaryInv
<1>2. CASE UNCHANGED vars
  <2>1. UNCHANGED <<hours, rows, now, calls, offered, told, listed, gone>>
    BY <1>2 DEF vars
  <2>2. TypeInv'
    BY TypeNext DEF DiaryInv
  <2> QED
    BY <2>1, <2>2 DEF DiaryInv, Unique, SlotInv
<1> QED
  BY <1>1, <1>2

LEMMA DiaryInit == Init => DiaryInv
<1> SUFFICES ASSUME Init PROVE DiaryInv
  OBVIOUS
<1>1. hours = Week /\ hours \subseteq AllWindows
  BY DEF Init, AllWindows
<1>2. \A w \in hours : \A t \in GridOf(w) : t \in SlotStarts
  BY <1>1, GridStarts
<1>3. \A g \in SlotGrid : g.at \in SlotStarts
  BY <1>2 DEF SlotGrid
<1>4. SlotInv
  BY <1>1, <1>3 DEF Init, SlotInv, OnSlots, IdleCall
<1>5. Unique
  BY DEF Init, Unique
<1> QED
  BY <1>4, <1>5, TypeInit DEF DiaryInv

\* Two that hold different slots of spaced weeks do not overlap.
LEMMA SpacedApart ==
    ASSUME SlotsAreSpaced, DiaryInv
    PROVE  NoOverlap
<1> SUFFICES ASSUME NEW i \in DOMAIN rows, NEW j \in DOMAIN rows, i < j, Live(rows[i]), Live(rows[j])
             PROVE  rows[i].at + rows[i].len <= rows[j].at \/ rows[j].at + rows[j].len <= rows[i].at
  BY DEF NoOverlap
<1>1. \A k \in DOMAIN rows : k \in Nat
  BY RowsAre DEF DiaryInv, TypeInv, TypeOK
<1>2. rows[i].at # rows[j].at
  BY <1>1 DEF DiaryInv, Unique
<1>3. rows[i].at \in Int /\ rows[j].at \in Int
  BY DiaryBounds DEF DiaryInv, SlotInv, SlotStarts, Instants
<1>4. ASSUME NEW k \in DOMAIN rows, NEW n \in DOMAIN rows, rows[k].at < rows[n].at
      PROVE  rows[k].at + rows[k].len <= rows[n].at
  BY <1>4 DEF DiaryInv, SlotInv, SlotsAreSpaced, Fits
<1> QED
  BY <1>2, <1>3, <1>4

\* Nobody is booked on top of anybody, although appointments_slot_idx compares starts only,
\* whatever is offered, booked by hand, moved, blocked, cancelled, brought back or saved over
\* meanwhile: as long as the weeks the owner saves are spaced.
THEOREM NobodyOnTop ==
    ASSUME SlotsAreSpaced
    PROVE  Spec => []NoOverlap
<1>1. DiaryInv => NoOverlap
  BY SpacedApart
<1> QED
  BY <1>1, DiaryInit, DiaryNext, PTL DEF Spec

\* No instant is held by two rows, whatever weeks are saved (appointments_slot_idx, and every
\* function that inserts or brings a row back).
THEOREM HeldOnce == Spec => []Unique
<1>1. DiaryInv => Unique
  BY DEF DiaryInv
<1> QED
  BY <1>1, DiaryInit, DiaryNext, PTL DEF Spec

-----------------------------------------------------------------------------
(* Weeks whose slots are spaced.                                           *)

LEMMA Multiple ==
    ASSUME NEW len \in Nat \ {0}, NEW a \in Nat, a % len = 0
    PROVE  \E p \in Int : a = len * p
<1>1. a \div len \in Int /\ a = len * (a \div len) + (a % len)
  OBVIOUS
<1> QED
  BY <1>1

LEMMA NextMultiple ==
    ASSUME NEW len \in Nat \ {0}, NEW p \in Int, NEW q \in Int, len * p < len * q
    PROVE  len * p + len <= len * q
<1>1. p < q
  OBVIOUS
<1>2. len * (p + 1) <= len * q
  BY <1>1
<1> QED
  BY <1>2

\* An instant on the grid of a window is so many slots past its opening.
LEMMA OnGridIsMultiple ==
    ASSUME NEW w \in Windows, NEW t \in GridOf(w)
    PROVE  /\ w.len \in Nat \ {0} /\ w.opens \in Nat /\ w.closes \in Nat
           /\ t \in Nat /\ w.opens <= t /\ t + w.len <= w.closes
           /\ \E p \in Int : t = w.opens + w.len * p
<1>1. w.len \in Nat \ {0} /\ w.opens \in Nat /\ w.closes \in Nat
  BY DiaryBounds DEF Windows, Instants
<1>2. t \in Nat /\ w.opens <= t /\ t + w.len <= w.closes /\ (t - w.opens) % w.len = 0
  BY <1>1 DEF GridOf
<1> DEFINE past == t - w.opens
<1>3. past \in Nat /\ past % w.len = 0
  BY <1>1, <1>2
<1>4. t = w.opens + past
  BY <1>1, <1>2
<1> HIDE DEF past
<1>5. PICK p \in Int : past = w.len * p
  BY <1>1, <1>3, Multiple
<1> QED
  BY <1>1, <1>2, <1>4, <1>5

\* The windows that the owner ever saves are the same or apart.
WindowsAreApart == \A v, w \in AllWindows :
    v = w \/ v.closes <= w.opens \/ w.closes <= v.opens

\* The windows that the owner ever saves have slots of one length, on one grid.
WindowsAreAligned == \E len \in Nat \ {0}, offset \in Nat :
    \A w \in AllWindows : w.len = len /\ w.opens % len = offset

\* Closing for the afternoon, or opening again in the windows there were, keeps the slots apart.
THEOREM ApartIsSpaced == WindowsAreApart => SlotsAreSpaced
<1> SUFFICES ASSUME WindowsAreApart, NEW t \in SlotStarts, NEW u \in SlotStarts,
                    NEW w \in AllWindows, OnGrid(w, t), t < u
             PROVE  t + w.len <= u
  BY DEF SlotsAreSpaced
<1>1. PICK v \in AllWindows : t \in GridOf(v)
  BY DEF SlotStarts
<1>2. PICK x \in AllWindows : u \in GridOf(x)
  BY DEF SlotStarts
<1>3. /\ v.len \in Nat \ {0} /\ v.opens \in Nat /\ v.closes \in Nat
      /\ t \in Nat /\ v.opens <= t /\ t + v.len <= v.closes
  BY <1>1, WindowsTyped, OnGridIsMultiple
<1>4. /\ x.len \in Nat \ {0} /\ x.opens \in Nat /\ x.closes \in Nat
      /\ u \in Nat /\ x.opens <= u /\ u + x.len <= x.closes
  BY <1>2, WindowsTyped, OnGridIsMultiple
<1>5. w.opens \in Nat /\ w.closes \in Nat /\ w.opens <= t /\ t < w.closes
  BY WindowsTyped, DiaryBounds DEF OnGrid, Windows, Instants
<1>6. v = w
  BY <1>3, <1>5 DEF WindowsAreApart
<1>7. CASE x = w
  <2>1. PICK p \in Int : t = w.opens + w.len * p
    BY <1>1, <1>6, WindowsTyped, OnGridIsMultiple
  <2>2. PICK q \in Int : u = w.opens + w.len * q
    BY <1>2, <1>7, WindowsTyped, OnGridIsMultiple
  <2>3. w.len \in Nat \ {0} /\ w.len * p \in Int /\ w.len * q \in Int
    BY <1>3, <1>6
  <2>4. w.len * p < w.len * q
    BY <1>5, <2>1, <2>2, <2>3
  <2>5. w.len * p + w.len <= w.len * q
    BY <2>3, <2>4, NextMultiple
  <2> QED
    BY <1>5, <2>1, <2>2, <2>3, <2>5
<1>8. CASE x # w
  BY <1>3, <1>4, <1>5, <1>6, <1>8 DEF WindowsAreApart
<1> QED
  BY <1>7, <1>8

\* Opening earlier or later by whole slots keeps them apart too.
THEOREM AlignedIsSpaced == WindowsAreAligned => SlotsAreSpaced
<1> SUFFICES ASSUME WindowsAreAligned, NEW t \in SlotStarts, NEW u \in SlotStarts,
                    NEW w \in AllWindows, OnGrid(w, t), t < u
             PROVE  t + w.len <= u
  BY DEF SlotsAreSpaced
<1>1. PICK len \in Nat \ {0}, offset \in Nat :
        \A v \in AllWindows : v.len = len /\ v.opens % len = offset
  BY DEF WindowsAreAligned
<1>2. ASSUME NEW i \in SlotStarts
      PROVE  i \in Nat /\ \E p \in Int : i = offset + len * p
  <2>1. PICK v \in AllWindows : i \in GridOf(v)
    BY DEF SlotStarts
  <2>2. v.opens \in Nat /\ i \in Nat /\ v.len = len /\ v.opens % len = offset
    BY <1>1, <2>1, WindowsTyped, OnGridIsMultiple
  <2>3. PICK p \in Int : i = v.opens + len * p
    BY <2>1, <2>2, WindowsTyped, OnGridIsMultiple
  <2> DEFINE q == v.opens \div len
  <2>4. q \in Int /\ v.opens = len * q + offset
    BY <1>1, <2>2
  <2> HIDE DEF q
  <2>5. len * (p + q) = len * p + len * q /\ p + q \in Int
    BY <2>3, <2>4
  <2>6. i = offset + len * (p + q)
    BY <1>1, <2>2, <2>3, <2>4, <2>5
  <2> QED
    BY <2>2, <2>5, <2>6
<1>3. PICK p \in Int : t = offset + len * p
  BY <1>2
<1>4. PICK q \in Int : u = offset + len * q
  BY <1>2
<1>5. len * p \in Int /\ len * q \in Int
  BY <1>1
<1>6. len * p < len * q
  BY <1>1, <1>3, <1>4, <1>5
<1>7. len * p + len <= len * q
  BY <1>6, NextMultiple
<1> QED
  BY <1>1, <1>3, <1>4, <1>5, <1>7
=============================================================================
