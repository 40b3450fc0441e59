------------------------------ MODULE MCDiary ------------------------------
(* Values for Diary's constants.  The unit of time is half an hour.        *)
EXTENDS Diary

CONSTANTS c1, c2, s1, s2

\* A morning whose closing is no multiple of the slot, and an afternoon.
Morning == [opens |-> 0, closes |-> 3, len |-> 2]
Afternoon == [opens |-> 3, closes |-> 7, len |-> 2]
SplitDay == {Morning, Afternoon}
MorningOnly == {Morning}
\* The same day, opening half an hour later.
LaterDay == {[opens |-> 1, closes |-> 3, len |-> 2]}
Narrowed == {MorningOnly}
Breaks == {0, 3}
NoShow == {"no_show"}
TwoTimes == {0, 4}
OneWeek == {LaterDay}
=============================================================================
