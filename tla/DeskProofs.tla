----------------------------- MODULE DeskProofs -----------------------------
(***************************************************************************)
(* The desk and the thread (Desk.tla), for any number of customers, of     *)
(* reads under way, of moves and of faults: the desk types, an erasure is  *)
(* for the customer whose thread both clicks were made in, and a desk at   *)
(* rest lists who waits, but for what no event has told it.                *)
(***************************************************************************)
EXTENDS Desk, TLAPS

-----------------------------------------------------------------------------
(* Types, by the parts that change together.                               *)

RowsOK == /\ state \in [Conversations -> States \cup {Gone}]
          /\ flags \subseteq Conversations /\ raising \subseteq Conversations
DeskOK == /\ queue \subseteq Conversations /\ loadError \in BOOLEAN /\ overtaken \in BOOLEAN
          /\ loads \in Seq(Reads) /\ Len(loads) <= MaxLoads
EventsOK == timer \in BOOLEAN /\ lost \subseteq Conversations /\ silent \subseteq Conversations
ThreadOK == /\ open \in Conversations \cup {None}
            /\ list \in [Conversations -> States \cup {Gone}]
            /\ optimistic \in {None, "bot", "human"} /\ confirm \in BOOLEAN
            /\ armedFor \in Conversations \cup {None} /\ call \in Calls \cup {NoCall}
            /\ ~Mounted(open, list) => optimistic = None /\ ~confirm /\ ~call.live
JumpOK == jump \in [of : Conversations \cup {None}, seen : States \cup {Gone}]
FaultsOK == faults \in 0..MaxFaults

LEMMA Parts ==
    TypeOK <=> /\ RowsOK /\ DeskOK /\ EventsOK /\ ThreadOK /\ JumpOK /\ FaultsOK
               /\ spent \in 0..MaxEvents
BY DEF TypeOK, RowsOK, DeskOK, EventsOK, ThreadOK, JumpOK, FaultsOK

LEMMA PartsNext ==
    TypeOK' <=> /\ RowsOK' /\ DeskOK' /\ EventsOK' /\ ThreadOK' /\ JumpOK' /\ FaultsOK'
                /\ spent' \in 0..MaxEvents
BY DEF TypeOK, RowsOK, DeskOK, EventsOK, ThreadOK, JumpOK, FaultsOK

LEMMA TypeInit == Init => TypeOK
<1> SUFFICES ASSUME Init PROVE TypeOK
  OBVIOUS
<1>1. RowsOK
  BY DEF Init, RowsOK, States
<1>2. loads \in Seq(Reads) /\ Len(loads) = 0
  BY DEF Init
<1>3. DeskOK
  <2>1. Waiting(state, flags) \subseteq Conversations
    BY DEF Waiting
  <2>2. 0 <= MaxLoads
    BY DeskAssumption
  <2> QED
    BY <1>2, <2>1, <2>2 DEF Init, DeskOK
<1>4. EventsOK
  BY DEF Init, EventsOK
<1>5. call = NoCall /\ ~call.live
  BY DEF Init, NoCall
<1>6. ThreadOK
  BY <1>1, <1>5 DEF Init, ThreadOK, RowsOK
<1>7. JumpOK
  BY DEF Init, JumpOK, NoJump
<1>8. FaultsOK /\ spent \in 0..MaxEvents
  BY DeskAssumption DEF Init, FaultsOK
<1> QED
  BY <1>1, <1>3, <1>4, <1>6, <1>7, <1>8, Parts

LEMMA CostType == ASSUME FaultsOK, NEW n \in Nat, Cost(n) PROVE FaultsOK'
BY DeskAssumption DEF FaultsOK, Cost

LEMMA FailsType == ASSUME FaultsOK, Works \/ Fails PROVE FaultsOK'
BY CostType DEF Works, Fails

\* What is told of a conversation, or not told.
LEMMA ToldType ==
    ASSUME EventsOK, FaultsOK, NEW c \in Conversations, NEW n \in {0, 1}, Told(c, n)
    PROVE  EventsOK' /\ FaultsOK'
<1>1. FaultsOK'
  BY CostType, n \in Nat /\ n + 1 \in Nat DEF Told
<1>2. timer' \in BOOLEAN
  BY DEF Told, Settle, EventsOK
<1> QED
  BY <1>1, <1>2 DEF Told, EventsOK

LEMMA DeletedType ==
    ASSUME RowsOK, EventsOK, NEW c \in Conversations, Deleted(c), UNCHANGED raising
    PROVE  RowsOK' /\ EventsOK'
<1>1. RowsOK'
  BY DEF Deleted, RowsOK
<1>2. timer' \in BOOLEAN
  BY DEF Deleted, Settle, EventsOK
<1> QED
  BY <1>1, <1>2 DEF Deleted, EventsOK

\* The thread, whatever becomes of it.
LEMMA ShowType ==
    ASSUME ThreadOK, NEW o \in Conversations \cup {None},
           NEW l \in [Conversations -> States \cup {Gone}], Show(o, l)
    PROVE  ThreadOK'
<1>1. open' = o /\ list' = l
  BY DEF Show
<1>2. confirm' \in BOOLEAN
  BY DEF Show, OnSwitch, ThreadOK
<1>3. optimistic' \in {None, "bot", "human"} /\ armedFor' \in Conversations \cup {None}
  BY DEF Show, ThreadOK
<1>4. call' \in Calls \cup {NoCall}
  <2>1. call' = call \/ call' = [call EXCEPT !.live = FALSE]
    BY DEF Show
  <2>2. [NoCall EXCEPT !.live = FALSE] = NoCall
    <3>1. NoCall \in [kind : {None}, of : {None}, pc : {"asked"}, live : {FALSE}]
      BY DEF NoCall
    <3> HIDE DEF NoCall
    <3>2. [NoCall EXCEPT !.live = FALSE]
            \in [kind : {None}, of : {None}, pc : {"asked"}, live : {FALSE}]
      BY <3>1
    <3>3. ASSUME NEW q \in [kind : {None}, of : {None}, pc : {"asked"}, live : {FALSE}]
          PROVE  q = NoCall
      <4>1. q = [kind |-> q.kind, of |-> q.of, pc |-> q.pc, live |-> q.live]
        OBVIOUS
      <4>2. q.kind = None /\ q.of = None /\ q.pc = "asked" /\ q.live = FALSE
        OBVIOUS
      <4> QED
        BY <4>1, <4>2 DEF NoCall
    <3> QED
      BY <3>2, <3>3
  <2>3. ASSUME call \in Calls PROVE [call EXCEPT !.live = FALSE] \in Calls
    BY <2>3 DEF Calls
  <2> QED
    BY <2>1, <2>2, <2>3 DEF ThreadOK
<1>5. ASSUME ~Mounted(o, l) PROVE optimistic' = None /\ ~confirm' /\ ~call'.live
  BY <1>5 DEF Show, ThreadOK, Calls, NoCall
<1> HIDE DEF Show
<1> QED
  BY <1>1, <1>2, <1>3, <1>4, <1>5 DEF ThreadOK, Mounted

\* A read more is still a sequence of reads, no longer than may be.
LEMMA StartLoadType ==
    ASSUME RowsOK, DeskOK, StartLoad
    PROVE  /\ loads' \in Seq(Reads) /\ Len(loads') <= MaxLoads
           /\ lost' = {} /\ silent' = {}
BY DeskAssumption DEF RowsOK, DeskOK, StartLoad, Reads

\* What an answered read leaves of those under way.
LEMMA Answered ==
    ASSUME DeskOK, NEW i \in 1..Len(loads), ApplyLoad(i)
    PROVE  /\ loads' \in Seq(Reads) /\ Len(loads') = Len(loads) - 1
           /\ \A j \in 1..Len(loads) - 1 :
                 loads'[j] = IF j < i THEN [loads[j] EXCEPT !.behind = TRUE] ELSE loads[j + 1]
<1> DEFINE n == Len(loads) - 1
           left == [j \in 1..n |-> IF j < i THEN [loads[j] EXCEPT !.behind = TRUE] ELSE loads[j + 1]]
<1>1. n \in Nat /\ loads \in Seq(Reads)
  BY DEF DeskOK
<1>2. ASSUME NEW j \in 1..n PROVE left[j] \in Reads
  <2>1. loads[j] \in Reads /\ loads[j + 1] \in Reads
    BY <1>1
  <2> QED
    BY <2>1 DEF Reads
<1>3. loads' = left
  BY DEF ApplyLoad
<1> HIDE DEF n
<1>4. left \in [1..n -> Reads]
  BY <1>2
<1> HIDE DEF left
<1>5. left \in Seq(Reads) /\ Len(left) = n
  BY <1>1, <1>4
<1> QED
  BY <1>3, <1>5 DEF n, left

LEMMA TypeEvent == ASSUME TypeOK, Event, spent' \in 0..MaxEvents PROVE TypeOK'
<1> USE Parts, PartsNext
<1>1. ASSUME NEW c \in Conversations, Open(c) PROVE TypeOK'
  <2>1. ThreadOK'
    BY <1>1, ShowType DEF Open, ThreadOK
  <2> QED
    BY <1>1, <2>1 DEF Open, RowsOK, DeskOK, EventsOK, JumpOK, FaultsOK, rows, desk, events
<1>2. ASSUME NEW c \in Conversations, JumpTo(c) PROVE TypeOK'
  <2>1. ThreadOK'
    BY <1>2, ShowType DEF JumpTo, ThreadOK
  <2>2. JumpOK'
    BY <1>2 DEF JumpTo, JumpOK, RowsOK
  <2> QED
    BY <1>2, <2>1, <2>2 DEF JumpTo, RowsOK, DeskOK, EventsOK, FaultsOK, rows, desk, events
<1>3. ASSUME NEW c \in Conversations, NEW s \in States, Move(c, s) PROVE TypeOK'
  <2>1. RowsOK'
    BY <1>3 DEF Move, RowsOK
  <2>2. EventsOK' /\ FaultsOK'
    BY <1>3, ToldType DEF Move
  <2> QED
    BY <1>3, <2>1, <2>2 DEF Move, DeskOK, JumpOK, ThreadOK, Mounted, desk, thread
<1>4. ASSUME NEW c \in Conversations, Delete(c) PROVE TypeOK'
  <2>1. RowsOK' /\ EventsOK'
    BY <1>4, DeletedType DEF Delete
  <2>2. FaultsOK'
    BY <1>4, FailsType DEF Delete
  <2> QED
    BY <1>4, <2>1, <2>2 DEF Delete, DeskOK, JumpOK, ThreadOK, Mounted, desk, thread
<1>5. ASSUME NEW c \in Conversations, Raise(c) PROVE TypeOK'
  <2>1. RowsOK'
    BY <1>5 DEF Raise, RowsOK
  <2> QED
    BY <1>5, <2>1 DEF Raise, DeskOK, JumpOK, EventsOK, FaultsOK, ThreadOK, Mounted, desk,
       events, thread
<1>6. ASSUME NEW c \in Conversations, Resolve(c) PROVE TypeOK'
  <2>1. RowsOK'
    BY <1>6 DEF Resolve, RowsOK
  <2>2. EventsOK'
    BY <1>6 DEF Resolve, EventsOK
  <2> QED
    BY <1>6, <2>1, <2>2 DEF Resolve, DeskOK, JumpOK, FaultsOK, ThreadOK, Mounted, desk, thread
<1>7. ASSUME NEW kind \in Kinds, Act(kind) PROVE TypeOK'
  <2>1. Mounted(open, list) /\ open \in Conversations
    BY <1>7 DEF Act, Mounted, ThreadOK
  <2>2. call' \in Calls
    BY <1>7, <2>1 DEF Act, Calls
  <2>3. optimistic' \in {None, "bot", "human"} /\ UNCHANGED <<open, list, confirm, armedFor>>
    BY <1>7 DEF Act, ThreadOK, Beside
  <2>4. ThreadOK'
    BY <2>1, <2>2, <2>3 DEF ThreadOK, Mounted
  <2> QED
    BY <1>7, <2>4 DEF Act, Beside, RowsOK, DeskOK, EventsOK, JumpOK, FaultsOK, rows, desk, events
<1>8. CASE Back
  <2>1. ThreadOK'
    BY <1>8, ShowType DEF Back, ThreadOK
  <2> QED
    BY <1>8, <2>1 DEF Back, RowsOK, DeskOK, EventsOK, JumpOK, FaultsOK, rows, desk, events
<1>9. CASE Arm
  <2>1. ThreadOK'
    BY <1>9 DEF Arm, Beside, ThreadOK, Mounted
  <2> QED
    BY <1>9, <2>1 DEF Arm, Beside, RowsOK, DeskOK, EventsOK, JumpOK, FaultsOK, rows, desk, events
<1>10. CASE Disarm
  <2>1. confirm' \in BOOLEAN /\ ~confirm'
    BY <1>10 DEF Disarm
  <2>2. ThreadOK'
    BY <1>10, <2>1 DEF Disarm, Beside, ThreadOK, Mounted
  <2> QED
    BY <1>10, <2>2 DEF Disarm, Beside, RowsOK, DeskOK, EventsOK, JumpOK, FaultsOK, rows, desk,
       events
<1> QED
  BY <1>1, <1>2, <1>3, <1>4, <1>5, <1>6, <1>7, <1>8, <1>9, <1>10 DEF Event

LEMMA TypeFollows == ASSUME TypeOK, Follows, UNCHANGED spent PROVE TypeOK'
<1> USE Parts, PartsNext
<1>1. ASSUME NEW i \in 1..Len(loads), ApplyLoad(i) PROVE TypeOK'
  <2>1. loads' \in Seq(Reads) /\ Len(loads') <= MaxLoads
    BY <1>1, Answered, DeskAssumption DEF DeskOK
  <2>2. loads[i] \in Reads
    BY DEF DeskOK
  <2>3. overtaken' \in BOOLEAN /\ queue' \subseteq Conversations
    BY <1>1, <2>2 DEF ApplyLoad, Reads, Waiting
  <2>4. loadError' \in BOOLEAN
    BY <1>1 DEF ApplyLoad
  <2>5. FaultsOK'
    BY <1>1, FailsType DEF ApplyLoad
  <2>6. PICK l \in [Conversations -> States \cup {Gone}] : Show(open, l)
    BY <1>1, <2>2 DEF ApplyLoad, Reads
  <2>7. ThreadOK'
    BY <2>6, ShowType DEF ThreadOK
  <2>8. UNCHANGED <<rows, jump, events>>
    BY <1>1 DEF ApplyLoad
  <2> QED
    BY <2>1, <2>3, <2>4, <2>5, <2>7, <2>8 DEF DeskOK, RowsOK, JumpOK, EventsOK, rows, events
<1>2. ASSUME NEW c \in Conversations, HandOff(c) PROVE TypeOK'
  <2>1. RowsOK'
    BY <1>2 DEF HandOff, RowsOK, States
  <2>2. EventsOK' /\ FaultsOK'
    <3>1. CASE Told(c, 0)
      BY <3>1, ToldType
    <3>2. CASE Works /\ UNCHANGED events
      BY <3>2, FailsType DEF EventsOK, events
    <3>3. CASE Fails /\ lost' = lost \cup {c} /\ UNCHANGED <<timer, silent>>
      BY <3>3, FailsType DEF EventsOK
    <3> QED
      BY <1>2, <3>1, <3>2, <3>3 DEF HandOff
  <2> QED
    BY <1>2, <2>1, <2>2 DEF HandOff, DeskOK, JumpOK, ThreadOK, Mounted, desk, thread
<1>3. CASE Fire
  <2>1. DeskOK' /\ EventsOK'
    BY <1>3, StartLoadType DEF Fire, DeskOK, EventsOK
  <2> QED
    BY <1>3, <2>1 DEF Fire, RowsOK, JumpOK, FaultsOK, ThreadOK, Mounted, rows, thread
<1>4. CASE Found
  <2>1. JumpOK'
    BY <1>4 DEF Found, JumpOK, NoJump
  <2>2. FaultsOK'
    BY <1>4, FailsType DEF Found
  <2>3. ThreadOK'
    <3>1. CASE Show(open, [list EXCEPT ![jump.of] = jump.seen])
      <4>1. [list EXCEPT ![jump.of] = jump.seen] \in [Conversations -> States \cup {Gone}]
        BY DEF ThreadOK, JumpOK
      <4> QED
        BY <3>1, <4>1, ShowType DEF ThreadOK
    <3>2. CASE UNCHANGED <<open, list, thread>>
      BY <3>2 DEF ThreadOK, Mounted, thread
    <3> QED
      BY <1>4, <3>1, <3>2 DEF Found
  <2> QED
    BY <1>4, <2>1, <2>2, <2>3 DEF Found, RowsOK, DeskOK, EventsOK, rows, desk, events
<1>5. CASE Perform
  <2>1. UNCHANGED <<raising, list, jump, desk, open, optimistic, confirm, armedFor>>
    BY <1>5 DEF Perform
  <2>2. call \in Calls /\ call' \in Calls /\ call'.live = call.live
    BY <1>5 DEF Perform, ThreadOK, Calls
  <2>3. ThreadOK'
    BY <2>1, <2>2 DEF ThreadOK, Mounted
  <2>4. RowsOK' /\ EventsOK' /\ FaultsOK'
    <3>1. ASSUME NEW n \in {0, 1}, state[call.of] # Gone, call.of \in Conversations,
                 Effect(call.of, n)
          PROVE  RowsOK' /\ EventsOK' /\ FaultsOK'
      <4>1. CASE Told(call.of, n) /\ UNCHANGED flags
        <5>1. state' \in [Conversations -> States \cup {Gone}]
          BY <3>1, <4>1 DEF Effect, Deleted, RowsOK, States
        <5> QED
          BY <2>1, <3>1, <4>1, <5>1, ToldType DEF RowsOK
      <4>2. CASE Cost(n) /\ UNCHANGED <<state, flags, events>>
        BY <2>1, <4>2, CostType, n \in Nat DEF RowsOK, EventsOK, events
      <4>3. CASE Cost(n) /\ Deleted(call.of)
        BY <2>1, <3>1, <4>3, CostType, n \in Nat, DeletedType
      <4> QED
        BY <3>1, <4>1, <4>2, <4>3 DEF Effect
    <3>2. CASE (Works \/ Fails) /\ UNCHANGED <<state, flags, events>>
      BY <2>1, <3>2, FailsType DEF RowsOK, EventsOK, events
    <3>3. call.of \in Conversations
      BY <2>2 DEF Calls
    <3> QED
      BY <1>5, <3>1, <3>2, <3>3 DEF Perform
  <2> QED
    BY <2>1, <2>3, <2>4 DEF DeskOK, JumpOK, desk
<1>6. CASE Answer
  <2>1. DeskOK' /\ EventsOK'
    BY <1>6, StartLoadType DEF Answer, NoLoad, DeskOK, EventsOK
  <2>2. call' = NoCall /\ ~call'.live
    BY <1>6 DEF Answer, NoCall
  <2>3. optimistic' \in {None, optimistic} /\ UNCHANGED <<open, list>>
    BY <1>6 DEF Answer
  <2>4. (confirm' = FALSE /\ armedFor' = None) \/ UNCHANGED <<confirm, armedFor>>
    BY <1>6 DEF Answer
  <2>5. ThreadOK'
    <3>1. CASE confirm' = FALSE /\ armedFor' = None
      BY <2>2, <2>3, <3>1 DEF ThreadOK, Mounted
    <3>2. CASE UNCHANGED <<confirm, armedFor>>
      BY <2>2, <2>3, <3>2 DEF ThreadOK, Mounted
    <3> QED
      BY <2>4, <3>1, <3>2
  <2> QED
    BY <1>6, <2>1, <2>5 DEF Answer, RowsOK, JumpOK, FaultsOK, rows
<1> QED
  BY <1>1, <1>2, <1>3, <1>4, <1>5, <1>6 DEF Follows

LEMMA TypeStep == TypeOK /\ [Next]_vars => TypeOK'
<1> SUFFICES ASSUME TypeOK, [Next]_vars PROVE TypeOK'
  OBVIOUS
<1>1. CASE spent < MaxEvents /\ spent' = spent + 1 /\ Event
  <2>1. spent' \in 0..MaxEvents
    BY <1>1, DeskAssumption DEF TypeOK
  <2> QED
    BY <1>1, <2>1, TypeEvent
<1>2. CASE spent' = spent /\ Follows
  BY <1>2, TypeFollows
<1>3. CASE UNCHANGED vars
  BY <1>3 DEF vars, rows, desk, events, thread, TypeOK, Mounted
<1> QED
  BY <1>1, <1>2, <1>3 DEF Next

\* The desk and the thread keep their types, and nothing of a thread outlives
\* it: neither what was armed, nor a guess, nor a call that would answer it
\* (Desk.tsx, Thread.tsx).
THEOREM DeskTypes == Spec => []TypeOK
BY TypeInit, TypeStep, PTL DEF Spec

-----------------------------------------------------------------------------
(* The two clicks.                                                         *)

\* What is armed is armed for the thread that is open.
Armed == confirm => open # None /\ armedFor = open

LEMMA ArmedStep == Armed /\ [Next]_vars => Armed'
<1> SUFFICES ASSUME Armed, [Next]_vars PROVE Armed'
  OBVIOUS
<1>1. ASSUME NEW o, NEW l, Show(o, l) PROVE Armed'
  BY <1>1 DEF Show, OnSwitch, Armed
<1>2. ASSUME NEW i \in 1..Len(loads), ApplyLoad(i) PROVE Armed'
  BY <1>1, <1>2 DEF ApplyLoad
<1>3. CASE \/ \E c \in Conversations : Open(c) \/ JumpTo(c)
           \/ Back
  BY <1>1, <1>3 DEF Open, JumpTo, Back
<1>4. ASSUME UNCHANGED <<open, confirm, armedFor>> PROVE Armed'
  BY <1>4 DEF Armed
<1>5. CASE Found
  BY <1>1, <1>4, <1>5 DEF Found, thread
<1>6. CASE Arm
  BY <1>6 DEF Arm, Beside, Mounted, Armed
<1>7. CASE Disarm \/ Answer
  BY <1>7 DEF Disarm, Answer, Beside, Armed
<1>8. CASE \/ \E c \in Conversations : \/ \E s \in States : Move(c, s)
                                       \/ Delete(c) \/ Raise(c) \/ Resolve(c) \/ HandOff(c)
           \/ \E kind \in Kinds : Act(kind)
           \/ Fire \/ Perform \/ UNCHANGED vars
  BY <1>4, <1>8 DEF Move, Delete, Raise, Resolve, HandOff, Act, Beside, Fire, Perform, thread, vars
<1> QED
  BY <1>2, <1>3, <1>5, <1>6, <1>7, <1>8 DEF Next, Event, Follows

\* An erasure is sent only for the customer whose thread both clicks were made
\* in, with no other opened in between (Thread.tsx, the effect on [id] and act).
THEOREM NoErasureByMistake == Spec => ErasedIsConfirmed
<1>1. Init => Armed
  BY DEF Init, Armed
<1>2. Armed /\ [Next]_vars
        => [call'.kind = "erase" /\ call = NoCall => armedFor = call'.of]_vars
  <2> SUFFICES ASSUME Armed, [Next]_vars, call'.kind = "erase", call = NoCall
               PROVE  armedFor = call'.of
    OBVIOUS
  <2>1. call' # NoCall /\ call' # [call EXCEPT !.live = FALSE]
    BY DEF NoCall, None
  <2>2. ASSUME NEW o, NEW l, Show(o, l) PROVE FALSE
    BY <2>1, <2>2 DEF Show
  <2>3. ~Open(open') /\ \A c \in Conversations : ~Open(c) /\ ~JumpTo(c)
    BY <2>2 DEF Open, JumpTo
  <2>4. ~Back /\ ~Found /\ \A i \in 1..Len(loads) : ~ApplyLoad(i)
    BY <2>1, <2>2 DEF Back, Found, ApplyLoad, thread
  <2>5. ~Fire /\ ~Perform /\ ~Answer /\ ~Arm /\ ~Disarm /\ ~UNCHANGED vars
    BY <2>1 DEF Fire, Perform, Answer, Arm, Disarm, thread, vars
  <2>6. \A c \in Conversations : /\ \A s \in States : ~Move(c, s)
                                 /\ ~Delete(c) /\ ~Raise(c) /\ ~Resolve(c) /\ ~HandOff(c)
    BY <2>1 DEF Move, Delete, Raise, Resolve, HandOff, thread
  <2>7. \E kind \in Kinds : Act(kind)
    BY <2>3, <2>4, <2>5, <2>6 DEF Next, Event, Follows
  <2>8. Act("erase")
    BY <2>7 DEF Act
  <2> QED
    BY <2>8 DEF Act, Offered, Armed
<1> QED
  BY <1>1, <1>2, ArmedStep, PTL DEF Spec, ErasedIsConfirmed

-----------------------------------------------------------------------------
(* At rest.  Once no event waits to be acted on, the last read that was    *)
(* sent has seen who waits, but for what no event has told since, or a     *)
(* later one was answered first; and the desk shows that last read, once   *)
(* it was answered in its turn.                                            *)

\* What the desk may list, with nothing read since the events that were lost
\* and the changes that were silent.
Fair(q) == /\ Waiting(state, flags \ raising) \subseteq q \cup lost
           /\ q \subseteq Waiting(state, flags) \cup lost \cup silent
LastRead == loads[Len(loads)]
LastWaits == Waiting(LastRead.seen, LastRead.flags)
Caught ==
    /\ \A c \in Conversations : state[c] = Gone => c \notin flags
    /\ ~timer => /\ loads # <<>> => LastRead.behind \/ Fair(LastWaits)
                 /\ loads = <<>> => overtaken \/ loadError \/ Fair(queue)


\* A step that reads nothing keeps what is fair, if whoever it makes wait, or
\* makes wait no longer, is left with an event to act on or among the untold.
LEMMA CaughtStays ==
    ASSUME Caught, UNCHANGED desk,
           \A d \in Conversations : state'[d] = Gone => d \notin flags',
           ~timer' => /\ ~timer
                      /\ lost \subseteq lost' /\ silent \subseteq silent'
                      /\ Waiting(state', flags' \ raising') \subseteq
                            Waiting(state, flags \ raising) \cup lost'
                      /\ Waiting(state, flags) \subseteq
                            Waiting(state', flags') \cup lost' \cup silent'
    PROVE  Caught'
<1>1. UNCHANGED <<LastRead, LastWaits, queue, loads, overtaken, loadError>>
  BY DEF LastRead, LastWaits, Waiting, desk
<1>2. ASSUME Fair(LastWaits), ~timer' PROVE Fair(LastWaits)'
  BY <1>1, <1>2 DEF Fair
<1>3. ASSUME Fair(queue), ~timer' PROVE Fair(queue)'
  BY <1>1, <1>3 DEF Fair
<1> QED
  BY <1>1, <1>2, <1>3 DEF Caught

LEMMA CaughtLoad ==
    ASSUME TypeOK, Caught, NEW i \in 1..Len(loads), ApplyLoad(i)
    PROVE  Caught'
<1>1. /\ loads' \in Seq(Reads) /\ Len(loads') = Len(loads) - 1
      /\ \A j \in 1..Len(loads) - 1 :
            loads'[j] = IF j < i THEN [loads[j] EXCEPT !.behind = TRUE] ELSE loads[j + 1]
  BY Answered, Parts
<1>2. loads \in Seq(Reads) /\ Len(loads) \in Nat \ {0} /\ loads # <<>>
  BY DEF TypeOK
<1>3. UNCHANGED <<state, flags, raising, timer, lost, silent>> /\ overtaken' = loads[i].behind
  BY DEF ApplyLoad, rows, events
<1>4. queue' = Waiting(loads[i].seen, loads[i].flags) \/ loadError'
  BY DEF ApplyLoad
<1>5. ASSUME ~timer PROVE LastRead.behind \/ Fair(LastWaits)
  BY <1>2, <1>5 DEF Caught
<1>6. \A c \in Conversations : state'[c] = Gone => c \notin flags'
  BY <1>3 DEF Caught
<1> DEFINE n == Len(loads) - 1
<1>7. CASE Len(loads) = 1
  <2>1. loads' = <<>> /\ loads[i] = LastRead
    BY <1>1, <1>7 DEF LastRead
  <2>2. queue' = LastWaits \/ loadError'
    BY <1>4, <2>1 DEF LastWaits
  <2>3. ASSUME ~timer' PROVE overtaken' \/ loadError' \/ Fair(queue)'
    BY <1>3, <1>5, <2>1, <2>2, <2>3 DEF Fair, Waiting
  <2> QED
    BY <1>6, <2>1, <2>3 DEF Caught
<1>8. CASE Len(loads) # 1
  <2>1. n \in 1..Len(loads) - 1 /\ loads' # <<>> /\ Len(loads') = n
    BY <1>1, <1>2, <1>8
  <2>2. CASE i = Len(loads)
    <3>1. loads[n] \in Reads /\ loads'[n] = [loads[n] EXCEPT !.behind = TRUE]
      BY <1>1, <1>2, <2>1, <2>2
    <3>2. loads'[n].behind
      BY <3>1 DEF Reads
    <3> QED
      BY <1>6, <2>1, <3>2 DEF Caught, LastRead
  <2>3. CASE i # Len(loads)
    <3>1. ~(n < i) /\ n + 1 = Len(loads)
      BY <1>2, <2>3
    <3>2. loads'[n] = loads[n + 1]
      BY <1>1, <2>1, <3>1
    <3>3. LastRead' = LastRead
      BY <2>1, <3>1, <3>2 DEF LastRead
    <3>4. LastWaits' = LastWaits
      BY <3>3 DEF LastWaits, Waiting
    <3>5. ASSUME ~timer' PROVE LastRead'.behind \/ Fair(LastWaits)'
      BY <1>3, <1>5, <3>3, <3>4, <3>5 DEF Fair, Waiting
    <3> QED
      BY <1>6, <2>1, <3>5 DEF Caught
  <2> QED
    BY <2>2, <2>3
<1> QED
  BY <1>7, <1>8

\* A read that is sent sees who waits, whatever was lost before it.
LEMMA CaughtStart ==
    ASSUME TypeOK, Caught, StartLoad, UNCHANGED rows
    PROVE  Caught'
<1>1. loads' # <<>> /\ LastRead' = [seen |-> state, flags |-> flags, behind |-> FALSE]
  BY DEF TypeOK, StartLoad, LastRead
<1>2. LastWaits' = Waiting(state, flags) /\ lost' = {} /\ silent' = {}
  BY <1>1 DEF LastWaits, StartLoad, Waiting
<1>3. Fair(LastWaits)'
  BY <1>2 DEF Fair, Waiting, rows
<1> QED
  BY <1>1, <1>3 DEF Caught, rows

LEMMA CaughtPerform == ASSUME TypeOK, Caught, Perform PROVE Caught'
<1> DEFINE c == call.of
<1>1. UNCHANGED <<raising, desk>> /\ call \in Calls /\ c \in Conversations
  BY DEF Perform, TypeOK, Calls
<1>2. CASE UNCHANGED <<state, flags, events>>
  BY <1>1, <1>2, CaughtStays DEF Caught, events
<1>3. ASSUME NEW n \in {0, 1}, state[c] # Gone, Told(c, n), UNCHANGED flags,
             \/ state' = [state EXCEPT ![c] = "human"]
             \/ state' = [state EXCEPT ![c] = "bot"]
             \/ state' = state
      PROVE  Caught'
  <2>1. \A d \in Conversations : d = c \/ state'[d] = state[d]
    BY <1>3 DEF TypeOK
  <2>2. state'[c] # Gone
    BY <1>1, <1>3 DEF TypeOK, Gone
  <2>3. ~timer' => lost' = lost \cup {c} /\ UNCHANGED <<timer, silent>>
    BY <1>3 DEF Told, Settle
  <2> QED
    BY <1>1, <1>3, <2>1, <2>2, <2>3, CaughtStays DEF Caught, Waiting
<1>4. ASSUME Deleted(c) PROVE Caught'
  <2>1. \A d \in Conversations : d = c \/ state'[d] = state[d]
    BY <1>4 DEF Deleted, TypeOK
  <2>2. state'[c] = Gone /\ flags' = flags \ {c}
    BY <1>1, <1>4 DEF Deleted, TypeOK
  <2>3. ~timer' => silent' = silent \cup {c} /\ UNCHANGED <<timer, lost>>
    BY <1>4 DEF Deleted, Settle
  <2> QED
    BY <1>1, <2>1, <2>2, <2>3, CaughtStays DEF Caught, Waiting, Gone
<1>5. ASSUME NEW n \in {0, 1}, Effect(c, n), state[c] # Gone PROVE Caught'
  BY <1>2, <1>3, <1>4, <1>5 DEF Effect
<1> QED
  BY <1>2, <1>5 DEF Perform

LEMMA CaughtStep == TypeOK /\ Caught /\ [Next]_vars => Caught'
<1> SUFFICES ASSUME TypeOK, Caught, [Next]_vars PROVE Caught'
  OBVIOUS
<1>1. ASSUME UNCHANGED <<rows, desk, events>> PROVE Caught'
  BY <1>1, CaughtStays DEF Caught, rows, events
<1>2. ASSUME NEW c \in Conversations, NEW s \in States, Move(c, s) PROVE Caught'
  <2>1. UNCHANGED <<flags, raising, desk>>
    BY <1>2 DEF Move
  <2>2. (\A d \in Conversations : d = c \/ state'[d] = state[d]) /\ state'[c] # Gone
    BY <1>2 DEF Move, TypeOK, States, Gone
  <2>3. ~timer' => lost' = lost \cup {c} /\ UNCHANGED <<timer, silent>>
    BY <1>2 DEF Move, Told, Settle
  <2> QED
    BY <2>1, <2>2, <2>3, CaughtStays DEF Caught, Waiting
<1>3. ASSUME NEW c \in Conversations, Delete(c) PROVE Caught'
  <2>1. \A d \in Conversations : d = c \/ state'[d] = state[d]
    BY <1>3 DEF Delete, Deleted, TypeOK
  <2>2. state'[c] = Gone /\ flags' = flags \ {c} /\ UNCHANGED <<raising, desk>>
    BY <1>3 DEF Delete, Deleted, TypeOK
  <2>3. ~timer' => silent' = silent \cup {c} /\ UNCHANGED <<timer, lost>>
    BY <1>3 DEF Delete, Deleted, Settle
  <2> QED
    BY <2>1, <2>2, <2>3, CaughtStays DEF Caught, Waiting, Gone
<1>4. ASSUME NEW c \in Conversations, Raise(c) PROVE Caught'
  BY <1>4, CaughtStays DEF Raise, Caught, Waiting, events
<1>5. ASSUME NEW c \in Conversations, Resolve(c) PROVE Caught'
  BY <1>5, CaughtStays DEF Resolve, Caught, Waiting
<1>6. ASSUME NEW c \in Conversations, HandOff(c) PROVE Caught'
  <2>1. UNCHANGED <<flags, desk>> /\ raising' = raising \ {c}
    BY <1>6 DEF HandOff
  <2>2. CASE state' = [state EXCEPT ![c] = "requested"] /\ Told(c, 0)
    <3>1. (\A d \in Conversations : d = c \/ state'[d] = state[d]) /\ state'[c] = "requested"
      BY <2>2 DEF TypeOK
    <3>2. ~timer' => lost' = lost \cup {c} /\ UNCHANGED <<timer, silent>>
      BY <2>2 DEF Told, Settle
    <3> QED
      BY <2>1, <3>1, <3>2, CaughtStays DEF Caught, Waiting, Gone
  <2>3. CASE state[c] \in {"human", Gone} /\ UNCHANGED <<state, events>>
    BY <2>1, <2>3, CaughtStays DEF Caught, Waiting, events
  <2>4. CASE lost' = lost \cup {c} /\ UNCHANGED <<state, timer, silent>>
    BY <2>1, <2>4, CaughtStays DEF Caught, Waiting
  <2> QED
    BY <1>6, <2>2, <2>3, <2>4 DEF HandOff
<1>7. CASE \E i \in 1..Len(loads) : ApplyLoad(i)
  BY <1>7, CaughtLoad
<1>8. CASE Fire
  BY <1>8, CaughtStart DEF Fire
<1>9. CASE Perform
  BY <1>9, CaughtPerform
<1>10. CASE Answer
  <2>1. CASE StartLoad
    BY <1>10, <2>1, CaughtStart DEF Answer
  <2>2. CASE NoLoad
    BY <1>1, <1>10, <2>2 DEF Answer, NoLoad, desk, events
  <2> QED
    BY <1>10, <2>1, <2>2 DEF Answer
<1>11. CASE \/ \E c \in Conversations : Open(c) \/ JumpTo(c)
            \/ \E kind \in Kinds : Act(kind)
            \/ Back \/ Arm \/ Disarm \/ Found \/ UNCHANGED vars
  BY <1>1, <1>11 DEF Open, JumpTo, Act, Back, Arm, Disarm, Found, Beside, vars
<1> QED
  BY <1>2, <1>3, <1>4, <1>5, <1>6, <1>7, <1>8, <1>9, <1>10, <1>11 DEF Next, Event, Follows

\* However many events, reads and acts overlap, a desk that has come to rest
\* leaves out nobody who waits on a person, by state or by an unresolved flag,
\* but for an event that was lost or is still to come, and lists nobody else, but
\* for the resolved flag or the deleted row that no event told: the debounce may
\* drop events and a read may see the past, but a read is sent after the last
\* event (Desk.tsx, load and the throttle of its channel; 0037, desk_queue).
THEOREM TheDeskSettles == Spec => []DeskSettles
<1>1. Init => Caught
  BY DEF Init, Caught, Fair, Waiting, Gone
<1>2. Caught => DeskSettles
  BY DEF Caught, DeskSettles, Fair
<1> QED
  BY <1>1, <1>2, TypeInit, TypeStep, CaughtStep, PTL DEF Spec
=============================================================================
