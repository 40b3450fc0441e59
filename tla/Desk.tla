-------------------------------- MODULE Desk --------------------------------
(***************************************************************************)
(* One open dashboard: the desk (dashboard/src/Desk.tsx), which lists who  *)
(* waits on a person and reads itself again when a conversation moves, and *)
(* the thread beside it (Thread.tsx), which shows one customer, acts on    *)
(* them through the Worker and guesses the outcome until the desk has been *)
(* read.  Picking another customer keeps the same Thread mounted, so what  *)
(* is under way for one is answered on the screen of the next; going back  *)
(* unmounts it.                                                            *)
(*                                                                         *)
(* The conversations are what the other modules make of them: here they    *)
(* change at will.  Abstracted: what the thread shows of its customer (the *)
(* pages of messages, an export, a draft), the callbacks and leads that    *)
(* the desk reads too, the day's numbers, and the list's read apart from   *)
(* the queue's.                                                            *)
(***************************************************************************)
EXTENDS Integers, Sequences, FiniteSets

CONSTANTS
    Conversations,
    MaxLoads,    \* bound: reads of the desk under way at once
    MaxEvents,   \* bound: moves and clicks
    MaxFaults    \* bound: calls that fail, answers and events that are lost

None == "none"
Gone == "gone"
States == {"bot", "requested", "human"}
Kinds == {"takeover", "release", "reply", "export", "erase", "follow"}
ASSUME DeskAssumption == /\ None \notin Conversations
                         /\ MaxLoads \in Nat \ {0} /\ MaxEvents \in Nat /\ MaxFaults \in Nat

VARIABLES
    spent,      \* moves and clicks so far
    state,      \* conversations.handoff_state, or Gone with the row
    flags,      \* conversations with a safety flag that nobody has resolved
    raising,    \* flagged, and not handed to a person yet
    list,       \* the desk: the states of the rows it holds, or Gone
    queue,      \* the desk: who waits, as it was last told
    loadError,
    timer,      \* the debounce after an event
    loads,      \* reads under way, in the order they were sent
    open,       \* openId
    jump,       \* the row that a search has asked for, or NoJump
    optimistic, \* the guess, or None
    confirm,    \* confirmErase
    call,       \* the act under way
    overtaken,  \* history: the desk shows a read that a later one was quicker than
    lost,       \* history: whose event was lost, with nothing read since
    silent,     \* history: who stopped waiting with no event, and nothing read since
    armedFor,   \* history: whose Erase was clicked, with the thread not left since
    faults

rows == <<state, flags, raising>>
desk == <<queue, loadError, loads, overtaken>>
events == <<timer, lost, silent>>
thread == <<optimistic, confirm, call, armedFor>>
vars == <<spent, rows, list, jump, desk, events, open, thread, faults>>

NoCall == [kind |-> None, of |-> None, pc |-> "asked", live |-> FALSE]
NoJump == [of |-> None, seen |-> Gone]
\* desk_queue, down to rank 2: a flag, or a person asked for or in charge.
Waiting(s, f) == {c \in Conversations : c \in f \/ s[c] \in {"requested", "human"}}
\* The thread is on screen: the row of openId is on the desk.
Mounted(o, l) == o # None /\ l[o] # Gone

Calls == [kind : Kinds, of : Conversations, pc : {"asked", "done", "failed"}, live : BOOLEAN]
Reads == [seen : [Conversations -> States \cup {Gone}], flags : SUBSET Conversations,
          behind : BOOLEAN]

TypeOK ==
    /\ state \in [Conversations -> States \cup {Gone}]
    /\ flags \subseteq Conversations /\ raising \subseteq Conversations
    /\ list \in [Conversations -> States \cup {Gone}]
    /\ queue \subseteq Conversations /\ loadError \in BOOLEAN
    /\ loads \in Seq(Reads) /\ Len(loads) <= MaxLoads
    /\ open \in Conversations \cup {None}
    /\ jump \in [of : Conversations \cup {None}, seen : States \cup {Gone}]
    /\ optimistic \in {None, "bot", "human"}
    /\ armedFor \in Conversations \cup {None}
    /\ call \in Calls \cup {NoCall}
    /\ timer \in BOOLEAN /\ confirm \in BOOLEAN
    /\ lost \subseteq Conversations /\ silent \subseteq Conversations
    /\ overtaken \in BOOLEAN
    /\ faults \in 0..MaxFaults /\ spent \in 0..MaxEvents
    \* Nothing of a thread outlives it.
    /\ ~Mounted(open, list) => optimistic = None /\ ~confirm /\ ~call.live

Init ==
    /\ state \in [Conversations -> {"bot", "human"}]
    /\ flags \in SUBSET Conversations /\ raising = {}
    /\ list = state /\ queue = Waiting(state, flags) /\ loadError = FALSE /\ loads = <<>>
    /\ timer = FALSE /\ lost = {} /\ silent = {} /\ overtaken = FALSE
    /\ open = None /\ jump = NoJump /\ optimistic = None /\ confirm = FALSE
    /\ call = NoCall /\ armedFor = None /\ faults = 0 /\ spent = 0

\* A step with n faults in it.
Cost(n) == faults + n <= MaxFaults /\ faults' = faults + n
Works == Cost(0)
Fails == Cost(1)

-----------------------------------------------------------------------------
(* The conversations.                                                      *)

Throttled == timer' = (timer \/ loads = <<>>)
\* An event starts the debounce over: the read comes after the last of a burst.
Settle == timer' = TRUE
\* A row that is written says so over Realtime, unless that is lost.
Told(c, n) == \/ Cost(n) /\ Settle /\ UNCHANGED <<lost, silent>>
              \/ Cost(n + 1) /\ lost' = lost \cup {c} /\ UNCHANGED <<timer, silent>>
\* A row that is deleted may say so: nothing here relies on it.
Deleted(c) ==
    /\ state' = [state EXCEPT ![c] = Gone] /\ flags' = flags \ {c}
    /\ \/ Settle /\ UNCHANGED <<lost, silent>>
       \/ silent' = silent \cup {c} /\ UNCHANGED <<timer, lost>>

\* A conversation moves, by a customer, the assistant, its timer or a colleague.
Move(c, s) ==
    /\ state[c] \notin {s, Gone} /\ state' = [state EXCEPT ![c] = s] /\ Told(c, 0)
    /\ UNCHANGED <<flags, raising, list, jump, desk, open, thread>>
\* A colleague's erasure, or the reset of the demo.
Delete(c) ==
    /\ state[c] # Gone /\ Deleted(c) /\ Works
    /\ UNCHANGED <<raising, list, jump, desk, open, thread>>
\* A flagged turn: the flag, and then a person is asked for, unless one is in
\* charge.  The flag by itself is no event of the conversation.
Raise(c) ==
    /\ state[c] # Gone /\ c \notin raising /\ flags' = flags \cup {c} /\ raising' = raising \cup {c}
    /\ UNCHANGED <<state, list, jump, desk, events, open, thread, faults>>
HandOff(c) ==
    /\ c \in raising /\ raising' = raising \ {c}
    /\ \/ /\ state[c] \notin {"human", Gone} /\ state' = [state EXCEPT ![c] = "requested"]
          /\ Told(c, 0)
       \/ state[c] \in {"human", Gone} /\ Works /\ UNCHANGED <<state, events>>
       \/ Fails /\ lost' = lost \cup {c} /\ UNCHANGED <<state, timer, silent>>
    /\ UNCHANGED <<flags, list, jump, desk, open, thread>>
\* An admin resolves the last flag of a conversation, which tells the desk nothing.
Resolve(c) ==
    /\ c \in flags /\ flags' = flags \ {c} /\ silent' = silent \cup {c}
    /\ UNCHANGED <<state, raising, list, jump, desk, timer, lost, open, thread, faults>>

-----------------------------------------------------------------------------
(* The desk.                                                               *)

\* The effect on [id]: what was armed for one customer goes with the switch.
LeftArmed == confirm
OnSwitch == FALSE
\* What becomes of the thread when o is open over the rows of l.  It comes and
\* goes with its row; of one that went, what is under way goes on, and is
\* answered to nobody.
Show(o, l) ==
    /\ open' = o /\ list' = l
    /\ \/ /\ ~(Mounted(open, list) /\ Mounted(o, l))
          /\ optimistic' = None /\ confirm' = FALSE /\ armedFor' = None
          /\ call' = [call EXCEPT !.live = FALSE]
       \/ /\ Mounted(open, list) /\ Mounted(o, l) /\ o # open
          /\ optimistic' = None /\ confirm' = OnSwitch /\ armedFor' = None /\ UNCHANGED call
       \* A guess ends when the row has caught up.
       \/ /\ Mounted(open, list) /\ Mounted(o, l) /\ o = open
          /\ optimistic' = IF l[o] # list[o] THEN None ELSE optimistic
          /\ UNCHANGED <<confirm, call, armedFor>>

\* A read sees the conversations as they are when it is sent, and is answered
\* whenever; nothing orders the answers of two.
StartLoad ==
    /\ Len(loads) < MaxLoads
    /\ loads' = Append(loads, [seen |-> state, flags |-> flags, behind |-> FALSE])
    /\ lost' = {} /\ silent' = {}
NoLoad == UNCHANGED <<loads, lost, silent>>
Fire ==
    /\ timer /\ timer' = FALSE /\ StartLoad
    /\ UNCHANGED <<rows, list, jump, queue, loadError, overtaken, open, thread, faults>>

\* load: the queue and the latest fifty (any, here) are set together.  A read
\* that failed leaves nothing of what it was to bring, and the error beside it.
ApplyLoad(i) ==
    LET seen == loads[i].seen
        waits == Waiting(seen, loads[i].flags)
    IN
    /\ loads' = [j \in 1..Len(loads) - 1 |->
                   IF j < i THEN [loads[j] EXCEPT !.behind = TRUE] ELSE loads[j + 1]]
    /\ overtaken' = loads[i].behind
    /\ \E recent \in SUBSET Conversations :
         /\ \/ Works /\ queue' = waits /\ loadError' = FALSE
            \/ Fails /\ loadError' = TRUE /\ queue' = {}
            \/ Fails /\ loadError' = TRUE /\ queue' = waits /\ recent = {}
         /\ Show(open, [c \in Conversations |-> IF c \in queue' \cup recent THEN seen[c] ELSE Gone])
    /\ UNCHANGED <<rows, jump, events>>

\* A row of the list is picked, or a search found what the desk holds.
Open(c) ==
    /\ open # c /\ list[c] # Gone /\ Show(c, list)
    /\ UNCHANGED <<rows, jump, desk, events, faults>>
\* The search found what it does not hold, which is read by itself.  (Bound:
\* one such read at a time.)
JumpTo(c) ==
    /\ list[c] = Gone /\ jump = NoJump
    /\ jump' = [of |-> c, seen |-> state[c]] /\ Show(c, list)
    /\ UNCHANGED <<rows, desk, events, faults>>
Found ==
    /\ jump # NoJump /\ jump' = NoJump
    /\ \/ /\ jump.seen # Gone /\ jump.of \notin queue
          /\ Works /\ Show(open, [list EXCEPT ![jump.of] = jump.seen])
       \/ /\ IF jump.seen # Gone /\ jump.of \notin queue THEN Fails ELSE Works
          /\ UNCHANGED <<open, list, thread>>
    /\ UNCHANGED <<rows, desk, events>>

Back ==
    /\ open # None /\ Show(None, list)
    /\ UNCHANGED <<rows, jump, desk, events, faults>>

-----------------------------------------------------------------------------
(* The thread.                                                             *)

\* Nothing beside the thread changes.
Beside == UNCHANGED <<rows, list, jump, desk, events, open, faults>>

\* Erase permanently, in the menu: the first of the two clicks.
Arm ==
    /\ Mounted(open, list) /\ confirm' = TRUE /\ armedFor' = open
    /\ UNCHANGED <<optimistic, call>> /\ Beside
Disarm ==
    /\ confirm /\ confirm' = FALSE /\ armedFor' = None
    /\ UNCHANGED <<optimistic, call>> /\ Beside

Human == (IF optimistic # None THEN optimistic ELSE list[open]) = "human"
Offered(kind) ==
    CASE kind = "takeover" -> ~Human
      [] kind \in {"release", "reply"} -> Human
      [] kind = "erase" -> confirm
      [] OTHER -> TRUE
\* act: one at a time while the thread is mounted, because its buttons are
\* disabled.  (Bound: nor is another begun while one goes on unmounted.)
Act(kind) ==
    /\ Mounted(open, list) /\ call = NoCall /\ Offered(kind)
    /\ call' = [kind |-> kind, of |-> open, pc |-> "asked", live |-> TRUE]
    /\ optimistic' = CASE kind = "takeover" -> "human" [] kind = "release" -> "bot"
                       [] OTHER -> optimistic
    /\ UNCHANGED <<confirm, armedFor>> /\ Beside

\* What an act does to its conversation c, which is there.  A reply needs a
\* person in charge; an erasure leaves the row of one that was ever flagged; and
\* to follow up is a write to the row that says so.
Effect(c, n) ==
    \/ /\ call.kind = "takeover" /\ state' = [state EXCEPT ![c] = "human"]
       /\ Told(c, n) /\ UNCHANGED flags
    \/ /\ call.kind = "release" /\ state' = [state EXCEPT ![c] = "bot"]
       /\ Told(c, n) /\ UNCHANGED flags
    \/ call.kind = "follow" /\ Told(c, n) /\ UNCHANGED <<state, flags>>
    \/ call.kind \in {"export", "erase"} /\ Cost(n) /\ UNCHANGED <<state, flags, events>>
    \/ call.kind = "reply" /\ state[c] = "human" /\ Cost(n) /\ UNCHANGED <<state, flags, events>>
    \/ call.kind = "erase" /\ c \notin flags /\ Cost(n) /\ Deleted(c)
\* The Worker.  It does the act, and its answer may be lost, or what comes after
\* the effect may throw, such as the audit row of an erasure; or it does not: it
\* refuses (not found, nobody in charge), or fails.  To follow up is an update of
\* no row when the row has gone, and no error.
Perform ==
    LET c == call.of
        Refused == \/ state[c] = Gone /\ call.kind # "follow"
                   \/ state[c] # "human" /\ call.kind = "reply"
    IN
    /\ call # NoCall /\ call.pc = "asked"
    /\ \/ /\ state[c] # Gone
          /\ \E n \in {0, 1} : /\ Effect(c, n)
                             /\ call' = [call EXCEPT !.pc = IF n = 0 THEN "done" ELSE "failed"]
       \/ /\ state[c] = Gone /\ call.kind = "follow" /\ Works
          /\ call' = [call EXCEPT !.pc = "done"] /\ UNCHANGED <<state, flags, events>>
       \/ /\ IF Refused THEN Works ELSE Fails
          /\ call' = [call EXCEPT !.pc = "failed"] /\ UNCHANGED <<state, flags, events>>
    /\ UNCHANGED <<raising, list, jump, desk, open, optimistic, confirm, armedFor>>

\* ... and the answer: on success the desk is read, whoever is open by now.
Answer ==
    /\ call # NoCall /\ call.pc # "asked" /\ call' = NoCall
    /\ \/ call.pc = "done" /\ StartLoad
       \/ call.pc = "failed" /\ NoLoad
    /\ optimistic' = IF call.live /\ call.pc = "failed" THEN None ELSE optimistic
    /\ IF call.live /\ call.pc = "done" /\ call.kind = "erase"
       THEN confirm' = FALSE /\ armedFor' = None ELSE UNCHANGED <<confirm, armedFor>>
    /\ UNCHANGED <<rows, list, jump, queue, loadError, overtaken, timer, open, faults>>

\* What somebody does, and what follows of itself.
Event ==
    \/ \E c \in Conversations : \/ Open(c) \/ JumpTo(c) \/ \E s \in States : Move(c, s)
                                \/ Delete(c) \/ Raise(c) \/ Resolve(c)
    \/ \E kind \in Kinds : Act(kind)
    \/ Back \/ Arm \/ Disarm
Follows ==
    \/ \E i \in 1..Len(loads) : ApplyLoad(i)
    \/ \E c \in Conversations : HandOff(c)
    \/ Fire \/ Found \/ Perform \/ Answer
Next == \/ spent < MaxEvents /\ spent' = spent + 1 /\ Event
        \/ spent' = spent /\ Follows

Spec == Init /\ [][Next]_vars

-----------------------------------------------------------------------------
(* Properties.                                                             *)

\* An erasure is sent only for the customer whose thread both clicks were made
\* in, with no other opened in between (Thread.tsx:77-78, 109-119).
ErasedIsConfirmed ==
    [][call'.kind = "erase" /\ call = NoCall => armedFor = call'.of]_vars

\* A desk at rest, with no event to act on and no read under way, leaves out
\* nobody who waits on a person, a flagged customer as much as one who asked,
\* unless the event that was to say so was lost or is still to come; and it lists
\* nobody else, but for those who stopped waiting with no event, by a resolved
\* flag or a deleted row.  Not so when the read failed, or an older one was
\* answered after a newer (Desk.tsx:24-27, 129-191, 313; 0037, desk_queue).
DeskSettles ==
    ~timer /\ loads = <<>> /\ ~loadError /\ ~overtaken =>
        /\ Waiting(state, flags \ raising) \subseteq queue \cup lost
        /\ queue \subseteq Waiting(state, flags) \cup lost \cup silent
=============================================================================
