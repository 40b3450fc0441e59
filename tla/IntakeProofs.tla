---------------------------- MODULE IntakeProofs ----------------------------
(***************************************************************************)
(* What Intake promises, for any clients, posts, limits and failures: its  *)
(* types, that a rotation never leaves a row under a key that is gone, and *)
(* that one failure alone never loses a message with nobody told.          *)
(***************************************************************************)
EXTENDS Intake, TLAPS

\* The keys the Worker has follow the steps of the rotation.
KeysFollow ==
    /\ moving = "no" => keys = {Old} /\ late = {}
    /\ moving \in {"put", "proved"} => keys = {Old, New}
    /\ moving = "done" => keys = {New}

\* Who can be posted to has a row; and an onboarding that no rotation overtook
\* will insert what a new one would seal.
SealedInTime ==
    /\ \A a \in Accounts \ Late : row[a] # NoRow
    /\ \A a \in Late : joining[a] # NoRow /\ a \notin late => joining[a] = CurrentVersion(keys)

SealInv == TypeOK /\ KeysFollow /\ SealedInTime /\ SealedIsReadable

\* A post by where its work stands: what is behind it is handed over, and a
\* throw has cost one failure.
Walked(p) ==
    /\ job[p].pc = "messages" => \A i \in Own(p) : i < job[p].at => Messages[p][i].id \in handed
    /\ job[p].pc = "report" => faults >= 1
    /\ job[p].pc = "done" /\ p \notin told =>
          (\A i \in Own(p) : Messages[p][i].id \in handed) \/ faults >= 2
WalkedInOrder == \A p \in Payloads : Receipts[p] = <<>> => Walked(p)

WalkInv == SealInv /\ WalkedInOrder

-----------------------------------------------------------------------------
(* The operators.                                                          *)

\* currentKeyVersion is the newest, whatever the Worker has been given.
LEMMA NewestKey ==
    /\ CurrentVersion({Old}) = Old
    /\ CurrentVersion({Old, New}) = New
    /\ CurrentVersion({New}) = New
BY DEF CurrentVersion, Old, New

\* The loops: one job moves, to the first of what is left or to its end.
LEMMA WorkGoesOn ==
    ASSUME TypeOK, NEW p \in Payloads, NEW pc \in {"messages", "statuses", "done"},
           NEW left \in SUBSET Nat, WorkOff(p, pc, left)
    PROVE  /\ job' \in [Payloads -> Jobs]
           /\ \A q \in Payloads \ {p} : job'[q] = job[q]
           /\ \/ left = {} /\ job'[p].pc = "done"
              \/ job'[p].pc = pc /\ job'[p].at \in left /\ \A k \in left : job'[p].at <= k
<1>1. job \in [Payloads -> Jobs]
  BY DEF TypeOK
<1>2. CASE left = {} /\ job' = [job EXCEPT ![p] = [pc |-> "done", at |-> 0]]
  BY <1>1, <1>2 DEF Jobs
<1>3. ASSUME NEW n \in left, \A k \in left : n <= k,
             job' = [job EXCEPT ![p] = [pc |-> pc, at |-> n]]
      PROVE  /\ job' \in [Payloads -> Jobs]
             /\ \A q \in Payloads \ {p} : job'[q] = job[q]
             /\ job'[p].pc = pc /\ job'[p].at \in left /\ \A k \in left : job'[p].at <= k
  <2>1. job'[p] = [pc |-> pc, at |-> n] /\ \A q \in Payloads \ {p} : job'[q] = job[q]
    BY <1>1, <1>3
  <2>2. job' \in [Payloads -> Jobs]
    BY <1>1, <1>3 DEF Jobs
  <2> QED
    BY <1>3, <2>1, <2>2
<1> QED
  BY <1>2, <1>3 DEF WorkOff

\* The indices that are worked off are numbers.
LEMMA Indices ==
    ASSUME NEW p \in Payloads
    PROVE  Own(p) \in SUBSET Nat /\ DOMAIN Receipts[p] \in SUBSET Nat
BY IntakeAssumption DEF Own

\* An onward step stays with its work, and passes over none of it.
LEMMA OnwardGoesOn ==
    ASSUME TypeOK, NEW p \in Payloads, job[p].pc \in {"messages", "statuses"},
           NEW work \in SUBSET Nat, Onward(p, work)
    PROVE  /\ job' \in [Payloads -> Jobs]
           /\ \A q \in Payloads \ {p} : job'[q] = job[q]
           /\ job'[p].pc \in {job[p].pc, "done"}
           /\ job'[p].pc # "done" => job'[p].at \in work
           /\ \A k \in work : k > job[p].at =>
                 job'[p].pc # "done" /\ job'[p].at <= k
<1> DEFINE left == {n \in work : n > job[p].at}
<1>1. left \in SUBSET Nat
  OBVIOUS
<1>2. WorkOff(p, job[p].pc, left)
  BY DEF Onward
<1>3. /\ job' \in [Payloads -> Jobs]
      /\ \A q \in Payloads \ {p} : job'[q] = job[q]
      /\ \/ left = {} /\ job'[p].pc = "done"
         \/ job'[p].pc = job[p].pc /\ job'[p].at \in left /\ \A k \in left : job'[p].at <= k
  <2> HIDE DEF left
  <2> QED
    BY <1>1, <1>2, WorkGoesOn
<1> QED
  BY <1>3

-----------------------------------------------------------------------------
(* Types.                                                                  *)

\* The types of one post.
ServingOK(p) ==
    /\ req[p].pc # "idle" => post[p] = "waiting" /\ req[p].env # {}
    /\ req[p].pc \in {"verify", "limit"} => req[p].version # NoRow
    /\ req[p].pc = "limit" => Receipts[p] = <<>> /\ req[p].version \in req[p].env
    /\ job[p].pc # "none" => post[p] = "taken"
    /\ job[p].pc = "messages" => job[p].at \in Own(p)
    /\ job[p].pc = "statuses" => job[p].at \in DOMAIN Receipts[p]

LEMMA TypeInit == Init => SealInv
<1> SUFFICES ASSUME Init PROVE SealInv
  OBVIOUS
<1> USE DEF Old, New, NoRow
<1>1. TypeOK
  <2>1. /\ row \in [Accounts -> {NoRow, Old, New}] /\ joining \in [Late -> {NoRow, Old, New}]
        /\ keys \in (SUBSET {Old, New}) \ {{}} /\ late \subseteq Late
        /\ moving \in {"no", "put", "proved", "done"}
    BY DEF Init
  <2>2. /\ post \in [Payloads -> {"none", "waiting", "taken"}]
        /\ req = [p \in Payloads |-> Idle] /\ job = [p \in Payloads |-> NoJob]
    BY DEF Init
  <2>3. Idle \in Requests /\ Idle.pc = "idle" /\ NoJob \in Jobs /\ NoJob.pc = "none"
    BY DEF Idle, NoJob, Requests, Jobs
  <2>4. /\ req \in [Payloads -> Requests] /\ job \in [Payloads -> Jobs]
        /\ \A p \in Payloads : req[p].pc = "idle" /\ job[p].pc = "none"
    BY <2>2, <2>3
  <2>5. /\ used \in [Accounts \ Late -> 0..Limit]
        /\ handed \subseteq Ids /\ told \subseteq Payloads
        /\ out \in [Outbound -> {"sent", "row"}]
        /\ status \in [Outbound -> Statuses \cup {NoStatus}]
        /\ \A m \in Outbound : status[m] = NoStatus
        /\ faults \in 0..MaxFaults
    BY IntakeAssumption DEF Init
  <2> QED
    BY <2>1, <2>2, <2>4, <2>5 DEF TypeOK, Requests, Jobs
<1>2. KeysFollow /\ SealedInTime /\ SealedIsReadable
  BY DEF Init, KeysFollow, SealedInTime, SealedIsReadable, NoRow, Old
<1> QED
  BY <1>1, <1>2 DEF SealInv

\* What a step of the sealing side keeps: the posts and the receipts.
LEMMA TypeSealing ==
    ASSUME SealInv, UNCHANGED <<serving, sending, faults>>,
           \/ \E a \in Late : Seal(a) \/ InsertAccount(a)
           \/ PutKey \/ DeleteKey
           \/ \E a \in Accounts : MoveRow(a)
           \/ \E p \in Payloads : Prove(p)
    PROVE  TypeOK'
<1> USE IntakeAssumption DEF SealInv, Old, New, NoRow
<1>1. /\ row' \in [Accounts -> {NoRow, Old, New}] /\ joining' \in [Late -> {NoRow, Old, New}]
      /\ keys' \in (SUBSET {Old, New}) \ {{}} /\ late' \subseteq Late
      /\ moving' \in {"no", "put", "proved", "done"}
  <2>1. CASE \E a \in Late : Seal(a)
    <3>1. CurrentVersion(keys) \in {Old, New}
      BY NewestKey DEF TypeOK, KeysFollow
    <3> QED
      BY <2>1, <3>1 DEF Seal, TypeOK
  <2>2. CASE \E a \in Late : InsertAccount(a)
    BY <2>2 DEF InsertAccount, TypeOK
  <2>3. CASE PutKey
    BY <2>3 DEF PutKey, TypeOK
  <2>4. CASE DeleteKey
    BY <2>4 DEF DeleteKey, TypeOK, KeysFollow
  <2>5. CASE \E a \in Accounts : MoveRow(a)
    BY <2>5 DEF MoveRow, TypeOK
  <2>6. CASE \E p \in Payloads : Prove(p)
    BY <2>6 DEF Prove, TypeOK
  <2> QED
    BY <2>1, <2>2, <2>3, <2>4, <2>5, <2>6
<1> QED
  BY <1>1 DEF TypeOK, serving, sending, Own, IsOwn, Ids, Statuses

\* A step of one post keeps the types if it keeps those of that post.
LEMMA TypeOfOne ==
    ASSUME TypeOK, UNCHANGED sealing, NEW p \in Payloads,
           post' \in [Payloads -> {"none", "waiting", "taken"}],
           req' \in [Payloads -> Requests], job' \in [Payloads -> Jobs],
           \A q \in Payloads \ {p} : post'[q] = post[q] /\ req'[q] = req[q] /\ job'[q] = job[q],
           ServingOK(p)',
           used' \in [Accounts \ Late -> 0..Limit],
           handed' \subseteq Ids, told' \subseteq Payloads,
           out' = out, status' \in [Outbound -> Statuses \cup {NoStatus}],
           \A m \in Outbound : status'[m] # NoStatus => out[m] = "row",
           faults' \in 0..MaxFaults
    PROVE  TypeOK'
<1>1. \A q \in Payloads : ServingOK(q)
  BY DEF TypeOK, ServingOK
<1>2. \A q \in Payloads \ {p} : ServingOK(q)'
  BY <1>1 DEF ServingOK, Own, IsOwn
<1>3. \A q \in Payloads : ServingOK(q)'
  BY <1>2
<1>4. /\ row' \in [Accounts -> {NoRow, Old, New}] /\ joining' \in [Late -> {NoRow, Old, New}]
      /\ keys' \in (SUBSET {Old, New}) \ {{}} /\ late' \subseteq Late
      /\ moving' \in {"no", "put", "proved", "done"}
  BY DEF TypeOK, sealing
<1> QED
  BY <1>3, <1>4 DEF TypeOK, ServingOK, Requests, Jobs, Ids, Statuses, Own, IsOwn

\* Records that change two fields at once.
LEMMA NewRequest ==
    ASSUME NEW q \in Requests, NEW env \in SUBSET {Old, New}
    PROVE  LET r == [q EXCEPT !.pc = "lookup", !.env = env] IN
           r \in Requests /\ r.pc = "lookup" /\ r.env = env
<1> DEFINE half == [q EXCEPT !.pc = "lookup"]
<1>1. half \in Requests
  BY DEF Requests
<1>2. [half EXCEPT !.env = env] \in Requests
  <2> HIDE DEF half
  <2> QED
    BY <1>1 DEF Requests
<1> QED
  BY <1>2 DEF Requests

LEMMA LookedUp ==
    ASSUME NEW q \in Requests, NEW v \in {NoRow, Old, New}
    PROVE  LET r == [q EXCEPT !.pc = "verify", !.version = v] IN
           r \in Requests /\ r.pc = "verify" /\ r.version = v /\ r.env = q.env
<1> DEFINE half == [q EXCEPT !.pc = "verify"]
<1>1. half \in Requests
  BY DEF Requests
<1>2. [half EXCEPT !.version = v] \in Requests
  <2> HIDE DEF half
  <2> QED
    BY <1>1 DEF Requests
<1> QED
  BY <1>2 DEF Requests

\* Meta posts.
LEMMA TypeDeliver ==
    ASSUME SealInv, NEW p \in Payloads, Deliver(p)
    PROVE  TypeOK'
<1> DEFINE r == [Idle EXCEPT !.pc = "lookup", !.env = keys]
<1>1. TypeOK /\ keys # {} /\ keys \subseteq {Old, New}
  BY DEF SealInv, TypeOK
<1>2. r \in Requests /\ r.pc = "lookup" /\ r.env # {}
  <2>1. Idle \in Requests
    BY DEF Idle, Requests, NoRow
  <2> QED
    BY <1>1, <2>1, NewRequest
<1>3. job[p].pc = "none"
  BY <1>1 DEF Deliver, TypeOK
<1>4. /\ post' = [post EXCEPT ![p] = "waiting"] /\ req' = [req EXCEPT ![p] = r] /\ job' = job
      /\ UNCHANGED <<sealing, out, status, used, handed, told, faults>>
  BY DEF Deliver, sending
<1>5. /\ post' \in [Payloads -> {"none", "waiting", "taken"}]
      /\ req' \in [Payloads -> Requests] /\ job' \in [Payloads -> Jobs]
      /\ \A q \in Payloads \ {p} : post'[q] = post[q] /\ req'[q] = req[q] /\ job'[q] = job[q]
      /\ post'[p] = "waiting" /\ req'[p] = r
  <2> HIDE DEF r
  <2> QED
    BY <1>1, <1>2, <1>4 DEF TypeOK, Requests, Jobs
<1>6. ServingOK(p)'
  <2> HIDE DEF r
  <2> QED
    BY <1>2, <1>3, <1>4, <1>5 DEF ServingOK
<1> QED
  <2> HIDE DEF r
  <2> QED
    BY <1>1, <1>4, <1>5, <1>6, TypeOfOne DEF TypeOK

\* A request that is refused, or answered with the 200.
LEMMA TypeRefuse ==
    ASSUME TypeOK, NEW p \in Payloads, req[p].pc # "idle",
           UNCHANGED <<sealing, out, status, handed, told>>,
           used' \in [Accounts \ Late -> 0..Limit], faults' \in 0..MaxFaults,
           Refuse(p)
    PROVE  TypeOK'
<1>1. Idle \in Requests /\ Idle.pc = "idle"
  BY DEF Idle, Requests, NoRow
<1>2. job[p].pc = "none" /\ post[p] = "waiting"
  BY DEF TypeOK
<1>3. /\ post' \in [Payloads -> {"none", "waiting", "taken"}]
      /\ req' \in [Payloads -> Requests] /\ job' \in [Payloads -> Jobs]
      /\ \A q \in Payloads \ {p} : post'[q] = post[q] /\ req'[q] = req[q] /\ job'[q] = job[q]
      /\ req'[p] = Idle /\ job'[p] = job[p]
  BY <1>1 DEF Refuse, TypeOK, Requests, Jobs
<1>4. ServingOK(p)'
  BY <1>1, <1>2, <1>3 DEF ServingOK
<1> QED
  BY <1>3, <1>4, TypeOfOne DEF TypeOK

LEMMA TypeTake ==
    ASSUME TypeOK, NEW p \in Payloads, req[p].pc # "idle",
           UNCHANGED <<sealing, out, status, handed, told>>,
           used' \in [Accounts \ Late -> 0..Limit], faults' \in 0..MaxFaults,
           \/ Take(p, "statuses", DOMAIN Receipts[p])
           \/ Take(p, "messages", Own(p))
    PROVE  TypeOK'
<1>1. Idle \in Requests /\ Idle.pc = "idle"
  BY DEF Idle, Requests, NoRow
<1>2. /\ post' = [post EXCEPT ![p] = "taken"] /\ req' = [req EXCEPT ![p] = Idle]
      /\ \/ WorkOff(p, "statuses", DOMAIN Receipts[p]) \/ WorkOff(p, "messages", Own(p))
  BY DEF Take
<1>3. /\ job' \in [Payloads -> Jobs] /\ \A q \in Payloads \ {p} : job'[q] = job[q]
      /\ \/ job'[p].pc = "done"
         \/ job'[p].pc = "messages" /\ job'[p].at \in Own(p)
         \/ job'[p].pc = "statuses" /\ job'[p].at \in DOMAIN Receipts[p]
  BY <1>2, WorkGoesOn, Indices DEF Jobs
<1>4. /\ post' \in [Payloads -> {"none", "waiting", "taken"}]
      /\ req' \in [Payloads -> Requests]
      /\ \A q \in Payloads \ {p} : post'[q] = post[q] /\ req'[q] = req[q]
      /\ post'[p] = "taken" /\ req'[p] = Idle
  BY <1>1, <1>2 DEF TypeOK, Requests
<1>5. ServingOK(p)'
  BY <1>1, <1>3, <1>4 DEF ServingOK, Own, IsOwn
<1> QED
  BY <1>3, <1>4, <1>5, TypeOfOne DEF TypeOK

\* The three steps of a request.
LEMMA TypeRequest ==
    ASSUME SealInv, NEW p \in Payloads, Request(p)
    PROVE  TypeOK'
<1> USE DEF SealInv
<1>1. /\ Slug[p] \in Accounts \ Late /\ row[Slug[p]] \in {Old, New}
  BY IntakeAssumption DEF TypeOK, SealedInTime
<1>2. used \in [Accounts \ Late -> 0..Limit] /\ faults \in 0..MaxFaults
  BY DEF TypeOK
<1>3. ASSUME NEW r \in Requests, req[p].pc # "idle", req' = [req EXCEPT ![p] = r],
             r.pc # "idle", r.env # {},
             r.pc \in {"verify", "limit"} => r.version # NoRow,
             r.pc = "limit" => Receipts[p] = <<>> /\ r.version \in r.env,
             UNCHANGED <<sealing, out, status, handed, told, post, job, used>>,
             faults' \in 0..MaxFaults
      PROVE  TypeOK'
  <2>1. /\ post' \in [Payloads -> {"none", "waiting", "taken"}]
        /\ req' \in [Payloads -> Requests] /\ job' \in [Payloads -> Jobs]
        /\ \A q \in Payloads \ {p} : post'[q] = post[q] /\ req'[q] = req[q] /\ job'[q] = job[q]
        /\ req'[p] = r /\ post'[p] = "waiting" /\ job'[p].pc = "none"
    BY <1>3 DEF TypeOK, Requests, Jobs
  <2>2. ServingOK(p)'
    BY <1>3, <2>1 DEF ServingOK
  <2>3. /\ used' \in [Accounts \ Late -> 0..Limit]
        /\ handed' \subseteq Ids /\ told' \subseteq Payloads
        /\ out' = out /\ status' \in [Outbound -> Statuses \cup {NoStatus}]
        /\ \A m \in Outbound : status'[m] # NoStatus => out[m] = "row"
    BY <1>2, <1>3 DEF TypeOK
  <2>4. TypeOK /\ UNCHANGED sealing /\ faults' \in 0..MaxFaults
    BY <1>3
  <2> QED
    BY <2>1, <2>2, <2>3, <2>4, TypeOfOne
<1>4. CASE Lookup(p)
  <2>1. req[p] \in Requests /\ req[p].pc = "lookup" /\ req[p].env # {}
    BY <1>4 DEF Lookup, TypeOK, Requests
  <2>2. UNCHANGED <<sealing, out, status, used, handed, told>> /\ faults' \in 0..MaxFaults
    BY <1>2, <1>4, IntakeAssumption DEF Lookup, sending, Works, Fails
  <2>3. CASE req' = [req EXCEPT ![p].pc = "verify", ![p].version = row[Slug[p]]]
             /\ UNCHANGED <<post, job>>
    <3> DEFINE r == [req[p] EXCEPT !.pc = "verify", !.version = row[Slug[p]]]
    <3>1. /\ r \in Requests /\ r.pc = "verify" /\ r.version # NoRow /\ r.env # {}
          /\ req' = [req EXCEPT ![p] = r]
      <4>1. req' = [req EXCEPT ![p] = r]
        BY <2>3 DEF TypeOK
      <4>2. row[Slug[p]] \in {NoRow, Old, New} /\ row[Slug[p]] # NoRow
        BY <1>1 DEF Old, New, NoRow
      <4>3. r \in Requests /\ r.pc = "verify" /\ r.version = row[Slug[p]] /\ r.env = req[p].env
        BY <2>1, <4>2, LookedUp
      <4> QED
        BY <2>1, <4>1, <4>2, <4>3
    <3> QED
      <4> HIDE DEF r
      <4> QED
        BY <1>3, <2>1, <2>2, <2>3, <3>1
  <2>4. CASE req' = [req EXCEPT ![p].tries = 1] /\ UNCHANGED <<post, job>>
    <3> DEFINE r == [req[p] EXCEPT !.tries = 1]
    <3>1. r \in Requests /\ r.pc = "lookup" /\ r.env # {} /\ req' = [req EXCEPT ![p] = r]
      <4>1. req' = [req EXCEPT ![p] = r]
        BY <2>4 DEF TypeOK
      <4>2. r = [pc |-> req[p].pc, env |-> req[p].env, tries |-> 1, version |-> req[p].version]
        BY <2>1 DEF Requests
      <4> QED
        BY <2>1, <4>1, <4>2 DEF Requests
    <3> QED
      <4> HIDE DEF r
      <4> QED
        BY <1>3, <2>1, <2>2, <2>4, <3>1
  <2>5. CASE Refuse(p)
    BY <1>2, <2>1, <2>2, <2>5, TypeRefuse
  <2> QED
    BY <1>4, <2>3, <2>4, <2>5 DEF Lookup
<1>5. CASE Verify(p)
  <2>1. req[p] \in Requests /\ req[p].pc = "verify" /\ req[p].env # {} /\ req[p].version # NoRow
    BY <1>5 DEF Verify, TypeOK, Requests
  <2>2. UNCHANGED <<sealing, out, status, used, handed, told, faults>>
    BY <1>5 DEF Verify, sending
  <2>3. CASE Refuse(p)
    BY <1>2, <2>1, <2>2, <2>3, TypeRefuse
  <2>4. CASE Take(p, "statuses", DOMAIN Receipts[p])
    BY <1>2, <2>1, <2>2, <2>4, TypeTake
  <2>5. CASE /\ Opens(p) /\ Receipts[p] = <<>>
             /\ req' = [req EXCEPT ![p].pc = "limit"] /\ UNCHANGED <<post, job>>
    <3> DEFINE r == [req[p] EXCEPT !.pc = "limit"]
    <3>1. /\ r \in Requests /\ r.pc = "limit" /\ r.env = req[p].env
          /\ r.version = req[p].version /\ r.version \in r.env
          /\ req' = [req EXCEPT ![p] = r]
      BY <2>1, <2>5 DEF TypeOK, Requests, Opens
    <3> QED
      <4> HIDE DEF r
      <4> QED
        BY <1>2, <1>3, <2>1, <2>2, <2>5, <3>1
  <2> QED
    BY <1>5, <2>3, <2>4, <2>5 DEF Verify
<1>6. CASE LimitIt(p)
  <2>1. req[p].pc # "idle" /\ UNCHANGED <<sealing, out, status, handed, told, faults>>
    BY <1>6 DEF LimitIt, sending
  <2>2. used' \in [Accounts \ Late -> 0..Limit]
    BY <1>1, <1>2, <1>6, IntakeAssumption DEF LimitIt
  <2>3. Take(p, "messages", Own(p)) \/ Refuse(p)
    BY <1>6 DEF LimitIt, OverLimit
  <2> QED
    BY <1>2, <2>1, <2>2, <2>3, TypeRefuse, TypeTake
<1> QED
  BY <1>4, <1>5, <1>6 DEF Request

\* guard ends one job where it is.
LEMMA ThrowReports ==
    ASSUME TypeOK, NEW p \in Payloads, AfterThrow(p)
    PROVE  /\ job' \in [Payloads -> Jobs] /\ \A q \in Payloads \ {p} : job'[q] = job[q]
           /\ job'[p].pc = "report"
<1> DEFINE r == [job[p] EXCEPT !.pc = "report"]
<1>1. job \in [Payloads -> Jobs]
  BY DEF TypeOK, Jobs
<1>2. r \in Jobs /\ r.pc = "report"
  BY <1>1 DEF Jobs
<1>3. job' = [job EXCEPT ![p] = r]
  BY <1>1 DEF AfterThrow
<1> QED
  <2> HIDE DEF r
  <2> QED
    BY <1>1, <1>2, <1>3

\* The steps of the work behind the 200.
LEMMA TypeWork ==
    ASSUME SealInv, NEW p \in Payloads, Work(p)
    PROVE  TypeOK'
<1>1. TypeOK
  BY DEF SealInv
<1>2. faults' \in 0..MaxFaults /\ UNCHANGED <<sealing, post, req, used, out>>
  BY <1>1, IntakeAssumption DEF Work, Dispatch, ApplyReceipt, Report, Works, Fails, TypeOK, sending
<1>3. req[p].pc = "idle" \/ job[p].pc = "none"
  BY <1>1 DEF TypeOK
<1>4. /\ post' \in [Payloads -> {"none", "waiting", "taken"}] /\ req' \in [Payloads -> Requests]
      /\ used' \in [Accounts \ Late -> 0..Limit]
      /\ \A q \in Payloads \ {p} : post'[q] = post[q] /\ req'[q] = req[q]
  BY <1>1, <1>2 DEF TypeOK, Requests
<1>5. ASSUME job[p].pc # "none",
             job' \in [Payloads -> Jobs],
             \A q \in Payloads \ {p} : job'[q] = job[q],
             job'[p].pc = "messages" => job'[p].at \in Own(p),
             job'[p].pc = "statuses" => job'[p].at \in DOMAIN Receipts[p],
             handed' \subseteq Ids, told' \subseteq Payloads,
             status' \in [Outbound -> Statuses \cup {NoStatus}],
             \A m \in Outbound : status'[m] # NoStatus => out[m] = "row"
      PROVE  TypeOK'
  <2>1. post[p] = "taken" /\ req[p].pc = "idle"
    BY <1>1, <1>5 DEF TypeOK
  <2>2. ServingOK(p)'
    BY <1>2, <1>5, <2>1 DEF ServingOK, Own, IsOwn
  <2>3. out' = out /\ UNCHANGED sealing
    BY <1>2
  <2> QED
    BY <1>1, <1>2, <1>4, <1>5, <2>2, <2>3, TypeOfOne
<1>6. CASE Dispatch(p)
  <2>1. job[p].pc = "messages" /\ job[p].at \in Own(p) /\ UNCHANGED <<status, told>>
    BY <1>1, <1>6 DEF Dispatch, TypeOK, sending
  <2>2. handed' \subseteq Ids
    <3>1. Messages[p][job[p].at].id \in Ids
      BY <2>1 DEF Ids, Own
    <3> QED
      BY <1>1, <1>6, <3>1 DEF Dispatch, TypeOK
  <2>3. CASE Onward(p, Own(p))
    <3>1. /\ job' \in [Payloads -> Jobs] /\ \A q \in Payloads \ {p} : job'[q] = job[q]
          /\ job'[p].pc \in {"messages", "done"} /\ (job'[p].pc # "done" => job'[p].at \in Own(p))
      BY <1>1, <2>1, <2>3, OnwardGoesOn, Indices DEF Jobs
    <3> QED
      BY <1>1, <1>5, <2>1, <2>2, <3>1 DEF TypeOK
  <2>4. CASE AfterThrow(p)
    <3>1. /\ job' \in [Payloads -> Jobs] /\ \A q \in Payloads \ {p} : job'[q] = job[q]
          /\ job'[p].pc = "report"
      BY <1>1, <2>4, ThrowReports
    <3> QED
      BY <1>1, <1>5, <2>1, <2>2, <3>1 DEF TypeOK
  <2> QED
    BY <1>6, <2>3, <2>4 DEF Dispatch
<1>7. CASE ApplyReceipt(p)
  <2>1. /\ job[p].pc = "statuses" /\ job[p].at \in DOMAIN Receipts[p]
        /\ UNCHANGED <<handed, told>>
    BY <1>1, <1>7 DEF ApplyReceipt, TypeOK
  <2> DEFINE receipt == Receipts[p][job[p].at]
  <2>2. receipt.of \in Outbound /\ receipt.status \in Statuses
    BY <2>1, IntakeAssumption DEF Statuses
  <2>3. /\ status' \in [Outbound -> Statuses \cup {NoStatus}]
        /\ \A m \in Outbound : status'[m] # NoStatus => out[m] = "row"
    <3>1. status \in [Outbound -> Statuses \cup {NoStatus}]
      BY <1>1 DEF TypeOK
    <3>2. CASE status' = status
      BY <1>1, <3>2 DEF TypeOK
    <3>3. CASE out[receipt.of] = "row" /\ status' = [status EXCEPT ![receipt.of] = receipt.status]
      <4> HIDE DEF receipt
      <4> QED
        BY <1>1, <2>2, <3>1, <3>3 DEF TypeOK
    <3> QED
      BY <1>7, <3>2, <3>3 DEF ApplyReceipt, Matches
  <2>4. CASE Onward(p, DOMAIN Receipts[p])
    <3>1. /\ job' \in [Payloads -> Jobs] /\ \A q \in Payloads \ {p} : job'[q] = job[q]
          /\ job'[p].pc \in {"statuses", "done"}
          /\ job'[p].pc # "done" => job'[p].at \in DOMAIN Receipts[p]
      BY <1>1, <2>1, <2>4, OnwardGoesOn, Indices DEF Jobs
    <3> QED
      BY <1>1, <1>5, <2>1, <2>3, <3>1 DEF TypeOK
  <2>5. CASE AfterThrow(p)
    <3>1. /\ job' \in [Payloads -> Jobs] /\ \A q \in Payloads \ {p} : job'[q] = job[q]
          /\ job'[p].pc = "report"
      BY <1>1, <2>5, ThrowReports
    <3> QED
      BY <1>1, <1>5, <2>1, <2>3, <3>1 DEF TypeOK
  <2> QED
    BY <1>7, <2>4, <2>5 DEF ApplyReceipt
<1>8. CASE Report(p)
  <2>1. /\ job[p].pc = "report" /\ UNCHANGED <<handed, status>> /\ told' \subseteq Payloads
        /\ job' = [job EXCEPT ![p] = [NoJob EXCEPT !.pc = "done"]]
    BY <1>1, <1>8 DEF Report, TypeOK, sending
  <2>2. [NoJob EXCEPT !.pc = "done"] \in Jobs /\ [NoJob EXCEPT !.pc = "done"].pc = "done"
    BY DEF NoJob, Jobs
  <2>3. /\ job' \in [Payloads -> Jobs] /\ \A q \in Payloads \ {p} : job'[q] = job[q]
        /\ job'[p].pc = "done"
    BY <1>1, <2>1, <2>2 DEF TypeOK, Jobs
  <2> QED
    BY <1>1, <1>5, <2>1, <2>3 DEF TypeOK
<1> QED
  BY <1>6, <1>7, <1>8 DEF Work

\* Every step keeps the types.
LEMMA TypeNext ==
    ASSUME SealInv, [Next]_vars
    PROVE  TypeOK'
<1>1. CASE \/ \E a \in Late : Seal(a) \/ InsertAccount(a)
           \/ PutKey \/ DeleteKey
           \/ \E a \in Accounts : MoveRow(a)
           \/ \E p \in Payloads : Prove(p)
  <2>1. UNCHANGED <<serving, sending, faults>>
    BY <1>1 DEF Seal, InsertAccount, PutKey, DeleteKey, MoveRow, Prove
  <2> QED
    BY <1>1, <2>1, TypeSealing
<1>2. CASE \E a \in Accounts \ Late : NextWindow(a)
  <2>1. /\ UNCHANGED <<sealing, sending, post, req, job, handed, told, faults>>
        /\ used' \in [Accounts \ Late -> 0..Limit]
    BY <1>2, IntakeAssumption DEF NextWindow, SealInv, TypeOK
  <2> QED
    BY <2>1 DEF SealInv, TypeOK, sealing, sending, Own, IsOwn, Ids, Statuses
<1>3. CASE \E p \in Payloads : Deliver(p) \/ Request(p) \/ Work(p)
  BY <1>3, TypeDeliver, TypeRequest, TypeWork
<1>4. CASE \E m \in Outbound : InsertOutbound(m)
  <2>1. PICK m \in Outbound : InsertOutbound(m)
    BY <1>4
  <2>2. /\ UNCHANGED <<sealing, serving, status, faults>>
        /\ out' \in [Outbound -> {"sent", "row"}]
        /\ \A n \in Outbound : out[n] = "row" => out'[n] = "row"
    BY <2>1 DEF InsertOutbound, SealInv, TypeOK
  <2> QED
    BY <2>2 DEF SealInv, TypeOK, sealing, serving, Own, IsOwn, Ids, Statuses
<1>5. CASE UNCHANGED vars
  BY <1>5 DEF vars, SealInv, TypeOK, Own, IsOwn, Ids, Statuses
<1> QED
  BY <1>1, <1>2, <1>3, <1>4, <1>5 DEF Next

-----------------------------------------------------------------------------
(* The keys.                                                               *)

\* Nobody but the sealing side touches what it keeps.
LEMMA SealingKept ==
    ASSUME [Next]_vars
    PROVE  \/ UNCHANGED sealing
           \/ \E a \in Late : Seal(a) \/ InsertAccount(a)
           \/ PutKey \/ DeleteKey
           \/ \E a \in Accounts : MoveRow(a)
           \/ \E p \in Payloads : Prove(p)
<1>1. ASSUME NEW p \in Payloads, Deliver(p) \/ Request(p) \/ Work(p) PROVE UNCHANGED sealing
  BY <1>1 DEF Deliver, Request, Lookup, Verify, LimitIt, Work, Dispatch, ApplyReceipt, Report
<1>2. ASSUME NEW a \in Accounts \ Late, NextWindow(a) PROVE UNCHANGED sealing
  BY <1>2 DEF NextWindow
<1>3. ASSUME NEW m \in Outbound, InsertOutbound(m) PROVE UNCHANGED sealing
  BY <1>3 DEF InsertOutbound
<1>4. UNCHANGED vars => UNCHANGED sealing
  BY DEF vars, sealing
<1> QED
  BY <1>1, <1>2, <1>3, <1>4 DEF Next

LEMMA SealNext ==
    ASSUME SealInv, [Next]_vars
    PROVE  SealInv'
<1> USE IntakeAssumption DEF SealInv, Old, New, NoRow
<1>1. TypeOK'
  BY TypeNext
<1>2. CurrentVersion(keys) \in keys
  <2>1. keys = {Old} \/ keys = {Old, New} \/ keys = {New}
    BY DEF KeysFollow, TypeOK
  <2> QED
    BY <2>1, NewestKey
<1>3. CASE UNCHANGED sealing
  BY <1>1, <1>3 DEF sealing, KeysFollow, SealedInTime, SealedIsReadable, CurrentVersion
<1>4. ASSUME NEW a \in Late, Seal(a) PROVE SealInv'
  <2>1. /\ UNCHANGED <<row, keys, moving, late>>
        /\ joining' = [joining EXCEPT ![a] = CurrentVersion(keys)]
    BY <1>4 DEF Seal
  <2>2. SealedInTime'
    BY <2>1 DEF SealedInTime, TypeOK, CurrentVersion
  <2> QED
    BY <1>1, <2>1, <2>2 DEF KeysFollow, SealedIsReadable
<1>5. ASSUME NEW a \in Late, InsertAccount(a) PROVE SealInv'
  <2>1. /\ UNCHANGED <<keys, moving, late>> /\ joining[a] # NoRow
        /\ row' = [row EXCEPT ![a] = joining[a]] /\ joining' = [joining EXCEPT ![a] = NoRow]
    BY <1>5 DEF InsertAccount
  <2>2. SealedInTime'
    BY <2>1 DEF SealedInTime, TypeOK, CurrentVersion
  <2>3. SealedIsReadable'
    BY <1>2, <2>1 DEF SealedInTime, SealedIsReadable, TypeOK
  <2> QED
    BY <1>1, <2>1, <2>2, <2>3 DEF KeysFollow
<1>6. CASE PutKey
  <2>1. /\ moving = "no" /\ moving' = "put" /\ keys' = keys \cup {New}
        /\ late' = {a \in Late : joining[a] # NoRow} /\ UNCHANGED <<row, joining>>
    BY <1>6 DEF PutKey
  <2>2. keys = {Old} /\ late = {}
    BY <2>1 DEF KeysFollow
  <2> QED
    BY <1>1, <2>1, <2>2 DEF KeysFollow, SealedInTime, SealedIsReadable, TypeOK
<1>7. CASE DeleteKey
  <2>1. /\ moving = "proved" /\ \A a \in Accounts : row[a] # Old
        /\ moving' = "done" /\ keys' = keys \ {Old} /\ UNCHANGED <<row, joining, late>>
    BY <1>7 DEF DeleteKey, OldIsUnused
  <2>2. keys = {Old, New} /\ keys' = {New}
    BY <2>1 DEF KeysFollow
  <2>3. CurrentVersion(keys) = New /\ CurrentVersion(keys') = New
    BY <2>2, NewestKey
  <2>4. SealedInTime'
    BY <2>1, <2>3 DEF SealedInTime, CurrentVersion
  <2>5. SealedIsReadable'
    BY <2>1, <2>2 DEF SealedIsReadable, TypeOK
  <2> QED
    BY <1>1, <2>1, <2>2, <2>4, <2>5 DEF KeysFollow
<1>8. ASSUME NEW a \in Accounts, MoveRow(a) PROVE SealInv'
  <2>1. /\ moving # "no" /\ row' = [row EXCEPT ![a] = New]
        /\ UNCHANGED <<keys, joining, moving, late>>
    BY <1>8 DEF MoveRow
  <2>2. New \in keys
    BY <2>1 DEF KeysFollow, TypeOK
  <2> QED
    BY <1>1, <2>1, <2>2 DEF KeysFollow, SealedInTime, SealedIsReadable, TypeOK, CurrentVersion
<1>9. ASSUME NEW p \in Payloads, Prove(p) PROVE SealInv'
  <2>1. moving = "put" /\ moving' = "proved" /\ UNCHANGED <<row, keys, joining, late>>
    BY <1>9 DEF Prove
  <2> QED
    BY <1>1, <2>1 DEF KeysFollow, SealedInTime, SealedIsReadable, CurrentVersion
<1> QED
  BY <1>3, <1>4, <1>5, <1>6, <1>7, <1>8, <1>9, SealingKept

\* The types of Intake, with what the places of a request and of the work
\* behind it say of each other (webhook.ts:23-69).
THEOREM IntakeTypes == Spec => []TypeOK
<1>1. SealInv /\ [Next]_vars => SealInv'
  BY SealNext
<1> QED
  BY <1>1, TypeInit, PTL DEF Spec, SealInv

\* A rotation, however it interleaves with onboardings and posts, leaves no row
\* under a key that is gone, but for an onboarding that it overtook
\* (crypto.ts:37-61, rotate-key.ts:17-22).
THEOREM RowsStayReadable == Spec => []SealedIsReadable
<1>1. SealInv /\ [Next]_vars => SealInv'
  BY SealNext
<1> QED
  BY <1>1, TypeInit, PTL DEF Spec, SealInv

-----------------------------------------------------------------------------
(* The messages.                                                           *)

\* What was handed over, told and suffered stays so.
LEMMA HistoryGrows ==
    ASSUME TypeOK, [Next]_vars
    PROVE  handed \subseteq handed' /\ told \subseteq told' /\ faults \in Nat /\ faults' \in Nat
           /\ faults <= faults'
<1>1. faults \in Nat
  BY IntakeAssumption DEF TypeOK
<1>2. ASSUME NEW p \in Payloads, Request(p) \/ Work(p)
      PROVE  handed \subseteq handed' /\ told \subseteq told' /\ faults' \in {faults, faults + 1}
  BY <1>2 DEF Request, Lookup, Verify, LimitIt, Work, Dispatch, ApplyReceipt, Report, Works, Fails
<1>3. ASSUME ~(\E p \in Payloads : Request(p) \/ Work(p)) PROVE UNCHANGED <<handed, told, faults>>
  BY <1>3 DEF Next, vars, Seal, InsertAccount, PutKey, DeleteKey, MoveRow, NextWindow, Deliver,
     Prove, InsertOutbound, serving
<1> QED
  BY <1>1, <1>2, <1>3

\* A step that leaves a job where it is leaves it in order.
LEMMA WalkedStays ==
    ASSUME TypeOK, [Next]_vars, NEW p \in Payloads, Walked(p), job'[p] = job[p]
    PROVE  Walked(p)'
BY HistoryGrows DEF Walked, Own, IsOwn

\* The work starts at the first message, or has none to hand over.
LEMMA WalkedFromTheStart ==
    ASSUME TypeOK, NEW p \in Payloads, Take(p, "messages", Own(p))
    PROVE  Walked(p)'
<1>1. \/ Own(p) = {} /\ job'[p].pc = "done"
      \/ job'[p].pc = "messages" /\ job'[p].at \in Own(p) /\ \A k \in Own(p) : job'[p].at <= k
  BY Indices, WorkGoesOn DEF Take
<1>2. Own(p) \in SUBSET Nat /\ Own(p)' = Own(p)
  BY Indices DEF Own, IsOwn
<1> QED
  BY <1>1, <1>2 DEF Walked

\* From one message to the next none is passed over, and a throw is counted.
LEMMA WalkedOn ==
    ASSUME TypeOK, [Next]_vars, NEW p \in Payloads, Walked(p), Dispatch(p)
    PROVE  Walked(p)'
<1>1. job[p].pc = "messages" /\ job[p].at \in Own(p)
  BY DEF Dispatch, TypeOK
<1>2. Own(p) \in SUBSET Nat /\ Own(p)' = Own(p)
  BY Indices DEF Own, IsOwn
<1>3. CASE handed' = handed \cup {Messages[p][job[p].at].id} /\ Onward(p, Own(p))
  <2>1. /\ job'[p].pc \in {"messages", "done"}
        /\ job'[p].pc # "done" => job'[p].at \in Own(p)
        /\ \A k \in Own(p) : k > job[p].at => job'[p].pc # "done" /\ job'[p].at <= k
    BY <1>1, <1>2, <1>3, OnwardGoesOn
  <2>2. \A i \in Own(p) : i <= job[p].at => Messages[p][i].id \in handed'
    BY <1>1, <1>2, <1>3 DEF Walked
  <2>3. ASSUME NEW i \in Own(p), job'[p].pc = "messages" => i < job'[p].at
        PROVE  i <= job[p].at
    BY <1>1, <1>2, <2>1, <2>3
  <2> QED
    BY <1>2, <2>1, <2>2, <2>3 DEF Walked
<1>4. CASE Fails /\ AfterThrow(p)
  <2>1. job'[p].pc = "report"
    BY <1>4, ThrowReports
  <2>2. faults' >= 1
    BY <1>4, IntakeAssumption DEF Fails, TypeOK
  <2> QED
    BY <2>1, <2>2 DEF Walked
<1> QED
  BY <1>3, <1>4 DEF Dispatch

\* A report that fails as well is a second failure.
LEMMA WalkedToTheEnd ==
    ASSUME TypeOK, NEW p \in Payloads, Walked(p), Report(p)
    PROVE  Walked(p)'
<1>1. job[p].pc = "report" /\ faults >= 1 /\ faults \in Nat
  BY IntakeAssumption DEF Report, Walked, TypeOK
<1>2. job'[p].pc = "done"
  BY DEF Report, TypeOK, NoJob, Jobs
<1>3. p \in told' \/ faults' >= 2
  BY <1>1 DEF Report, Fails
<1> QED
  BY <1>2, <1>3 DEF Walked

LEMMA WalkNext ==
    ASSUME WalkInv, [Next]_vars
    PROVE  WalkInv'
<1> USE DEF WalkInv, SealInv
<1>1. SealInv'
  BY SealNext
<1>2. ASSUME NEW p \in Payloads, Receipts[p] = <<>> PROVE Walked(p)'
  <2>1. Walked(p) /\ job[p].pc # "statuses"
    BY <1>2 DEF WalkedInOrder, TypeOK
  <2>2. CASE job'[p] = job[p]
    BY <2>1, <2>2, WalkedStays
  <2>3. ASSUME NEW q \in Payloads, Verify(q) \/ LimitIt(q) PROVE Walked(p)'
    <3>1. CASE UNCHANGED job
      BY <2>2, <3>1
    <3>2. CASE Take(q, "statuses", DOMAIN Receipts[q]) /\ Receipts[q] # <<>>
      <4>1. p # q
        BY <1>2, <3>2
      <4>2. job'[p] = job[p]
        BY <3>2, <4>1, Indices, WorkGoesOn DEF Take
      <4> QED
        BY <2>2, <4>2
    <3>3. CASE Take(q, "messages", Own(q))
      <4>1. p # q => job'[p] = job[p]
        BY <3>3, Indices, WorkGoesOn DEF Take
      <4> QED
        BY <2>2, <3>3, <4>1, WalkedFromTheStart
    <3> QED
      BY <2>3, <3>1, <3>2, <3>3 DEF Verify, LimitIt, Refuse, OverLimit
  <2>4. ASSUME NEW q \in Payloads, Work(q) PROVE Walked(p)'
    <3>1. p # q => job'[p] = job[p]
      <4>1. CASE Dispatch(q)
        <5>1. job[q].pc = "messages" /\ (Onward(q, Own(q)) \/ AfterThrow(q))
          BY <4>1 DEF Dispatch
        <5> QED
          BY <5>1, Indices, OnwardGoesOn, ThrowReports
      <4>2. CASE ApplyReceipt(q)
        <5>1. job[q].pc = "statuses" /\ (Onward(q, DOMAIN Receipts[q]) \/ AfterThrow(q))
          BY <4>2 DEF ApplyReceipt
        <5> QED
          BY <5>1, Indices, OnwardGoesOn, ThrowReports
      <4>3. CASE Report(q)
        BY <4>3 DEF Report, TypeOK
      <4> QED
        BY <2>4, <4>1, <4>2, <4>3 DEF Work
    <3>2. p = q => Dispatch(p) \/ Report(p)
      BY <2>1, <2>4 DEF Work, ApplyReceipt
    <3> QED
      BY <2>1, <2>2, <3>1, <3>2, WalkedOn, WalkedToTheEnd
  <2>5. ASSUME ~(\E q \in Payloads : Verify(q) \/ LimitIt(q) \/ Work(q)) PROVE UNCHANGED job
    BY <2>5 DEF Next, vars, Seal, InsertAccount, PutKey, DeleteKey, MoveRow, NextWindow, Deliver,
       Prove, Request, Lookup, Refuse, InsertOutbound, serving
  <2> QED
    BY <2>2, <2>3, <2>4, <2>5
<1> QED
  BY <1>1, <1>2 DEF WalkedInOrder

\* It takes two failures to lose a message that a 200 was given for with nobody
\* told, for any posts, limits and failures (webhook.ts:57-68, monitor.ts:70).
THEOREM OneFailureTells == Spec => []OneFailureIsNeverSilent
<1>1. Init => WalkInv
  BY TypeInit DEF Init, WalkInv, WalkedInOrder, Walked, NoJob
<1>2. WalkInv /\ [Next]_vars => WalkInv'
  BY WalkNext
<1>3. WalkInv => OneFailureIsNeverSilent
  BY DEF WalkInv, WalkedInOrder, Walked, OneFailureIsNeverSilent
<1> QED
  BY <1>1, <1>2, <1>3, PTL DEF Spec
=============================================================================
