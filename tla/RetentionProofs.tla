-------------------------- MODULE RetentionProofs --------------------------
(***************************************************************************)
(* What Retention promises, for any clients, conversations, terms and      *)
(* faults: its types, which rows may forget an object that is still there, *)
(* that nothing goes before its time, and that a job that reports success  *)
(* has done its work.                                                      *)
(***************************************************************************)
EXTENDS Retention, TLAPS

\* A message that is not inserted yet, or whose conversation has gone, has no
\* row; and only what carries an attachment is given a key.
Fresh == \A m \in Msgs :
    /\ inb[m].pc # "done" \/ ~alive[ConvOf[m]] => row[m] = NoRow
    /\ inb[m].key \/ row[m].key => m \in Pictures

\* An erasure holds objects of its own conversation only.
Erasing == \A c \in Convs : \A m \in era[c].keys : ConvOf[m] = c

\* What a pass has read still answers to its filter, and is all that does but
\* for the rows that came since; and before the rows go, the objects have.
Sweeping == job.pc \in {"remove", "write"} =>
    /\ \A m \in job.there \cup job.keys : inb[m].pc = "done"
    /\ \A m \in Rows \cap job.keys : Chosen(m)
    /\ \A m \in Rows \cap job.there : Chosen(m) /\ row[m].key => m \in job.keys
    /\ job.pc = "write" => job.keys \cap stored \subseteq job.refused

\* The terms that the job goes by are those of a client that has kept its own;
\* a conversation that it scrubs was flagged in time.
GoesByTerms ==
    /\ job.pc = "terms" => job.phase # "scrub"
    /\ job.pc \in {"select", "remove", "write"} =>
         IF job.phase = "scrub" THEN \A c \in job.convs : alive[c] => FlaggedBefore(c, day - 1)
         ELSE \A o \in job.steady : job.terms[o] = terms[o]

SafeInv == TypeOK /\ Fresh /\ Erasing /\ Sweeping /\ GoesByTerms

\* Nothing that was due when the job began is behind it: it is in this pass, in
\* one that is left, or in a phase to come.
InAPass(m) == job.pc = "terms" \/ Scoped(m) \/ Org(m) \in job.left
NotPassedOver == job.pc # "idle" =>
    /\ \A m \in job.owed.scrub \cup job.owed.media \cup job.owed.rows : inb[m].pc = "done"
    /\ \A m \in job.owed.media \cup job.owed.rows : job.pc # "ping" => Org(m) \in job.steady
    /\ \A m \in job.owed.scrub :
         IF job.pc # "ping" /\ job.phase = "scrub" THEN ConvOf[m] \in job.convs
         ELSE ~row[m].body /\ ~row[m].key
    /\ \A m \in job.owed.media : row[m].key =>
         /\ job.pc # "ping" /\ job.phase # "rows" /\ Overdue(m, "media")
         /\ job.phase = "media" => InAPass(m)
    /\ \A m \in job.owed.rows \cap Rows :
         /\ job.pc # "ping" /\ Overdue(m, "rows")
         /\ job.phase = "rows" => InAPass(m)

DoneInv == SafeInv /\ NotPassedOver

-----------------------------------------------------------------------------
(* The job's record.                                                       *)

\* A field that changes by itself.
LEMMA JobFields ==
    ASSUME NEW j \in Jobs
    PROVE  /\ \A v \in {"idle", "terms", "select", "remove", "write", "ping"} :
                [j EXCEPT !.pc = v] \in Jobs
           /\ \A v \in {"scrub", "media", "rows"} : [j EXCEPT !.phase = v] \in Jobs
           /\ \A v \in Orgs \cup {EveryoneElse} : [j EXCEPT !.scope = v] \in Jobs
           /\ \A v \in SUBSET Orgs : [j EXCEPT !.left = v] \in Jobs
           /\ \A v \in [Orgs -> Overrides \cup {NoOverride}] : [j EXCEPT !.terms = v] \in Jobs
           /\ \A v \in SUBSET Convs : [j EXCEPT !.convs = v] \in Jobs
           /\ \A v \in SUBSET Pictures : [j EXCEPT !.keys = v] \in Jobs
           /\ \A v \in SUBSET Pictures : [j EXCEPT !.refused = v] \in Jobs
           /\ \A v \in SUBSET Msgs : [j EXCEPT !.there = v] \in Jobs
           /\ \A v \in SUBSET Orgs : [j EXCEPT !.steady = v] \in Jobs
           /\ \A v \in [scrub : SUBSET Msgs, media : SUBSET Msgs, rows : SUBSET Msgs] :
                [j EXCEPT !.owed = v] \in Jobs
BY DEF Jobs

LEMMA NoJobType == NoJob \in Jobs /\ NoJob.pc = "idle"
BY DEF NoJob, Jobs, NothingOwed

\* After the scrub the sweeps come.
LEMMA ScrubIsOver ==
    ASSUME NEW j \in Jobs
    PROVE  LET k == AfterScrub(j) IN
           /\ k \in Jobs /\ k.pc = "terms" /\ k.phase = "media" /\ k.keys = {} /\ k.there = {}
           /\ k.steady = j.steady /\ k.owed = j.owed
<1> DEFINE k1 == [j EXCEPT !.pc = "terms"]
           k2 == [k1 EXCEPT !.phase = "media"]
           k3 == [k2 EXCEPT !.convs = {}]
           k4 == [k3 EXCEPT !.keys = {}]
<1>1. k1 \in Jobs
  BY JobFields
<1>2. k2 \in Jobs
  <2> HIDE DEF k1
  <2> QED
    BY <1>1, JobFields
<1>3. k3 \in Jobs
  <2> HIDE DEF k2
  <2> QED
    BY <1>2, JobFields
<1>4. k4 \in Jobs
  <2> HIDE DEF k3
  <2> QED
    BY <1>3, JobFields
<1>5. [k4 EXCEPT !.there = {}] \in Jobs
  <2> HIDE DEF k4
  <2> QED
    BY <1>4, JobFields
<1> QED
  BY <1>5 DEF AfterScrub, Jobs

\* After a pass: the next client that overrode, the next phase, or the end.
LEMMA PassIsOver ==
    ASSUME TypeOK, NEW k \in NextPasses
    PROVE  /\ k \in Jobs /\ k.owed = job.owed
           /\ k.pc = "ping" \/ (k.convs = job.convs /\ k.steady = job.steady)
           /\ \/ /\ k.pc = "select" /\ k.scope \in job.left /\ k.left = job.left \ {k.scope}
                 /\ k.phase = job.phase /\ k.terms = job.terms
              \/ job.left = {} /\ job.phase = "media" /\ k.pc = "terms" /\ k.phase = "rows"
              \/ job.left = {} /\ job.phase # "media" /\ k.pc = "ping"
<1>1. job \in Jobs
  BY DEF TypeOK
<1>2. ASSUME NEW o \in job.left,
             k = [job EXCEPT !.pc = "select", !.scope = o, !.left = @ \ {o}, !.keys = {},
                             !.there = {}]
      PROVE  k \in Jobs
  <2> DEFINE k1 == [job EXCEPT !.pc = "select"]
             k2 == [k1 EXCEPT !.scope = o]
             k3 == [k2 EXCEPT !.left = @ \ {o}]
             k4 == [k3 EXCEPT !.keys = {}]
  <2>1. k1 \in Jobs
    BY <1>1, JobFields
  <2>2. k2 \in Jobs
    <3>1. o \in Orgs
      BY <1>1 DEF Jobs
    <3> HIDE DEF k1
    <3> QED
      BY <2>1, <3>1, JobFields
  <2>3. k3 \in Jobs
    <3> HIDE DEF k2
    <3>1. k2.left \ {o} \in SUBSET Orgs
      BY <2>2 DEF Jobs
    <3> QED
      BY <2>2, <3>1, JobFields
  <2>4. k4 \in Jobs
    <3> HIDE DEF k3
    <3> QED
      BY <2>3, JobFields
  <2>5. [k4 EXCEPT !.there = {}] \in Jobs
    <3> HIDE DEF k4
    <3> QED
      BY <2>4, JobFields
  <2> QED
    BY <1>2, <2>5
<1>3. ASSUME k = [job EXCEPT !.pc = "terms", !.phase = "rows", !.keys = {}, !.there = {}]
      PROVE  k \in Jobs
  <2> DEFINE k1 == [job EXCEPT !.pc = "terms"]
             k2 == [k1 EXCEPT !.phase = "rows"]
             k3 == [k2 EXCEPT !.keys = {}]
  <2>1. k1 \in Jobs
    BY <1>1, JobFields
  <2>2. k2 \in Jobs
    <3> HIDE DEF k1
    <3> QED
      BY <2>1, JobFields
  <2>3. k3 \in Jobs
    <3> HIDE DEF k2
    <3> QED
      BY <2>2, JobFields
  <2>4. [k3 EXCEPT !.there = {}] \in Jobs
    <3> HIDE DEF k3
    <3> QED
      BY <2>3, JobFields
  <2> QED
    BY <1>3, <2>4
<1>4. ASSUME k = [NoJob EXCEPT !.pc = "ping", !.owed = job.owed]
      PROVE  k \in Jobs
  <2> DEFINE k1 == [NoJob EXCEPT !.pc = "ping"]
  <2>1. k1 \in Jobs
    BY NoJobType, JobFields
  <2>2. job.owed \in [scrub : SUBSET Msgs, media : SUBSET Msgs, rows : SUBSET Msgs]
    BY <1>1 DEF Jobs
  <2>3. [k1 EXCEPT !.owed = job.owed] \in Jobs
    <3> HIDE DEF k1
    <3> QED
      BY <2>1, <2>2, JobFields
  <2> QED
    BY <1>4, <2>3
<1>5. CASE job.left # {}
  <2>1. PICK o \in job.left :
          k = [job EXCEPT !.pc = "select", !.scope = o, !.left = @ \ {o}, !.keys = {},
                          !.there = {}]
    BY <1>5 DEF NextPasses
  <2> QED
    BY <1>1, <1>2, <2>1 DEF Jobs
<1>6. CASE job.left = {} /\ job.phase = "media"
  <2>1. k = [job EXCEPT !.pc = "terms", !.phase = "rows", !.keys = {}, !.there = {}]
    BY <1>6 DEF NextPasses
  <2> QED
    BY <1>1, <1>3, <1>6, <2>1 DEF Jobs
<1>7. CASE job.left = {} /\ job.phase # "media"
  <2>1. k = [NoJob EXCEPT !.pc = "ping", !.owed = job.owed]
    BY <1>7 DEF NextPasses
  <2> QED
    BY <1>4, <1>7, <2>1 DEF NoJob
<1> QED
  BY <1>5, <1>6, <1>7

\* The job begins: with the flagged conversations, or without any at the sweeps.
LEMMA JobBegins ==
    ASSUME TypeOK, StartJob
    PROVE  /\ job' \in Jobs /\ job.pc = "idle" /\ job'.keys = {} /\ job'.there = {}
           /\ job'.owed = Owed /\ job'.steady = Orgs
           /\ \/ /\ job'.pc = "select" /\ job'.phase = "scrub"
                 /\ job'.convs = {c \in Convs : FlaggedBefore(c, day - 1)}
              \/ /\ job'.pc = "terms" /\ job'.phase = "media"
                 /\ \A c \in Convs : ~FlaggedBefore(c, day - 1)
<1> DEFINE ids == {c \in Convs : FlaggedBefore(c, day - 1)}
           night == [NoJob EXCEPT !.owed = Owed]
           k1 == [night EXCEPT !.pc = "select"]
           k2 == [k1 EXCEPT !.convs = ids]
<1>1. Owed \in [scrub : SUBSET Msgs, media : SUBSET Msgs, rows : SUBSET Msgs]
  BY DEF Owed, Rows
<1>2. night \in Jobs /\ night.owed = Owed /\ night.steady = Orgs /\ night.phase = "scrub"
      /\ night.keys = {} /\ night.there = {}
  BY <1>1, NoJobType, JobFields DEF NoJob
<1>3. k1 \in Jobs
  <2> HIDE DEF night
  <2> QED
    BY <1>2, JobFields
<1>4. k2 \in Jobs
  <2>1. ids \in SUBSET Convs
    OBVIOUS
  <2> HIDE DEF k1, ids
  <2> QED
    BY <1>3, <2>1, JobFields
<1>5. job.pc = "idle" /\ job' = IF ids = {} THEN AfterScrub(night) ELSE k2
  BY DEF StartJob
<1>6. CASE ids = {}
  <2> HIDE DEF night
  <2>1. job' = AfterScrub(night) /\ \A c \in Convs : ~FlaggedBefore(c, day - 1)
    BY <1>5, <1>6
  <2> QED
    BY <1>2, <1>5, <2>1, ScrubIsOver
<1>7. CASE ids # {}
  <2> HIDE DEF night, ids
  <2> QED
    BY <1>2, <1>4, <1>5, <1>7 DEF Jobs, ids
<1> QED
  BY <1>6, <1>7

\* The terms are read.
LEMMA TermsAreRead ==
    ASSUME TypeOK, ReadTerms
    PROVE  /\ job' \in Jobs /\ job.pc = "terms" /\ job'.pc = "select" /\ job'.terms = terms
           /\ job'.phase = job.phase /\ job'.scope = EveryoneElse
           /\ job'.left = {o \in Orgs : Overrode(terms[o], job.phase)}
           /\ job'.steady = job.steady /\ job'.owed = job.owed
<1> DEFINE some == {o \in Orgs : Overrode(terms[o], job.phase)}
           k1 == [job EXCEPT !.pc = "select"]
           k2 == [k1 EXCEPT !.scope = EveryoneElse]
           k3 == [k2 EXCEPT !.terms = terms]
<1>1. k1 \in Jobs
  BY JobFields DEF TypeOK
<1>2. k2 \in Jobs
  <2> HIDE DEF k1
  <2> QED
    BY <1>1, JobFields
<1>3. k3 \in Jobs
  <2> HIDE DEF k2
  <2> QED
    BY <1>2, JobFields DEF TypeOK
<1>4. [k3 EXCEPT !.left = some] \in Jobs
  <2>1. some \in SUBSET Orgs
    OBVIOUS
  <2> HIDE DEF k3, some
  <2> QED
    BY <1>3, <2>1, JobFields
<1>5. job.pc = "terms" /\ job' = [k3 EXCEPT !.left = some]
  BY DEF ReadTerms
<1> QED
  BY <1>4, <1>5 DEF TypeOK, Jobs

\* A pass reads its keys, or has none to drop.
LEMMA KeysAreRead ==
    ASSUME TypeOK, Fresh, SelectKeys
    PROVE  LET found == {m \in Rows : Chosen(m) /\ row[m].key} IN
           /\ job.pc = "select"
           /\ \/ found = {} /\ job.phase = "media" /\ job' \in NextPasses
              \/ /\ job' \in Jobs /\ job'.pc = "remove" /\ job'.keys = found /\ job'.there = Rows
                 /\ job.phase = "media" => found # {}
                 /\ job'.phase = job.phase /\ job'.scope = job.scope /\ job'.terms = job.terms
                 /\ job'.convs = job.convs /\ job'.left = job.left
                 /\ job'.steady = job.steady /\ job'.owed = job.owed
<1> DEFINE found == {m \in Rows : Chosen(m) /\ row[m].key}
           k1 == [job EXCEPT !.pc = "remove"]
           k2 == [k1 EXCEPT !.keys = found]
           k3 == [k2 EXCEPT !.there = Rows]
<1>1. found \in SUBSET Pictures /\ Rows \in SUBSET Msgs
  BY DEF Fresh, Rows
<1>2. k1 \in Jobs
  BY JobFields DEF TypeOK
<1>3. k2 \in Jobs
  <2> HIDE DEF k1, found
  <2> QED
    BY <1>1, <1>2, JobFields
<1>4. k3 \in Jobs
  <2> HIDE DEF k2
  <2> QED
    BY <1>1, <1>3, JobFields
<1>5. job.pc = "select" /\ IF NothingToDrop(found) THEN job' \in NextPasses ELSE job' = k3
  BY DEF SelectKeys, KeysToDrop
<1>6. CASE NothingToDrop(found)
  <2> HIDE DEF found
  <2> QED
    BY <1>5, <1>6 DEF NothingToDrop, found
<1>7. CASE ~NothingToDrop(found)
  <2>1. job' = k3
    BY <1>5, <1>7
  <2>2. job.phase = "media" => found # {}
    BY <1>7 DEF NothingToDrop
  <2> HIDE DEF found
  <2> QED
    BY <1>4, <1>5, <2>1, <2>2 DEF TypeOK, Jobs, found
<1> QED
  BY <1>6, <1>7

\* The objects go, the rows are next.
LEMMA ObjectsGo ==
    ASSUME TypeOK, RemoveObjects
    PROVE  /\ job' \in Jobs /\ job.pc = "remove" /\ job'.pc = "write"
           /\ job'.keys = job.keys /\ job'.there = job.there
           /\ job'.phase = job.phase /\ job'.scope = job.scope /\ job'.terms = job.terms
           /\ job'.convs = job.convs /\ job'.left = job.left
           /\ job'.steady = job.steady /\ job'.owed = job.owed
           /\ stored' \subseteq stored /\ stored \ stored' \subseteq job.keys
           /\ job.keys \cap stored' \subseteq job'.refused
<1>1. job \in Jobs /\ job.pc = "remove"
  BY DEF TypeOK, RemoveObjects
<1>2. PICK refused \in SUBSET job.keys :
        /\ stored' = stored \ (job.keys \ refused)
        /\ job' = [job EXCEPT !.pc = "write", !.refused = refused]
  BY DEF RemoveObjects
<1> DEFINE k1 == [job EXCEPT !.pc = "write"]
<1>3. k1 \in Jobs
  BY <1>1, JobFields
<1>4. [k1 EXCEPT !.refused = refused] \in Jobs
  <2>1. refused \in SUBSET Pictures
    BY <1>1 DEF Jobs
  <2> HIDE DEF k1
  <2> QED
    BY <1>3, <2>1, JobFields
<1>5. job' = [k1 EXCEPT !.refused = refused]
  BY <1>2
<1> QED
  BY <1>1, <1>2, <1>4, <1>5 DEF Jobs

\* A client whose terms change while the job runs is out of what it owes.
LEMMA TermsChange ==
    ASSUME TypeOK, NEW o \in Orgs, job' = Without(o)
    PROVE  /\ job' \in Jobs /\ job'.pc = job.pc
           /\ job'.keys = job.keys /\ job'.there = job.there /\ job'.refused = job.refused
           /\ job'.phase = job.phase /\ job'.scope = job.scope /\ job'.terms = job.terms
           /\ job'.convs = job.convs /\ job'.left = job.left
           /\ job.pc = "idle" => job' = job
           /\ job.pc # "idle" =>
                /\ job'.steady = job.steady \ {o} /\ job'.owed.scrub = job.owed.scrub
                /\ job'.owed.media = {m \in job.owed.media : Org(m) # o}
                /\ job'.owed.rows = {m \in job.owed.rows : Org(m) # o}
<1> DEFINE owed == [scrub |-> job.owed.scrub, media |-> {m \in job.owed.media : Org(m) # o},
                    rows |-> {m \in job.owed.rows : Org(m) # o}]
           k1 == [job EXCEPT !.steady = @ \ {o}]
           k2 == [k1 EXCEPT !.owed = owed]
<1>1. job \in Jobs
  BY DEF TypeOK
<1>2. owed \in [scrub : SUBSET Msgs, media : SUBSET Msgs, rows : SUBSET Msgs]
  BY <1>1 DEF Jobs
<1>3. k1 \in Jobs
  <2>1. job.steady \ {o} \in SUBSET Orgs
    BY <1>1 DEF Jobs
  <2> QED
    BY <1>1, <2>1, JobFields
<1>4. k2 \in Jobs
  <2> HIDE DEF k1, owed
  <2> QED
    BY <1>2, <1>3, JobFields
<1>5. CASE job.pc = "idle"
  BY <1>1, <1>5 DEF Without
<1>6. CASE job.pc # "idle"
  <2>1. job' = k2
    BY <1>1, <1>6 DEF Without, Jobs
  <2>2. /\ job'.pc = job.pc /\ job'.keys = job.keys /\ job'.there = job.there
        /\ job'.refused = job.refused /\ job'.phase = job.phase /\ job'.scope = job.scope
        /\ job'.terms = job.terms /\ job'.convs = job.convs /\ job'.left = job.left
        /\ job'.steady = job.steady \ {o} /\ job'.owed = owed
    <3> HIDE DEF owed
    <3> QED
      BY <1>1, <2>1 DEF Jobs
  <2> QED
    BY <1>4, <1>6, <2>1, <2>2
<1> QED
  BY <1>5, <1>6

-----------------------------------------------------------------------------
(* Types, and what a message without a row is.                             *)

LEMMA SafeInit == Init => SafeInv
<1> SUFFICES ASSUME Init PROVE SafeInv
  OBVIOUS
<1>1. job.pc = "idle" /\ job \in Jobs
  BY NoJobType DEF Init
<1>2. NoErasure \in Erasures /\ NoErasure.pc = "idle" /\ NoErasure.keys = {}
  BY DEF NoErasure, Erasures
<1>3. era \in [Convs -> Erasures] /\ \A c \in Convs : era[c].pc = "idle" /\ era[c].keys = {}
  BY <1>2 DEF Init
<1>4. /\ row \in [Msgs -> RowStates] /\ inb \in [Msgs -> Arrivals]
      /\ \A m \in Msgs : IF m \in Earlier THEN inb[m].pc = "done" /\ row[m].key
                         ELSE row[m] = NoRow
      /\ \A m \in Msgs : ~inb[m].key
  BY BoundsAssumption DEF Init, RowStates, Arrivals, Days, NoRow
<1>5. TypeOK
  BY <1>1, <1>3, <1>4, InputAssumption, PicturesAssumption, BoundsAssumption
  DEF Init, TypeOK, Days
<1>6. Fresh
  BY <1>4, InputAssumption, ConvAssumption DEF Init, Fresh, NoRow
<1>7. Erasing /\ Sweeping /\ GoesByTerms
  BY <1>1, <1>3 DEF Erasing, Sweeping, GoesByTerms
<1> QED
  BY <1>5, <1>6, <1>7 DEF SafeInv

\* Faults are counted up to their bound.
LEMMA FaultsAreBounded ==
    ASSUME TypeOK
    PROVE  /\ NoFault => faults' \in 0..MaxFaults
           /\ \A kind \in {"fail", "lost", "refused", "partial"} :
                 Fault(kind) => faults' \in 0..MaxFaults
BY BoundsAssumption DEF TypeOK, Fault, NoFault

\* The inbound side.
LEMMA ArrivalKeeps ==
    ASSUME SafeInv, NEW m \in Msgs, Arrive(m) \/ InsertMessage(m)
    PROVE  TypeOK' /\ Fresh'
<1>1. TypeOK /\ Fresh /\ ConvOf[m] \in Convs
  BY ConvAssumption DEF SafeInv
<1>2. inb[m] \in Arrivals /\ inb \in [Msgs -> Arrivals] /\ row \in [Msgs -> RowStates]
  BY <1>1 DEF TypeOK
<1>3. CASE Arrive(m)
  <2>1. PICK at \in {day, day - 1} \cap Days, key \in BOOLEAN : Taken(m, at, key) /\ (key => Carries(m))
    BY <1>3 DEF Arrive
  <2>2. /\ inb' \in [Msgs -> Arrivals] /\ inb[m].pc = "new"
        /\ inb' = [inb EXCEPT ![m] = [pc |-> "insert", at |-> at, key |-> key]]
    BY <1>2, <1>3, <2>1 DEF Taken, Arrivals, Arrive
  <2>3. /\ UNCHANGED <<day, clients, terms, row, flagged, alive, job, era, ran>>
        /\ stored' \subseteq Pictures
    BY <1>1, <1>3 DEF Arrive, TypeOK, Carries
  <2>6. faults' \in 0..MaxFaults
    BY <1>1, <1>3, FaultsAreBounded DEF Arrive
  <2>4. TypeOK'
    BY <1>1, <2>2, <2>3, <2>6 DEF TypeOK
  <2>5. Fresh'
    BY <1>1, <1>2, <2>1, <2>2, <2>3 DEF Fresh, Carries
  <2> QED
    BY <2>4, <2>5
<1>4. CASE InsertMessage(m)
  <2> DEFINE r == [at |-> inb[m].at, body |-> TRUE, key |-> inb[m].key]
             n == [inb[m] EXCEPT !.pc = "done"]
  <2>1. r \in RowStates /\ n \in Arrivals /\ n.pc = "done" /\ n.key = inb[m].key
        /\ inb' = [inb EXCEPT ![m] = n]
    BY <1>2, <1>4 DEF RowStates, Arrivals, InsertMessage
  <2>2. /\ UNCHANGED <<day, clients, terms, stored, flagged, alive, job, era, ran>>
        /\ faults' \in 0..MaxFaults
    BY <1>1, <1>4, FaultsAreBounded DEF InsertMessage, TypeOK
  <2>3. (row' = [row EXCEPT ![m] = r] /\ alive[ConvOf[m]]) \/ row' = row
    BY <1>4 DEF InsertMessage
  <2> HIDE DEF r, n
  <2>4. row' \in [Msgs -> RowStates] /\ inb' \in [Msgs -> Arrivals]
    BY <1>2, <2>1, <2>3
  <2>5. TypeOK'
    BY <1>1, <2>2, <2>4 DEF TypeOK
  <2>6. r.key = inb[m].key
    BY DEF r
  <2>7. Fresh'
    BY <1>1, <1>2, <2>1, <2>2, <2>3, <2>6 DEF Fresh
  <2> QED
    BY <2>5, <2>7
<1> QED
  BY <1>3, <1>4

\* Whatever drops rows, drops them whole or clears what they hold.
RowsShrink ==
    /\ row' \in [Msgs -> RowStates]
    /\ \A m \in Msgs : /\ row[m] = NoRow => row'[m] = NoRow
                       /\ row'[m] # NoRow => row'[m].at = row[m].at
                       /\ row'[m].key => row[m].key
                       /\ row'[m].body => row[m].body

LEMMA RowsAreWritten ==
    ASSUME TypeOK, WriteRows
    PROVE  RowsShrink
<1> DEFINE hit == {m \in Rows : Chosen(m)}
<1>1. row' = [m \in Msgs |-> IF m \in hit THEN Written(m) ELSE row[m]]
  BY DEF WriteRows
<1>2. row \in [Msgs -> RowStates] /\ job.phase \in {"scrub", "media", "rows"}
  BY DEF TypeOK, Jobs
<1>3. NoRow \in RowStates /\ ~NoRow.key /\ ~NoRow.body
  BY DEF NoRow, RowStates
<1>4. ASSUME NEW m \in Msgs
      PROVE  /\ Written(m) \in RowStates
             /\ Written(m) # NoRow => Written(m).at = row[m].at
             /\ Written(m).key => row[m].key
             /\ Written(m).body => row[m].body
  <2>1. CASE job.phase = "scrub"
    <3> DEFINE r == [row[m] EXCEPT !.body = FALSE]
    <3>1. r \in RowStates
      BY <1>2 DEF RowStates
    <3>2. [r EXCEPT !.key = FALSE] \in RowStates
      <4> HIDE DEF r
      <4> QED
        BY <3>1 DEF RowStates
    <3>3. Written(m) = [row[m] EXCEPT !.body = FALSE, !.key = FALSE]
      BY <2>1 DEF Written
    <3> QED
      BY <1>2, <3>2, <3>3 DEF RowStates
  <2>2. CASE job.phase = "media"
    <3>1. Written(m) = [row[m] EXCEPT !.key = FALSE]
      BY <2>2 DEF Written
    <3> QED
      BY <1>2, <3>1 DEF RowStates
  <2>3. CASE job.phase = "rows"
    <3>1. Written(m) = NoRow
      BY <2>3 DEF Written
    <3> QED
      BY <1>3, <3>1
  <2> QED
    BY <1>2, <2>1, <2>2, <2>3
<1>5. \A m \in Msgs : row'[m] = IF m \in hit THEN Written(m) ELSE row[m]
  BY <1>1
<1>6. \A m \in hit : m \in Msgs /\ row[m] # NoRow
  BY DEF Rows
<1> HIDE DEF hit
<1>7. row' \in [Msgs -> RowStates]
  BY <1>1, <1>2, <1>4
<1> QED
  BY <1>4, <1>5, <1>6, <1>7 DEF RowsShrink

LEMMA RowsAreErased ==
    ASSUME TypeOK, NEW c \in Convs, EraseMessages(c) \/ EraseConversation(c)
    PROVE  /\ RowsShrink
           /\ \A m \in Msgs : ConvOf[m] # c => row'[m] = row[m]
           /\ EraseConversation(c) => \A m \in Msgs : ConvOf[m] = c => row'[m] = NoRow
<1>1. row \in [Msgs -> RowStates]
  BY DEF TypeOK
<1>2. NoRow \in RowStates /\ ~NoRow.key /\ ~NoRow.body
  BY DEF NoRow, RowStates
<1>3. CASE EraseConversation(c)
  <2>1. row' = [m \in Msgs |-> IF ConvOf[m] = c THEN NoRow ELSE row[m]]
    BY <1>3 DEF EraseConversation, Cascade
  <2> QED
    BY <1>1, <1>2, <2>1 DEF RowsShrink
<1>4. CASE EraseMessages(c)
  <2> DEFINE bare(m) == [row[m] EXCEPT !.body = FALSE, !.key = FALSE]
  <2>1. ASSUME NEW m \in Msgs
        PROVE  bare(m) \in RowStates /\ bare(m).at = row[m].at /\ ~bare(m).key /\ ~bare(m).body
    <3> DEFINE r == [row[m] EXCEPT !.body = FALSE]
    <3>1. r \in RowStates
      BY <1>1 DEF RowStates
    <3>2. [r EXCEPT !.key = FALSE] \in RowStates
      <4> HIDE DEF r
      <4> QED
        BY <3>1 DEF RowStates
    <3> QED
      BY <1>1, <3>2 DEF RowStates
  <2>2. row' = [m \in Msgs |-> IF ConvOf[m] # c \/ m \notin Rows THEN row[m]
                               ELSE IF era[c].keep THEN bare(m) ELSE NoRow]
    BY <1>4 DEF EraseMessages
  <2>3. era' = [era EXCEPT ![c].pc = IF era[c].keep THEN "list" ELSE "row"] /\ era[c].pc = "rows"
    BY <1>4 DEF EraseMessages, EraTo
  <2> HIDE DEF bare
  <2>4. row' \in [Msgs -> RowStates]
    BY <1>1, <1>2, <2>1, <2>2
  <2>5. /\ \A m \in Msgs : row[m] = NoRow => row'[m] = row[m]
        /\ \A m \in Msgs : ConvOf[m] # c => row'[m] = row[m]
    BY <2>2 DEF Rows
  <2>6. \A m \in Msgs : \/ row'[m] = row[m] \/ row'[m] = bare(m) \/ row'[m] = NoRow
    BY <2>2
  <2>7. ~EraseConversation(c)
    BY <2>3 DEF EraseConversation
  <2> QED
    BY <1>2, <2>1, <2>4, <2>5, <2>6, <2>7 DEF RowsShrink
<1> QED
  BY <1>3, <1>4

\* The steps of the nightly job.
LEMMA JobKeeps ==
    ASSUME SafeInv, StartJob \/ JobStep \/ JobFails
    PROVE  /\ TypeOK' /\ Fresh'
           /\ UNCHANGED <<day, clients, terms, flagged, alive, inb, era>>
<1>1. TypeOK /\ Fresh
  BY DEF SafeInv
<1>2. UNCHANGED <<day, clients, terms, flagged, alive, inb, era>>
  BY DEF StartJob, JobStep, JobFails, ReadTerms, SelectKeys, RemoveObjects, WriteRows, Ping
<1>3. ran' \in Days \cup {Never} /\ faults' \in 0..MaxFaults
  <2>1. ran' = ran \/ ran' = day
    BY DEF StartJob, JobStep, JobFails, ReadTerms, SelectKeys, RemoveObjects, WriteRows, Ping
  <2>2. faults' = faults \/ NoFault \/ Fault("fail") \/ Fault("refused")
    BY DEF StartJob, JobStep, JobFails, ReadTerms, SelectKeys, RemoveObjects, WriteRows, Ping
  <2> QED
    BY <1>1, <2>1, <2>2, FaultsAreBounded DEF TypeOK
<1>4. /\ job' \in Jobs
      /\ job'.pc \in {"remove", "write"} /\ job'.phase = "media" => job'.keys # {}
  <2>1. CASE StartJob
    BY <1>1, <2>1, JobBegins
  <2>2. CASE ReadTerms
    BY <1>1, <2>2, TermsAreRead
  <2>3. CASE SelectKeys
    <3> DEFINE found == {m \in Rows : Chosen(m) /\ row[m].key}
    <3>1. \/ job' \in NextPasses
          \/ job' \in Jobs /\ job'.keys = found /\ job'.phase = job.phase
             /\ (job.phase = "media" => found # {})
      BY <1>1, <2>3, KeysAreRead
    <3> HIDE DEF found
    <3> QED
      BY <1>1, <3>1, PassIsOver
  <2>4. CASE RemoveObjects
    BY <1>1, <2>4, ObjectsGo DEF TypeOK
  <2>5. CASE WriteRows
    <3>1. CASE job.phase = "scrub"
      <4>1. job' = AfterScrub(job)
        BY <2>5, <3>1 DEF WriteRows
      <4> QED
        BY <1>1, <4>1, ScrubIsOver DEF TypeOK
    <3>2. CASE job.phase # "scrub"
      BY <1>1, <2>5, <3>2, PassIsOver DEF WriteRows
    <3> QED
      BY <3>1, <3>2
  <2>6. CASE Ping \/ JobFails
    BY <2>6, NoJobType DEF Ping, JobFails
  <2> QED
    BY <2>1, <2>2, <2>3, <2>4, <2>5, <2>6 DEF JobStep
<1>5. /\ row' = row \/ RowsShrink
      /\ stored' \subseteq Pictures
  <2>1. CASE RemoveObjects
    BY <1>1, <2>1, ObjectsGo DEF TypeOK, RemoveObjects
  <2>2. CASE WriteRows
    BY <1>1, <2>2, RowsAreWritten DEF TypeOK, WriteRows
  <2>3. CASE StartJob \/ ReadTerms \/ SelectKeys \/ Ping \/ JobFails
    BY <1>1, <2>3 DEF TypeOK, StartJob, ReadTerms, SelectKeys, Ping, JobFails
  <2> QED
    BY <2>1, <2>2, <2>3 DEF JobStep
<1>6. row' \in [Msgs -> RowStates]
  BY <1>1, <1>5 DEF TypeOK, RowsShrink
<1>7. TypeOK'
  BY <1>1, <1>2, <1>3, <1>4, <1>5, <1>6 DEF TypeOK
<1>8. Fresh'
  BY <1>1, <1>2, <1>5 DEF Fresh, RowsShrink
<1> QED
  BY <1>2, <1>7, <1>8

\* The steps of an erasure.
LEMMA ErasureKeeps ==
    ASSUME SafeInv, NEW c \in Convs, StartErasure(c) \/ EraseStep(c) \/ ErasureFails(c)
    PROVE  /\ TypeOK' /\ Fresh'
           /\ UNCHANGED <<day, clients, terms, inb, job, ran>>
           /\ \A d \in Convs \ {c} : era'[d] = era[d] /\ alive'[d] = alive[d] /\ flagged'[d] = flagged[d]
           /\ \A m \in Msgs : ConvOf[m] # c => row'[m] = row[m]
           /\ row' = row \/ RowsShrink
           /\ alive'[c] => alive[c] /\ flagged'[c] = flagged[c]
           /\ stored' \subseteq stored
<1>1. TypeOK /\ Fresh /\ era \in [Convs -> Erasures] /\ era[c] \in Erasures
  BY DEF SafeInv, TypeOK
<1>2. UNCHANGED <<day, clients, terms, inb, job, ran>>
  BY DEF StartErasure, EraseStep, ErasureFails, EraseMessages, EraseConversation, ListMedia,
     EraseObjects
<1>3. faults' \in 0..MaxFaults
  <2>1. faults' = faults \/ NoFault \/ Fault("fail") \/ Fault("refused") \/ Fault("partial")
    BY DEF StartErasure, EraseStep, ErasureFails, EraseMessages, EraseConversation, ListMedia,
       EraseObjects
  <2> QED
    BY <1>1, <2>1, FaultsAreBounded DEF TypeOK
<1>4. stored' \subseteq stored /\ stored' \subseteq Pictures
  <2>1. stored' \subseteq stored
    BY DEF StartErasure, EraseStep, ErasureFails, EraseMessages, EraseConversation, ListMedia,
       EraseObjects
  <2> QED
    BY <1>1, <2>1 DEF TypeOK
<1>5. \E e \in Erasures : era' = [era EXCEPT ![c] = e]
  <2>1. ASSUME NEW pc \in {"idle", "rows", "row", "list", "remove"}, NEW keys \in SUBSET Pictures
        PROVE  /\ [era[c] EXCEPT !.pc = pc] \in Erasures
               /\ [era[c] EXCEPT !.pc = pc, !.keys = keys] \in Erasures
    <3> DEFINE e == [era[c] EXCEPT !.pc = pc]
    <3>1. e \in Erasures
      BY <1>1 DEF Erasures
    <3>2. [e EXCEPT !.keys = keys] \in Erasures
      <4> HIDE DEF e
      <4> QED
        BY <3>1 DEF Erasures
    <3> QED
      BY <3>1, <3>2
  <2>2. CASE StartErasure(c)
    <3> DEFINE e == [era[c] EXCEPT !.pc = "rows"]
    <3>1. e \in Erasures
      BY <2>1
    <3>2. [e EXCEPT !.keep = (flagged[c] # Never)] \in Erasures
      <4> HIDE DEF e
      <4> QED
        BY <3>1 DEF Erasures
    <3>3. era' = [era EXCEPT ![c] = [era[c] EXCEPT !.pc = "rows", !.keep = (flagged[c] # Never)]]
      BY <2>2, <1>1 DEF StartErasure
    <3> QED
      BY <3>2, <3>3
  <2>3. CASE EraseMessages(c) \/ EraseConversation(c)
    <3>1. PICK pc \in {"row", "list"} : era' = [era EXCEPT ![c] = [era[c] EXCEPT !.pc = pc]]
      BY <1>1, <2>3 DEF EraseMessages, EraseConversation, EraTo
    <3> QED
      BY <2>1, <3>1
  <2>4. CASE ListMedia(c)
    <3>1. PICK keys \in SUBSET Under(c) :
            era' = [era EXCEPT ![c] = [era[c] EXCEPT !.pc = "remove", !.keys = keys]]
      BY <1>1, <2>4 DEF ListMedia
    <3>2. keys \in SUBSET Pictures
      BY <1>1 DEF TypeOK, Under
    <3> QED
      BY <2>1, <3>1, <3>2
  <2>5. CASE EraseObjects(c) \/ ErasureFails(c)
    BY <2>5 DEF EraseObjects, ErasureFails, NoErasure, Erasures
  <2> QED
    BY <2>2, <2>3, <2>4, <2>5 DEF EraseStep
<1>6. /\ alive' \in [Convs -> BOOLEAN] /\ flagged' \in [Convs -> Days \cup {Never}]
      /\ \A d \in Convs \ {c} : alive'[d] = alive[d] /\ flagged'[d] = flagged[d]
      /\ EraseConversation(c) \/ UNCHANGED <<alive, flagged>>
  BY <1>1 DEF StartErasure, EraseStep, ErasureFails, EraseMessages, EraseConversation, ListMedia,
     EraseObjects, Cascade, TypeOK
<1>7. row' = row \/ RowsShrink
  BY <1>1, RowsAreErased DEF StartErasure, EraseStep, ErasureFails, ListMedia, EraseObjects
<1>8. \A m \in Msgs : ConvOf[m] # c => row'[m] = row[m]
  BY <1>1, RowsAreErased DEF StartErasure, EraseStep, ErasureFails, ListMedia, EraseObjects
<1>9. row' \in [Msgs -> RowStates]
  BY <1>1, <1>7 DEF TypeOK, RowsShrink
<1>10. era' \in [Convs -> Erasures] /\ \A d \in Convs \ {c} : era'[d] = era[d]
  BY <1>1, <1>5
<1>11. TypeOK'
  BY <1>1, <1>2, <1>3, <1>4, <1>6, <1>9, <1>10 DEF TypeOK
<1>12. Fresh'
  <2>1. ASSUME NEW m \in Msgs, ~alive'[ConvOf[m]] PROVE row'[m] = NoRow
    <3>1. CASE EraseConversation(c) /\ ConvOf[m] = c
      BY <1>1, <3>1, RowsAreErased
    <3>2. CASE ~(EraseConversation(c) /\ ConvOf[m] = c)
      <4>1. alive'[ConvOf[m]] = alive[ConvOf[m]]
        BY <1>6, <3>2, ConvAssumption
      <4> QED
        BY <1>1, <1>7, <2>1, <4>1 DEF Fresh, RowsShrink
    <3> QED
      BY <3>1, <3>2
  <2> QED
    BY <1>1, <1>2, <1>7, <2>1 DEF Fresh, RowsShrink
<1> QED
  <2>1. alive'[c] => alive[c] /\ flagged'[c] = flagged[c]
    BY <1>1, <1>6 DEF EraseConversation, Cascade, TypeOK
  <2> QED
    BY <1>2, <1>4, <1>6, <1>7, <1>8, <1>10, <1>11, <1>12, <2>1

\* A delete of conversations takes their rows along, and no others.
LEMMA CascadeShrinks ==
    ASSUME TypeOK, Fresh, NEW cs \in SUBSET Convs, Cascade(cs)
    PROVE  /\ RowsShrink
           /\ alive' \in [Convs -> BOOLEAN] /\ flagged' \in [Convs -> Days \cup {Never}]
           /\ \A c \in Convs : alive'[c] => alive[c] /\ flagged'[c] = flagged[c]
           /\ \A m \in Msgs : ~alive'[ConvOf[m]] => row'[m] = NoRow
           /\ \A m \in Msgs : row'[m] # row[m] => ~alive'[ConvOf[m]]
<1>1. NoRow \in RowStates /\ ~NoRow.key /\ ~NoRow.body
  BY DEF NoRow, RowStates
<1>2. /\ alive' = [c \in Convs |-> alive[c] /\ c \notin cs]
      /\ flagged' = [c \in Convs |-> IF c \in cs THEN Never ELSE flagged[c]]
      /\ row' = [m \in Msgs |-> IF ConvOf[m] \in cs THEN NoRow ELSE row[m]]
  BY DEF Cascade
<1>3. \A m \in Msgs : ConvOf[m] \in Convs
  BY ConvAssumption
<1>4. RowsShrink
  BY <1>1, <1>2 DEF TypeOK, RowsShrink
<1>5. alive' \in [Convs -> BOOLEAN]
  BY <1>2
<1>6. flagged' \in [Convs -> Days \cup {Never}]
  BY <1>2 DEF TypeOK
<1>7. \A c \in Convs : alive'[c] => alive[c] /\ flagged'[c] = flagged[c]
  BY <1>2
<1>8. \A m \in Msgs : ~alive'[ConvOf[m]] => row'[m] = NoRow
  BY <1>2, <1>3 DEF Fresh
<1>9. \A m \in Msgs : row'[m] # row[m] => ~alive'[ConvOf[m]]
  BY <1>2, <1>3
<1> QED
  BY <1>4, <1>5, <1>6, <1>7, <1>8, <1>9

\* The reset of the demo and an offboarding.
LEMMA DeletionKeeps ==
    ASSUME SafeInv, DemoReset \/ \E o \in Leaving : Offboard(o)
    PROVE  /\ TypeOK' /\ Fresh' /\ RowsShrink
           /\ UNCHANGED <<day, stored, inb, era>>
           /\ \A c \in Convs : alive'[c] => alive[c] /\ flagged'[c] = flagged[c]
           /\ \A m \in Msgs : row'[m] # row[m] => ~alive'[ConvOf[m]]
<1>1. TypeOK /\ Fresh
  BY DEF SafeInv
<1>2. UNCHANGED <<day, stored, inb, era, faults, ran>>
  BY DEF DemoReset, Offboard
<1>3. \E cs \in SUBSET Convs : Cascade(cs)
  <2>1. \A o \in Leaving : {c \in Convs : OrgOf[c] = o} \in SUBSET Convs
    OBVIOUS
  <2>2. WalkIns \in SUBSET Convs
    BY InputAssumption
  <2> QED
    BY <2>1, <2>2 DEF DemoReset, Offboard
<1>4. PICK cs \in SUBSET Convs : Cascade(cs)
  BY <1>3
<1>5. /\ RowsShrink
      /\ alive' \in [Convs -> BOOLEAN] /\ flagged' \in [Convs -> Days \cup {Never}]
      /\ \A c \in Convs : alive'[c] => alive[c] /\ flagged'[c] = flagged[c]
      /\ \A m \in Msgs : ~alive'[ConvOf[m]] => row'[m] = NoRow
      /\ \A m \in Msgs : row'[m] # row[m] => ~alive'[ConvOf[m]]
  BY <1>1, <1>4, CascadeShrinks
<1>6. /\ clients' \subseteq Orgs /\ terms' \in [Orgs -> Overrides \cup {NoOverride}]
      /\ job' \in Jobs
      /\ job'.pc \in {"remove", "write"} /\ job'.phase = "media" => job'.keys # {}
  <2>1. CASE DemoReset
    BY <1>1, <2>1 DEF DemoReset, TypeOK
  <2>2. CASE \E o \in Leaving : Offboard(o)
    <3>1. PICK o \in Orgs : Offboard(o)
      BY <2>2, InputAssumption
    <3>2. /\ clients' = clients \ {o} /\ terms' = [terms EXCEPT ![o] = NoOverride]
          /\ job' = Without(o)
      BY <3>1 DEF Offboard
    <3>3. /\ job' \in Jobs /\ job'.pc = job.pc /\ job'.phase = job.phase
          /\ job'.keys = job.keys
      BY <1>1, <3>2, TermsChange
    <3> QED
      BY <1>1, <3>2, <3>3 DEF TypeOK
  <2> QED
    BY <2>1, <2>2
<1>7. TypeOK'
  BY <1>1, <1>2, <1>5, <1>6 DEF TypeOK, RowsShrink
<1>8. Fresh'
  BY <1>1, <1>2, <1>5 DEF Fresh, RowsShrink
<1> QED
  BY <1>2, <1>5, <1>7, <1>8

\* What remains: a flag, a day, a client's terms.
LEMMA OthersKeep ==
    ASSUME SafeInv,
           \/ \E c \in Convs : Flag(c)
           \/ Tick
           \/ \E o \in Orgs, t \in Overrides : SetTerms(o, t)
           \/ UNCHANGED vars
    PROVE  TypeOK' /\ Fresh'
<1>1. TypeOK /\ Fresh
  BY DEF SafeInv
<1>2. UNCHANGED <<clients, row, alive, inb, stored, era, faults, ran>>
  BY DEF Flag, Tick, SetTerms, vars
<1>3. Fresh'
  BY <1>1, <1>2 DEF Fresh
<1>4. CASE \E c \in Convs : Flag(c)
  BY <1>1, <1>2, <1>3, <1>4 DEF Flag, TypeOK
<1>5. CASE Tick
  <2>1. day' \in Days
    BY <1>1, <1>5, BoundsAssumption DEF Tick, TypeOK, Days
  <2> QED
    BY <1>1, <1>2, <1>3, <1>5, <2>1 DEF Tick, TypeOK
<1>6. CASE \E o \in Orgs, t \in Overrides : SetTerms(o, t)
  <2>1. PICK o \in Orgs, t \in Overrides : SetTerms(o, t)
    BY <1>6
  <2>2. /\ day' = day /\ flagged' = flagged /\ terms' = [terms EXCEPT ![o] = t]
        /\ job' = Without(o)
    BY <2>1 DEF SetTerms
  <2> QED
    BY <1>1, <1>2, <1>3, <2>1, <2>2, TermsChange DEF TypeOK
<1>7. CASE UNCHANGED vars
  BY <1>1, <1>3, <1>7 DEF vars, TypeOK
<1> QED
  BY <1>3, <1>4, <1>5, <1>6, <1>7

LEMMA TypeNext ==
    ASSUME SafeInv, [Next]_vars
    PROVE  TypeOK' /\ Fresh'
<1>1. Touchy \subseteq Convs /\ Changing \subseteq Orgs
  BY InputAssumption
<1> QED
  BY <1>1, ArrivalKeeps, JobKeeps, ErasureKeeps, OthersKeep, DeletionKeeps DEF Next

-----------------------------------------------------------------------------
(* What is read, and what the bucket holds.                                *)

\* The filter of a pass depends on the job's record, the day and the row.
LEMMA ChosenKept ==
    ASSUME job'.phase = job.phase, job'.scope = job.scope, job'.terms = job.terms,
           job'.convs = job.convs, day' = day, NEW m \in Msgs, row'[m].at = row[m].at
    PROVE  Chosen(m)' <=> Chosen(m)
BY DEF Chosen, Scoped, Cutoff, Term, Overrode, Org

\* While rows only shrink and nothing is inserted that the pass has read, the
\* pass still has what it read.
LEMMA SweepingKept ==
    ASSUME Sweeping, Fresh,
           job'.pc = job.pc, job'.keys = job.keys, job'.there = job.there,
           job'.refused = job.refused, job'.phase = job.phase, job'.scope = job.scope, job'.terms = job.terms,
           job'.convs = job.convs, job.pc \in {"remove", "write"} => day' = day,
           job \in Jobs,
           \A m \in Msgs : inb[m].pc = "done" =>
               /\ inb'[m].pc = "done"
               /\ row[m] = NoRow => row'[m] = NoRow
               /\ row'[m] # NoRow => row'[m].at = row[m].at
               /\ row'[m].key => row[m].key
               /\ m \in stored' => m \in stored
    PROVE  Sweeping'
<1> SUFFICES ASSUME job.pc \in {"remove", "write"}
             PROVE  Sweeping'
  BY DEF Sweeping
<1>1. job.keys \subseteq Msgs /\ job.there \subseteq Msgs
  BY PicturesAssumption DEF Jobs
<1>2. \A m \in job.there \cup job.keys : inb[m].pc = "done" /\ inb'[m].pc = "done"
  BY <1>1 DEF Sweeping
<1>3. ASSUME NEW m \in (Rows' \cap (job.there \cup job.keys))
      PROVE  m \in Rows /\ (Chosen(m)' <=> Chosen(m)) /\ (row'[m].key => row[m].key)
  <2>1. m \in Msgs /\ row'[m] # NoRow
    BY <1>3 DEF Rows
  <2>2. row[m] # NoRow /\ row'[m].at = row[m].at /\ (row'[m].key => row[m].key)
    BY <1>2, <1>3, <2>1
  <2> QED
    BY <2>1, <2>2, ChosenKept DEF Rows
<1>4. job'.pc = "write" => job'.keys \cap stored' \subseteq job'.refused
  BY <1>1, <1>2 DEF Sweeping
<1> QED
  BY <1>2, <1>3, <1>4 DEF Sweeping

\* The terms of a pass that goes on, and the flags it answers to, stand.
LEMMA TermsKept ==
    ASSUME GoesByTerms, job' = job, day' = day, terms' = terms, flagged' = flagged, alive' = alive
    PROVE  GoesByTerms'
BY DEF GoesByTerms, FlaggedBefore

LEMMA ArrivalSafe ==
    ASSUME SafeInv, NEW m \in Msgs, Arrive(m) \/ InsertMessage(m)
    PROVE  SafeInv'
<1> USE DEF SafeInv
<1>1. TypeOK' /\ Fresh'
  BY ArrivalKeeps
<1>2. /\ UNCHANGED <<day, terms, flagged, alive, job, era>>
      /\ inb[m].pc # "done" /\ stored' \subseteq stored \cup {m}
      /\ inb \in [Msgs -> Arrivals] /\ row \in [Msgs -> RowStates]
  BY DEF Arrive, InsertMessage, TypeOK
<1>3. \A n \in Msgs \ {m} : inb'[n] = inb[n] /\ row'[n] = row[n]
  BY <1>2 DEF Arrive, InsertMessage, Taken
<1>6. Sweeping'
  <2>1. \A n \in Msgs : inb[n].pc = "done" => inb'[n] = inb[n] /\ row'[n] = row[n]
                                              /\ (n \in stored' => n \in stored)
    BY <1>2, <1>3
  <2> QED
    BY <1>2, <2>1, SweepingKept DEF TypeOK
<1>7. GoesByTerms'
  BY <1>2, TermsKept
<1>8. Erasing'
  BY <1>2 DEF Erasing
<1> QED
  BY <1>1, <1>6, <1>7, <1>8

\* A pass that has read its keys: Sweeping holds from then on.
LEMMA SweepingFromRead ==
    ASSUME SafeInv, SelectKeys
    PROVE  Sweeping' /\ GoesByTerms'
<1> DEFINE found == {m \in Rows : Chosen(m) /\ row[m].key}
<1>1. TypeOK /\ Fresh /\ GoesByTerms /\ UNCHANGED <<day, terms, flagged, alive, inb, row>>
  BY DEF SafeInv, SelectKeys
<1>2. job.pc = "select" /\ \/ found = {} /\ job.phase = "media" /\ job' \in NextPasses
                           \/ /\ job'.pc = "remove" /\ job'.keys = found /\ job'.there = Rows
                              /\ job'.phase = job.phase /\ job'.scope = job.scope
                              /\ job'.terms = job.terms /\ job'.convs = job.convs
                              /\ job'.steady = job.steady
  BY <1>1, KeysAreRead
<1>3. CASE job.phase = "media" /\ job' \in NextPasses
  <2>1. /\ job'.pc \in {"select", "terms", "ping"}
        /\ job'.pc = "terms" => job'.phase = "rows"
        /\ job'.pc = "select" => job'.phase = job.phase /\ job'.terms = job.terms
                                 /\ job'.steady = job.steady
    BY <1>1, <1>3, PassIsOver
  <2> QED
    BY <1>1, <1>2, <1>3, <2>1 DEF Sweeping, GoesByTerms
<1>4. CASE /\ job'.pc = "remove" /\ job'.keys = found /\ job'.there = Rows
           /\ job'.phase = job.phase /\ job'.scope = job.scope
           /\ job'.terms = job.terms /\ job'.convs = job.convs
           /\ job'.steady = job.steady
  <2>1. Rows' = Rows /\ Rows \subseteq Msgs
    BY <1>1 DEF Rows
  <2>2. \A m \in Rows : (Chosen(m)' <=> Chosen(m)) /\ inb'[m].pc = "done" /\ row'[m] = row[m]
    BY <1>1, <1>4, <2>1, ChosenKept DEF Fresh, Rows
  <2>3. found \subseteq Rows /\ \A m \in Rows : m \in found <=> Chosen(m) /\ row[m].key
    OBVIOUS
  <2>4. Sweeping'
    <3> HIDE DEF found
    <3> QED
      BY <1>4, <2>1, <2>2, <2>3 DEF Sweeping
  <2>5. GoesByTerms'
    BY <1>1, <1>2, <1>4 DEF GoesByTerms, FlaggedBefore
  <2> QED
    BY <2>4, <2>5
<1> QED
  BY <1>2, <1>3, <1>4

LEMMA JobSafe ==
    ASSUME SafeInv, StartJob \/ JobStep \/ JobFails
    PROVE  SafeInv'
<1>1. TypeOK /\ Fresh /\ Sweeping /\ GoesByTerms /\ TypeOK' /\ Fresh'
  BY JobKeeps DEF SafeInv
<1>2. UNCHANGED <<day, clients, terms, flagged, alive, inb, era>>
  BY JobKeeps
<1>3. Sweeping' /\ GoesByTerms'
  <2>1. CASE StartJob
    BY <1>1, <1>2, <2>1, JobBegins DEF Sweeping, GoesByTerms, FlaggedBefore
  <2>2. CASE ReadTerms
    BY <1>1, <1>2, <2>2, TermsAreRead DEF Sweeping, GoesByTerms
  <2>3. CASE SelectKeys
    BY <2>3, SweepingFromRead
  <2>4. CASE RemoveObjects
    <3>1. /\ job.pc = "remove" /\ job'.pc = "write"
          /\ job'.keys = job.keys /\ job'.there = job.there
          /\ job'.phase = job.phase /\ job'.scope = job.scope /\ job'.terms = job.terms
          /\ job'.convs = job.convs /\ job'.steady = job.steady
          /\ job.keys \cap stored' \subseteq job'.refused
      BY <1>1, <2>4, ObjectsGo
    <3>2. row' = row /\ Rows' = Rows /\ Rows \subseteq Msgs
      BY <2>4 DEF RemoveObjects, Rows
    <3>3. \A m \in Rows : Chosen(m)' <=> Chosen(m)
      BY <1>2, <3>1, <3>2, ChosenKept
    <3>4. Sweeping'
      BY <1>1, <1>2, <3>1, <3>2, <3>3 DEF Sweeping
    <3>5. GoesByTerms'
      BY <1>1, <1>2, <3>1 DEF GoesByTerms, FlaggedBefore
    <3> QED
      BY <3>4, <3>5
  <2>5. CASE WriteRows
    <3>1. job.pc = "write"
      BY <2>5 DEF WriteRows
    <3>2. CASE job.phase = "scrub"
      <4>1. job'.pc = "terms" /\ job'.phase = "media"
        BY <1>1, <2>5, <3>2, ScrubIsOver DEF WriteRows, TypeOK
      <4> QED
        BY <4>1 DEF Sweeping, GoesByTerms
    <3>3. CASE job.phase # "scrub"
      <4>1. job' \in NextPasses
        BY <2>5, <3>3 DEF WriteRows
      <4>2. /\ job'.pc \in {"select", "terms", "ping"}
            /\ job'.pc = "terms" => job'.phase = "rows"
            /\ job'.pc = "select" => job'.phase = job.phase /\ job'.terms = job.terms
                                     /\ job'.steady = job.steady
        BY <1>1, <4>1, PassIsOver
      <4> QED
        BY <1>1, <1>2, <3>1, <3>3, <4>2 DEF Sweeping, GoesByTerms
    <3> QED
      BY <3>2, <3>3
  <2>6. CASE Ping \/ JobFails
    <3>1. job'.pc = "idle"
      BY <2>6, NoJobType DEF Ping, JobFails
    <3> QED
      BY <3>1 DEF Sweeping, GoesByTerms
  <2> QED
    BY <2>1, <2>2, <2>3, <2>4, <2>5, <2>6 DEF JobStep
<1>4. Erasing'
  BY <1>2 DEF SafeInv, Erasing
<1> QED
  BY <1>1, <1>3, <1>4 DEF SafeInv

LEMMA ErasureSafe ==
    ASSUME SafeInv, NEW c \in Convs, StartErasure(c) \/ EraseStep(c) \/ ErasureFails(c)
    PROVE  SafeInv'
<1>1. /\ TypeOK /\ Fresh /\ Erasing /\ Sweeping /\ GoesByTerms
      /\ TypeOK' /\ Fresh'
  BY ErasureKeeps DEF SafeInv
<1>2. /\ UNCHANGED <<day, terms, inb, job>>
      /\ \A d \in Convs \ {c} : era'[d] = era[d] /\ alive'[d] = alive[d] /\ flagged'[d] = flagged[d]
      /\ \A m \in Msgs : ConvOf[m] # c => row'[m] = row[m]
      /\ row' = row \/ RowsShrink
      /\ alive'[c] => alive[c] /\ flagged'[c] = flagged[c]
      /\ stored' \subseteq stored
  BY ErasureKeeps
<1>3. stored \subseteq Msgs /\ \A m \in Msgs : ConvOf[m] \in Convs
  BY <1>1, PicturesAssumption, ConvAssumption DEF TypeOK
<1>4. Sweeping'
  <2>1. job \in Jobs
    BY <1>1 DEF TypeOK
  <2> QED
    BY <1>1, <1>2, <2>1, SweepingKept DEF RowsShrink
<1>5. GoesByTerms'
  <2>1. \A d \in Convs : alive'[d] => alive[d] /\ flagged'[d] = flagged[d]
    BY <1>2
  <2>2. job.convs \subseteq Convs
    BY <1>1 DEF TypeOK, Jobs
  <2> QED
    BY <1>1, <1>2, <2>1, <2>2 DEF GoesByTerms, FlaggedBefore
<1>6. \A m \in era'[c].keys : ConvOf[m] = c
  <2>1. era \in [Convs -> Erasures]
    BY <1>1 DEF TypeOK
  <2>2. CASE ListMedia(c)
    <3>1. PICK keys \in SUBSET Under(c) : era' = [era EXCEPT ![c].pc = "remove", ![c].keys = keys]
      BY <2>2 DEF ListMedia
    <3>2. era'[c].keys = keys
      BY <2>1, <3>1 DEF Erasures
    <3> QED
      BY <3>2 DEF Under
  <2>3. CASE EraseObjects(c) \/ ErasureFails(c)
    <3>1. era' = [era EXCEPT ![c] = NoErasure]
      BY <2>3 DEF EraseObjects, ErasureFails
    <3>2. era'[c].keys = {}
      BY <2>1, <3>1 DEF NoErasure
    <3> QED
      BY <3>2
  <2>4. CASE StartErasure(c) \/ EraseMessages(c) \/ EraseConversation(c)
    <3>1. era'[c].keys = era[c].keys
      BY <2>1, <2>4 DEF StartErasure, EraseMessages, EraseConversation, EraTo, Erasures
    <3> QED
      BY <1>1, <3>1 DEF Erasing
  <2> QED
    BY <2>2, <2>3, <2>4 DEF EraseStep
<1>7. Erasing'
  BY <1>1, <1>2, <1>6 DEF Erasing
<1> QED
  BY <1>1, <1>4, <1>5, <1>7 DEF SafeInv

LEMMA OthersSafe ==
    ASSUME SafeInv,
           \/ \E c \in Convs : Flag(c)
           \/ Tick
           \/ \E o \in Orgs, t \in Overrides : SetTerms(o, t)
           \/ UNCHANGED vars
    PROVE  SafeInv'
<1>1. TypeOK /\ Fresh /\ Sweeping /\ GoesByTerms /\ TypeOK' /\ Fresh'
  BY OthersKeep DEF SafeInv
<1>2. UNCHANGED <<row, alive, inb, stored, era>>
  BY DEF Flag, Tick, SetTerms, vars
<1>3. Erasing'
  BY <1>2 DEF SafeInv, Erasing
<1>4. /\ job'.pc = job.pc /\ job'.keys = job.keys /\ job'.there = job.there
      /\ job'.refused = job.refused
      /\ job'.phase = job.phase /\ job'.scope = job.scope /\ job'.terms = job.terms
      /\ job'.convs = job.convs /\ (job.pc \in {"remove", "write"} => day' = day)
  BY <1>1, TermsChange DEF Flag, Tick, vars, SetTerms
<1>5. Sweeping'
  <2>1. job \in Jobs
    BY <1>1 DEF TypeOK
  <2> QED
    BY <1>1, <1>2, <1>4, <2>1, SweepingKept
<1>6. GoesByTerms'
  <2>1. CASE \E c \in Convs : Flag(c)
    <3>1. PICK c \in Convs : Flag(c)
      BY <2>1
    <3>2. /\ flagged[c] = Never /\ alive[c] /\ UNCHANGED <<day, terms, alive, job>>
          /\ \A d \in Convs \ {c} : flagged'[d] = flagged[d]
      BY <3>1, <1>1 DEF Flag, TypeOK
    <3>3. job.convs \subseteq Convs
      BY <1>1 DEF TypeOK, Jobs
    <3> QED
      BY <1>1, <3>2, <3>3 DEF GoesByTerms, FlaggedBefore
  <2>2. CASE Tick
    BY <2>2 DEF Tick, GoesByTerms
  <2>3. CASE \E o \in Orgs, t \in Overrides : SetTerms(o, t)
    <3>1. PICK o \in Orgs, t \in Overrides : SetTerms(o, t)
      BY <2>3
    <3>2. /\ UNCHANGED <<day, flagged, alive>>
          /\ \A p \in Orgs \ {o} : terms'[p] = terms[p]
      BY <3>1, <1>1 DEF SetTerms, TypeOK
    <3>3. job.pc # "idle" => job'.steady = job.steady \ {o}
      BY <1>1, <3>1, TermsChange DEF SetTerms
    <3>4. job.steady \subseteq Orgs
      BY <1>1 DEF TypeOK, Jobs
    <3> QED
      BY <1>1, <1>4, <3>2, <3>3, <3>4 DEF GoesByTerms, FlaggedBefore
  <2>4. CASE UNCHANGED vars
    BY <1>1, <2>4, TermsKept DEF vars
  <2> QED
    BY <2>1, <2>2, <2>3, <2>4
<1> QED
  BY <1>1, <1>3, <1>5, <1>6 DEF SafeInv

LEMMA DeletionSafe ==
    ASSUME SafeInv, DemoReset \/ \E o \in Leaving : Offboard(o)
    PROVE  SafeInv'
<1>1. /\ TypeOK /\ Fresh /\ Sweeping /\ GoesByTerms /\ TypeOK' /\ Fresh' /\ RowsShrink
      /\ UNCHANGED <<day, stored, inb, era>>
      /\ \A c \in Convs : alive'[c] => alive[c] /\ flagged'[c] = flagged[c]
  BY DeletionKeeps DEF SafeInv
<1>2. Erasing'
  BY <1>1 DEF SafeInv, Erasing
<1>3. /\ job'.pc = job.pc /\ job'.keys = job.keys /\ job'.there = job.there
      /\ job'.refused = job.refused
      /\ job'.phase = job.phase /\ job'.scope = job.scope /\ job'.terms = job.terms
      /\ job'.convs = job.convs
      /\ job.pc # "idle" => \A o \in job'.steady : o \in job.steady /\ terms'[o] = terms[o]
  <2>1. CASE DemoReset
    BY <2>1 DEF DemoReset
  <2>2. CASE \E o \in Leaving : Offboard(o)
    <3>1. PICK o \in Orgs : Offboard(o)
      BY <2>2, InputAssumption
    <3>2. terms' = [terms EXCEPT ![o] = NoOverride] /\ job' = Without(o)
      BY <3>1 DEF Offboard
    <3>3. job.steady \subseteq Orgs /\ \A p \in Orgs \ {o} : terms'[p] = terms[p]
      BY <1>1, <3>2 DEF TypeOK, Jobs
    <3> QED
      BY <1>1, <3>2, <3>3, TermsChange
  <2> QED
    BY <2>1, <2>2
<1>4. Sweeping'
  <2>1. job \in Jobs
    BY <1>1 DEF TypeOK
  <2> QED
    BY <1>1, <1>3, <2>1, SweepingKept DEF RowsShrink
<1>5. GoesByTerms'
  <2>1. job.convs \subseteq Convs
    BY <1>1 DEF TypeOK, Jobs
  <2> QED
    BY <1>1, <1>3, <2>1 DEF GoesByTerms, FlaggedBefore
<1> QED
  BY <1>1, <1>2, <1>4, <1>5 DEF SafeInv

LEMMA SafeNext ==
    ASSUME SafeInv, [Next]_vars
    PROVE  SafeInv'
<1>1. Touchy \subseteq Convs /\ Changing \subseteq Orgs
  BY InputAssumption
<1> QED
  BY <1>1, ArrivalSafe, JobSafe, ErasureSafe, OthersSafe, DeletionSafe DEF Next

-----------------------------------------------------------------------------
(* What a job that succeeds has done.                                      *)

\* Of a client that has kept its terms, a pass chooses what is overdue.
LEMMA ChosenIsOverdue ==
    ASSUME SafeInv, job.pc \in {"select", "remove", "write"}, job.phase # "scrub",
           NEW m \in Msgs, Org(m) \in job.steady, Scoped(m)
    PROVE  Chosen(m) <=> Overdue(m, job.phase)
<1>1. job.terms[Org(m)] = terms[Org(m)]
  BY DEF SafeInv, GoesByTerms
<1>2. CASE job.scope = EveryoneElse
  <2>1. Term(NoOverride, job.phase) = Term(terms[Org(m)], job.phase)
    BY <1>1, <1>2 DEF Scoped, Overrode, Term, NoOverride
  <2> QED
    BY <1>2, <2>1 DEF Chosen, Cutoff, Overdue
<1>3. CASE job.scope # EveryoneElse
  BY <1>1, <1>3 DEF Scoped, Chosen, Cutoff, Overdue
<1> QED
  BY <1>2, <1>3

\* While the job stands still, what it owes only shrinks.
LEMMA OwedKept ==
    ASSUME DoneInv,
           job'.pc = job.pc, job'.phase = job.phase, job'.scope = job.scope,
           job'.terms = job.terms, job'.convs = job.convs, job'.left = job.left,
           job.pc # "idle" => day' = day /\ job'.owed.scrub = job.owed.scrub,
           job.pc # "idle" => \A m \in job'.owed.media \cup job'.owed.rows :
               /\ terms'[Org(m)] = terms[Org(m)]
               /\ Org(m) \in job.steady => Org(m) \in job'.steady,
           job.pc # "idle" => job'.owed.media \subseteq job.owed.media,
           job.pc # "idle" => job'.owed.rows \subseteq job.owed.rows,
           \A m \in Msgs : inb[m].pc = "done" =>
               /\ inb'[m].pc = "done"
               /\ row[m] = NoRow => row'[m] = NoRow
               /\ row'[m] # NoRow => row'[m].at = row[m].at
               /\ row'[m].key => row[m].key
               /\ row'[m].body => row[m].body
    PROVE  NotPassedOver'
<1> SUFFICES ASSUME job.pc # "idle" PROVE NotPassedOver'
  BY DEF NotPassedOver
<1> USE DEF DoneInv, SafeInv
<1>1. /\ job.owed.scrub \subseteq Msgs /\ job.owed.media \subseteq Msgs
      /\ job.owed.rows \subseteq Msgs
  BY DEF TypeOK, Jobs
<1>2. \A m \in job.owed.scrub \cup job.owed.media \cup job.owed.rows : inb[m].pc = "done"
  BY DEF NotPassedOver
<1>3. \A m \in job'.owed.scrub \cup job'.owed.media \cup job'.owed.rows : inb'[m].pc = "done"
  BY <1>1, <1>2
<1>4. \A m \in job'.owed.media \cup job'.owed.rows : job'.pc # "ping" => Org(m) \in job'.steady
  BY DEF NotPassedOver
<1>5. \A m \in job'.owed.scrub :
         IF job'.pc # "ping" /\ job'.phase = "scrub" THEN ConvOf[m] \in job'.convs
         ELSE ~row'[m].body /\ ~row'[m].key
  BY <1>1, <1>2 DEF NotPassedOver
<1>6. ASSUME NEW m \in job'.owed.media \cup job'.owed.rows
      PROVE  InAPass(m) => InAPass(m)'
  BY DEF InAPass, Scoped, Org
<1>7. ASSUME NEW m \in job'.owed.media, row'[m].key
      PROVE  /\ job'.pc # "ping" /\ job'.phase # "rows" /\ Overdue(m, "media")'
             /\ job'.phase = "media" => InAPass(m)'
  <2>1. m \in job.owed.media /\ row[m].key /\ m \in Msgs
    BY <1>1, <1>2, <1>7
  <2>2. row'[m].at = row[m].at
    <3>1. row'[m] # NoRow
      BY <1>7 DEF NoRow
    <3> QED
      BY <1>2, <2>1, <3>1
  <2>3. terms'[Org(m)] = terms[Org(m)]
    BY <1>7
  <2>4. job.pc # "ping" /\ job.phase # "rows" /\ Overdue(m, "media")
        /\ (job.phase = "media" => InAPass(m))
    BY <2>1 DEF NotPassedOver
  <2>5. Overdue(m, "media")'
    BY <2>2, <2>3, <2>4 DEF Overdue, Org
  <2> QED
    BY <1>6, <1>7, <2>4, <2>5
<1>8. ASSUME NEW m \in job'.owed.rows \cap Rows'
      PROVE  /\ job'.pc # "ping" /\ Overdue(m, "rows")'
             /\ job'.phase = "rows" => InAPass(m)'
  <2>1. m \in job.owed.rows /\ row'[m] # NoRow /\ m \in Msgs
    BY <1>1, <1>8 DEF Rows
  <2>2. m \in Rows /\ row'[m].at = row[m].at
    BY <1>2, <2>1 DEF Rows
  <2>3. terms'[Org(m)] = terms[Org(m)]
    BY <1>8
  <2>4. job.pc # "ping" /\ Overdue(m, "rows") /\ (job.phase = "rows" => InAPass(m))
    BY <2>1, <2>2 DEF NotPassedOver
  <2>5. Overdue(m, "rows")'
    BY <2>2, <2>3, <2>4 DEF Overdue, Org
  <2> QED
    BY <1>6, <1>8, <2>4, <2>5
<1> QED
  BY <1>3, <1>4, <1>5, <1>7, <1>8 DEF NotPassedOver

\* A client whose pass is left is in the next one or still left.
LEMMA LeftIsToCome ==
    ASSUME TypeOK, job' \in NextPasses, NEW m \in Msgs, Org(m) \in job.left
    PROVE  job'.pc = "select" /\ job'.phase = job.phase /\ InAPass(m)'
<1>1. /\ job'.pc = "select" /\ job'.scope \in job.left /\ job'.left = job.left \ {job'.scope}
      /\ job'.phase = job.phase
  BY PassIsOver
<1>2. job'.scope # EveryoneElse
  BY <1>1, ScopeAssumption DEF TypeOK, Jobs
<1>3. Org(m) = job'.scope => Scoped(m)'
  BY <1>2 DEF Scoped, Org
<1> QED
  BY <1>1, <1>3 DEF InAPass, Org

\* A pass that is over, of the phase that it belongs to.
LEMMA PassIsDone ==
    ASSUME DoneInv, job.pc \in {"select", "remove", "write"}, job.phase # "scrub",
           job' \in NextPasses, UNCHANGED <<day, terms, inb>>, row' = row \/ RowsShrink,
           \A m \in job.owed.media : job.phase = "media" /\ row'[m].key => ~Chosen(m),
           \A m \in job.owed.rows \cap Rows' : job.phase = "rows" => ~Chosen(m)
    PROVE  NotPassedOver'
<1> USE DEF DoneInv, SafeInv
<1>1. /\ job.owed.scrub \subseteq Msgs /\ job.owed.media \subseteq Msgs
      /\ job.owed.rows \subseteq Msgs /\ job.left \subseteq Orgs
      /\ job.phase \in {"media", "rows"}
  BY DEF TypeOK, Jobs
<1>2. /\ job'.owed = job.owed /\ job'.pc \in {"select", "terms", "ping"}
      /\ job'.pc = "ping" \/ job'.steady = job.steady
      /\ \/ job'.pc = "select" /\ job'.phase = job.phase
         \/ job'.pc = "terms" /\ job'.phase = "rows" /\ job.phase = "media" /\ job.left = {}
         \/ job'.pc = "ping" /\ job.phase = "rows" /\ job.left = {}
  BY <1>1, PassIsOver
<1>3. \A m \in Msgs : /\ row[m] = NoRow => row'[m] = NoRow
                      /\ row'[m] # NoRow => row'[m].at = row[m].at
                      /\ row'[m].key => row[m].key
                      /\ row'[m].body => row[m].body
  BY DEF RowsShrink
<1>4. \A m \in job.owed.scrub : ~row'[m].body /\ ~row'[m].key
  BY <1>1, <1>3 DEF NotPassedOver
<1>5. ASSUME NEW m \in job.owed.media, row'[m].key
      PROVE  /\ job.phase = "media" /\ Overdue(m, "media")' /\ Org(m) \in job.left
  <2>1. m \in Msgs /\ row[m].key /\ row'[m] # NoRow
    BY <1>1, <1>3, <1>5 DEF NoRow
  <2>2. job.phase = "media" /\ Overdue(m, "media") /\ InAPass(m) /\ Org(m) \in job.steady
    BY <1>1, <2>1 DEF NotPassedOver
  <2>3. ~Scoped(m)
    BY <1>5, <2>1, <2>2, ChosenIsOverdue
  <2>4. Overdue(m, "media")'
    BY <1>3, <2>1, <2>2 DEF Overdue, Org
  <2> QED
    BY <2>2, <2>3, <2>4 DEF InAPass
<1>6. ASSUME NEW m \in job.owed.rows \cap Rows'
      PROVE  /\ Overdue(m, "rows")' /\ (job.phase = "rows" => Org(m) \in job.left)
  <2>1. m \in Msgs /\ m \in Rows /\ row'[m] # NoRow
    BY <1>1, <1>3, <1>6 DEF Rows
  <2>2. Overdue(m, "rows") /\ (job.phase = "rows" => InAPass(m)) /\ Org(m) \in job.steady
    BY <2>1, <1>6 DEF NotPassedOver
  <2>3. job.phase = "rows" => ~Scoped(m)
    BY <1>6, <2>1, <2>2, ChosenIsOverdue
  <2>4. Overdue(m, "rows")'
    BY <1>3, <2>1, <2>2 DEF Overdue, Org
  <2> QED
    BY <2>2, <2>3, <2>4 DEF InAPass
<1>7. \A m \in Msgs : Org(m) \in job.left => job'.pc = "select" /\ InAPass(m)'
  BY LeftIsToCome
<1>8. \A m \in job.owed.media : row'[m].key =>
         /\ job'.pc # "ping" /\ job'.phase # "rows" /\ Overdue(m, "media")' /\ InAPass(m)'
  BY <1>1, <1>2, <1>5, <1>7
<1>9. \A m \in job.owed.rows \cap Rows' :
         /\ job'.pc # "ping" /\ Overdue(m, "rows")'
         /\ job'.phase = "rows" => InAPass(m)'
  <2>1. job'.pc = "terms" => \A m \in Msgs : InAPass(m)'
    BY DEF InAPass
  <2> QED
    BY <1>1, <1>2, <1>6, <1>7, <2>1
<1>10. /\ \A m \in job.owed.scrub \cup job.owed.media \cup job.owed.rows : inb'[m].pc = "done"
       /\ \A m \in job.owed.media \cup job.owed.rows : job'.pc # "ping" => Org(m) \in job'.steady
  BY <1>2 DEF NotPassedOver
<1>11. job'.phase = "scrub" => job'.pc = "ping"
  BY <1>1, <1>2
<1> QED
  BY <1>2, <1>4, <1>8, <1>9, <1>10, <1>11 DEF NotPassedOver, Org

LEMMA DoneByJob ==
    ASSUME DoneInv, StartJob \/ JobStep \/ JobFails
    PROVE  NotPassedOver'
<1> USE DEF DoneInv
<1>1. SafeInv /\ TypeOK /\ Fresh /\ NotPassedOver /\ UNCHANGED <<day, terms, inb>>
  BY JobKeeps DEF SafeInv
<1>2. /\ job.owed.scrub \subseteq Msgs /\ job.owed.media \subseteq Msgs
      /\ job.owed.rows \subseteq Msgs
  BY <1>1 DEF TypeOK, Jobs
<1>3. CASE StartJob
  <2>1. /\ job'.owed = Owed /\ job'.steady = Orgs /\ row' = row
        /\ \/ /\ job'.pc = "select" /\ job'.phase = "scrub"
              /\ job'.convs = {c \in Convs : FlaggedBefore(c, day - 1)}
           \/ /\ job'.pc = "terms" /\ job'.phase = "media"
              /\ \A c \in Convs : ~FlaggedBefore(c, day - 1)
    BY <1>1, <1>3, JobBegins DEF StartJob
  <2>2. /\ \A m \in Msgs : Org(m) \in Orgs /\ ConvOf[m] \in Convs
        /\ \A m \in Rows : m \in Msgs /\ inb[m].pc = "done"
    BY <1>1, ConvAssumption DEF Org, Rows, Fresh
  <2>3. /\ \A m \in Owed.scrub : m \in Rows /\ FlaggedBefore(ConvOf[m], day - 1)
        /\ \A m \in Owed.media : m \in Rows /\ Overdue(m, "media")
        /\ \A m \in Owed.rows : m \in Rows /\ Overdue(m, "rows")
    BY DEF Owed
  <2>4. \A m \in Msgs : \A phase \in {"media", "rows"} : Overdue(m, phase)' <=> Overdue(m, phase)
    BY <1>1, <2>1 DEF Overdue, Org
  <2>5. \A m \in Owed.media : job'.phase = "media" => InAPass(m)'
    BY <2>1 DEF InAPass
  <2> QED
    BY <1>1, <2>1, <2>2, <2>3, <2>4, <2>5 DEF NotPassedOver, Org
<1>4. CASE ReadTerms
  <2>1. /\ job.pc = "terms" /\ job'.pc = "select" /\ job'.terms = terms
        /\ job'.phase = job.phase /\ job'.scope = EveryoneElse
        /\ job'.left = {o \in Orgs : Overrode(terms[o], job.phase)}
        /\ job'.steady = job.steady /\ job'.owed = job.owed /\ row' = row
    BY <1>1, <1>4, TermsAreRead DEF ReadTerms
  <2>2. \A m \in Msgs : InAPass(m)'
    <3>1. \A m \in Msgs : Org(m) \in Orgs
      BY ConvAssumption DEF Org
    <3> QED
      BY <2>1, <3>1 DEF InAPass, Scoped, Org
  <2>3. \A m \in Msgs : \A phase \in {"media", "rows"} : Overdue(m, phase)' <=> Overdue(m, phase)
    BY <1>1, <2>1 DEF Overdue, Org
  <2>4. job.phase # "scrub"
    BY <1>1, <2>1 DEF SafeInv, GoesByTerms
  <2> QED
    BY <1>1, <1>2, <2>1, <2>2, <2>3, <2>4 DEF NotPassedOver, Org, Rows
<1>5. CASE SelectKeys
  <2> DEFINE found == {m \in Rows : Chosen(m) /\ row[m].key}
  <2>1. /\ job.pc = "select" /\ row' = row
        /\ \/ found = {} /\ job.phase = "media" /\ job' \in NextPasses
           \/ /\ job'.pc = "remove" /\ job'.phase = job.phase /\ job'.scope = job.scope
              /\ job'.terms = job.terms /\ job'.convs = job.convs /\ job'.left = job.left
              /\ job'.steady = job.steady /\ job'.owed = job.owed
    BY <1>1, <1>5, KeysAreRead DEF SelectKeys
  <2>2. CASE found = {} /\ job.phase = "media" /\ job' \in NextPasses
    <3>1. \A m \in job.owed.media : row[m].key => ~Chosen(m)
      BY <1>2, <2>2 DEF Rows, NoRow
    <3> QED
      BY <1>1, <2>1, <2>2, <3>1, PassIsDone
  <2>3. CASE /\ job'.pc = "remove" /\ job'.phase = job.phase /\ job'.scope = job.scope
             /\ job'.terms = job.terms /\ job'.convs = job.convs /\ job'.left = job.left
             /\ job'.steady = job.steady /\ job'.owed = job.owed
    <3>1. /\ \A m \in Msgs : InAPass(m) => InAPass(m)'
          /\ \A m \in Msgs : \A phase \in {"media", "rows"} :
                Overdue(m, phase)' <=> Overdue(m, phase)
      BY <1>1, <2>1, <2>3 DEF InAPass, Scoped, Org, Overdue
    <3> QED
      BY <1>1, <1>2, <2>1, <2>3, <3>1 DEF NotPassedOver, Org, Rows
  <2> QED
    BY <2>1, <2>2, <2>3
<1>6. CASE RemoveObjects
  <2>1. /\ job.pc = "remove" /\ job'.pc = "write" /\ row' = row
        /\ job'.phase = job.phase /\ job'.scope = job.scope /\ job'.terms = job.terms
        /\ job'.convs = job.convs /\ job'.left = job.left
        /\ job'.steady = job.steady /\ job'.owed = job.owed
    BY <1>1, <1>6, ObjectsGo DEF RemoveObjects
  <2>2. /\ \A m \in Msgs : InAPass(m) => InAPass(m)'
        /\ \A m \in Msgs : \A phase \in {"media", "rows"} :
              Overdue(m, phase)' <=> Overdue(m, phase)
    BY <1>1, <2>1 DEF InAPass, Scoped, Org, Overdue
  <2> QED
    BY <1>1, <1>2, <2>1, <2>2 DEF NotPassedOver, Org, Rows
<1>7. CASE WriteRows
  <2>1. /\ job.pc = "write" /\ RowsShrink
        /\ \A m \in Rows : Chosen(m) => row'[m] = Written(m)
    BY <1>1, <1>7, RowsAreWritten DEF WriteRows, Rows
  <2>2. row \in [Msgs -> RowStates] /\ ~NoRow.key /\ ~NoRow.body /\ NoRow.key = FALSE
    BY <1>1 DEF TypeOK, NoRow
  <2>3. CASE job.phase = "scrub"
    <3>1. /\ job'.pc = "terms" /\ job'.phase = "media"
          /\ job'.steady = job.steady /\ job'.owed = job.owed
      BY <1>1, <1>7, <2>3, ScrubIsOver DEF WriteRows, TypeOK
    <3>2. ASSUME NEW m \in job.owed.scrub PROVE ~row'[m].body /\ ~row'[m].key
      <4>1. m \in Msgs /\ Chosen(m)
        BY <1>1, <1>2, <2>1, <2>3 DEF NotPassedOver, Chosen
      <4>2. CASE m \in Rows
        BY <2>1, <2>2, <2>3, <4>1, <4>2 DEF Written, RowStates
      <4>3. CASE m \notin Rows
        BY <2>1, <2>2, <4>1, <4>3 DEF Rows, RowsShrink
      <4> QED
        BY <4>2, <4>3
    <3>3. \A m \in Msgs : row'[m] # NoRow \/ row'[m].key =>
            /\ row[m] # NoRow /\ (row'[m].key => row[m].key)
            /\ \A phase \in {"media", "rows"} : Overdue(m, phase) => Overdue(m, phase)'
      BY <1>1, <2>1, <2>2 DEF RowsShrink, Overdue, Org
    <3>4. \A m \in Msgs : InAPass(m)'
      BY <3>1 DEF InAPass
    <3> QED
      BY <1>1, <1>2, <2>1, <3>1, <3>2, <3>3, <3>4 DEF NotPassedOver, Org, Rows
  <2>4. CASE job.phase # "scrub"
    <3>1. job' \in NextPasses /\ job.phase \in {"media", "rows"}
      BY <1>1, <1>7, <2>4 DEF WriteRows, TypeOK, Jobs
    <3>2. ASSUME NEW m \in job.owed.media, job.phase = "media", row'[m].key PROVE ~Chosen(m)
      <4>1. m \in Rows
        BY <1>2, <2>1, <2>2, <3>2 DEF RowsShrink, Rows
      <4>2. Written(m).key = FALSE
        BY <1>2, <2>2, <3>2 DEF Written, RowStates
      <4> QED
        BY <2>1, <3>2, <4>1, <4>2
    <3>3. ASSUME NEW m \in job.owed.rows \cap Rows', job.phase = "rows" PROVE ~Chosen(m)
      <4>1. m \in Rows /\ row'[m] # NoRow
        BY <1>2, <2>1, <3>3 DEF RowsShrink, Rows
      <4>2. Written(m) = NoRow
        BY <3>3 DEF Written
      <4> QED
        BY <2>1, <4>1, <4>2
    <3> QED
      BY <1>1, <2>1, <2>4, <3>1, <3>2, <3>3, PassIsDone
  <2> QED
    BY <2>3, <2>4
<1>8. CASE Ping \/ JobFails
  <2>1. job'.pc = "idle"
    BY <1>8, NoJobType DEF Ping, JobFails
  <2> QED
    BY <2>1 DEF NotPassedOver
<1> QED
  BY <1>3, <1>4, <1>5, <1>6, <1>7, <1>8 DEF JobStep

LEMMA DoneNext ==
    ASSUME DoneInv, [Next]_vars
    PROVE  DoneInv'
<1>1. SafeInv /\ TypeOK /\ Fresh /\ SafeInv'
  BY SafeNext DEF DoneInv, SafeInv
<1>2. Touchy \subseteq Convs /\ Changing \subseteq Orgs
  BY InputAssumption
<1>3. CASE StartJob \/ JobStep \/ JobFails
  BY <1>1, <1>3, DoneByJob DEF DoneInv
<1>4. ASSUME job' = job, job.pc # "idle" => day' = day /\ terms' = terms,
             \A m \in Msgs : inb[m].pc = "done" =>
               /\ inb'[m].pc = "done"
               /\ row[m] = NoRow => row'[m] = NoRow
               /\ row'[m] # NoRow => row'[m].at = row[m].at
               /\ row'[m].key => row[m].key
               /\ row'[m].body => row[m].body
      PROVE  NotPassedOver'
  BY <1>4, OwedKept
<1>12. ASSUME NEW o \in Orgs, job' = Without(o), day' = day,
              \A p \in Orgs \ {o} : terms'[p] = terms[p],
             \A m \in Msgs : inb[m].pc = "done" =>
               /\ inb'[m].pc = "done"
               /\ row[m] = NoRow => row'[m] = NoRow
               /\ row'[m] # NoRow => row'[m].at = row[m].at
               /\ row'[m].key => row[m].key
               /\ row'[m].body => row[m].body
       PROVE  NotPassedOver'
  <2>2. /\ job'.pc = job.pc /\ job'.phase = job.phase /\ job'.scope = job.scope
        /\ job'.terms = job.terms /\ job'.convs = job.convs /\ job'.left = job.left
        /\ job.pc # "idle" =>
             /\ job'.steady = job.steady \ {o} /\ job'.owed.scrub = job.owed.scrub
             /\ job'.owed.media = {m \in job.owed.media : Org(m) # o}
             /\ job'.owed.rows = {m \in job.owed.rows : Org(m) # o}
    BY <1>1, <1>12, TermsChange
  <2>3. ASSUME job.pc # "idle", NEW m \in job'.owed.media \cup job'.owed.rows
        PROVE  /\ terms'[Org(m)] = terms[Org(m)]
               /\ Org(m) \in job.steady => Org(m) \in job'.steady
    <3>1. m \in Msgs
      BY <1>1, <2>2, <2>3 DEF TypeOK, Jobs
    <3>2. Org(m) # o /\ Org(m) \in Orgs
      BY <2>2, <2>3, <3>1, ConvAssumption DEF Org
    <3> QED
      BY <1>12, <2>2, <2>3, <3>2
  <2>4. job.pc # "idle" => job'.owed.media \subseteq job.owed.media
                           /\ job'.owed.rows \subseteq job.owed.rows
    BY <2>2
  <2> QED
    BY <1>12, <2>2, <2>3, <2>4, OwedKept
<1>5. ASSUME NEW m \in Msgs, Arrive(m) \/ InsertMessage(m) PROVE NotPassedOver'
  <2>1. UNCHANGED <<job, day, terms>> /\ inb[m].pc # "done"
    BY <1>5 DEF Arrive, InsertMessage
  <2>2. \A n \in Msgs \ {m} : inb'[n] = inb[n] /\ row'[n] = row[n]
    BY <1>1, <1>5 DEF TypeOK, Arrive, InsertMessage, Taken
  <2> QED
    BY <1>4, <2>1, <2>2
<1>6. ASSUME NEW c \in Convs, StartErasure(c) \/ EraseStep(c) \/ ErasureFails(c)
      PROVE  NotPassedOver'
  <2>1. UNCHANGED <<job, day, terms, inb>> /\ (row' = row \/ RowsShrink)
    BY <1>1, <1>6, ErasureKeeps
  <2> QED
    BY <1>4, <2>1 DEF RowsShrink
<1>7. ASSUME (\E c \in Convs : Flag(c)) \/ UNCHANGED vars PROVE NotPassedOver'
  BY <1>4, <1>7 DEF Flag, vars
<1>8. ASSUME Tick PROVE NotPassedOver'
  BY <1>4, <1>8 DEF Tick
<1>9. ASSUME NEW o \in Orgs, NEW t \in Overrides, SetTerms(o, t) PROVE NotPassedOver'
  <2>1. /\ UNCHANGED <<day, row, inb>> /\ job' = Without(o)
        /\ \A p \in Orgs \ {o} : terms'[p] = terms[p]
    BY <1>1, <1>9 DEF SetTerms, TypeOK
  <2> QED
    BY <1>12, <2>1
<1>11. ASSUME DemoReset \/ \E o \in Leaving : Offboard(o) PROVE NotPassedOver'
  <2>1. RowsShrink /\ UNCHANGED <<day, inb>>
    BY <1>1, <1>11, DeletionKeeps
  <2>2. CASE DemoReset
    BY <1>4, <2>1, <2>2 DEF DemoReset, RowsShrink
  <2>3. CASE \E o \in Leaving : Offboard(o)
    <3>1. PICK o \in Orgs : Offboard(o)
      BY <2>3, InputAssumption
    <3>2. job' = Without(o) /\ \A p \in Orgs \ {o} : terms'[p] = terms[p]
      BY <1>1, <3>1 DEF Offboard, TypeOK
    <3> QED
      BY <1>12, <2>1, <3>2 DEF RowsShrink
  <2> QED
    BY <1>11, <2>2, <2>3
<1>10. NotPassedOver'
  BY <1>2, <1>3, <1>5, <1>6, <1>7, <1>8, <1>9, <1>11 DEF Next, DoneInv
<1> QED
  BY <1>1, <1>10 DEF DoneInv

-----------------------------------------------------------------------------
(* Nothing goes before its time.                                           *)

\* Whatever a pass chooses of a client that has kept its terms is due.
LEMMA ChosenIsDue ==
    ASSUME SafeInv, job.pc \in {"select", "remove", "write"}, NEW m \in Rows, Chosen(m),
           Org(m) \in job.steady
    PROVE  \/ job.phase = "scrub" /\ FlaggedBefore(ConvOf[m], day - 1)
           \/ job.phase \in {"media", "rows"} /\ Overdue(m, job.phase)
<1>1. m \in Msgs /\ row[m] # NoRow /\ alive[ConvOf[m]]
  BY DEF Rows, SafeInv, Fresh
<1>2. CASE job.phase = "scrub"
  BY <1>1, <1>2 DEF SafeInv, GoesByTerms, Chosen
<1>3. CASE job.phase # "scrub"
  <2>1. Scoped(m) /\ job.phase \in {"media", "rows"}
    BY <1>3 DEF Chosen, SafeInv, TypeOK, Jobs
  <2> QED
    BY <1>1, <1>3, <2>1, ChosenIsOverdue
<1> QED
  BY <1>2, <1>3

LEMMA StepsInTime ==
    ASSUME SafeInv, [Next]_vars
    PROVE  GoesInTime
<1>1. TypeOK /\ Fresh /\ Sweeping /\ Erasing /\ Touchy \subseteq Convs
  BY InputAssumption DEF SafeInv
<1> SUFFICES ASSUME NEW m \in Rows, Org(m) \in job.steady
             PROVE  /\ row'[m] # row[m] => \/ FlaggedBefore(ConvOf[m], day - 1)
                                           \/ era[ConvOf[m]].pc # "idle" \/ ~alive'[ConvOf[m]]
                                           \/ Overdue(m, "media") /\ row'[m].body = row[m].body
                                           \/ Overdue(m, "rows")
                    /\ m \in stored \ stored' => \/ FlaggedBefore(ConvOf[m], day - 1)
                                                 \/ era[ConvOf[m]].pc # "idle"
                                                 \/ Overdue(m, "media") \/ Overdue(m, "rows")
  BY DEF GoesInTime
<1>2. m \in Msgs /\ inb[m].pc = "done"
  BY <1>1 DEF Rows, Fresh
<1>3. CASE row'[m] = row[m] /\ stored \subseteq stored'
  BY <1>3
<1>4. ASSUME NEW n \in Msgs, Arrive(n) \/ InsertMessage(n)
      PROVE  row'[m] = row[m] /\ stored \subseteq stored'
  BY <1>1, <1>2, <1>4 DEF Arrive, InsertMessage, TypeOK
<1>5. CASE RemoveObjects
  <2>1. job.pc = "remove" /\ row' = row /\ (m \in stored \ stored' => m \in job.keys)
    BY <1>1, <1>5, ObjectsGo DEF RemoveObjects
  <2> QED
    BY <1>1, <2>1, ChosenIsDue DEF Sweeping
<1>6. CASE WriteRows
  <2>1. /\ job.pc = "write" /\ stored' = stored
        /\ row'[m] = IF Chosen(m) THEN Written(m) ELSE row[m]
    BY <1>2, <1>6 DEF WriteRows
  <2>2. job.phase = "media" => Written(m).body = row[m].body
    BY <1>1, <1>2 DEF Written, TypeOK, RowStates
  <2> QED
    BY <2>1, <2>2, ChosenIsDue
<1>7. ASSUME NEW c \in Convs, StartErasure(c) \/ EraseStep(c) \/ ErasureFails(c),
             row'[m] # row[m] \/ m \in stored \ stored'
      PROVE  era[ConvOf[m]].pc # "idle"
  <2>1. CASE row'[m] # row[m]
    <3>1. ConvOf[m] = c
      BY <1>1, <1>2, <1>7, <2>1, ErasureKeeps
    <3>2. ~StartErasure(c) /\ ~ErasureFails(c)
      BY <2>1 DEF StartErasure, ErasureFails
    <3> QED
      BY <1>7, <3>1, <3>2 DEF EraseStep, EraseMessages, EraseConversation, ListMedia, EraseObjects
  <2>2. CASE m \in stored \ stored'
    <3>1. era[c].pc = "remove" /\ m \in era[c].keys
      BY <1>7, <2>2 DEF StartErasure, ErasureFails, EraseStep, EraseMessages, EraseConversation,
         ListMedia, EraseObjects
    <3> QED
      BY <1>1, <3>1 DEF Erasing
  <2> QED
    BY <1>7, <2>1, <2>2
<1>8. CASE \/ StartJob \/ ReadTerms \/ SelectKeys \/ Ping \/ JobFails \/ Tick \/ UNCHANGED vars
           \/ \E c \in Convs : Flag(c)
           \/ \E o \in Changing, t \in Overrides : SetTerms(o, t)
  <2>1. row' = row /\ stored' = stored
    BY <1>8 DEF StartJob, ReadTerms, SelectKeys, Ping, JobFails, Tick, vars, Flag, SetTerms
  <2> QED
    BY <1>3, <2>1
<1>9. CASE DemoReset \/ \E o \in Leaving : Offboard(o)
  BY <1>2, <1>9, DeletionKeeps
<1> QED
  BY <1>1, <1>3, <1>4, <1>5, <1>6, <1>7, <1>8, <1>9 DEF Next, JobStep

\* What a step of the job forgets.
LEMMA KeysGoLast ==
    ASSUME SafeInv, [Next]_vars
    PROVE  KeyGoesLast
<1>1. TypeOK /\ Fresh /\ Sweeping /\ Touchy \subseteq Convs
  BY InputAssumption DEF SafeInv
<1> SUFFICES ASSUME NEW m \in stored, row[m].key, ~row'[m].key
             PROVE  \/ job.pc = "write" /\ (m \notin job.there \/ m \in job.refused)
                    \/ era[ConvOf[m]].pc # "idle" \/ ~alive'[ConvOf[m]]
  BY DEF KeyGoesLast
<1>2. m \in Rows /\ m \in Msgs /\ inb[m].pc = "done" /\ row'[m] # row[m]
  BY <1>1, PicturesAssumption DEF TypeOK, Rows, NoRow, Fresh
<1>3. CASE WriteRows
  <2>1. job.pc = "write" /\ Chosen(m)
    BY <1>2, <1>3 DEF WriteRows
  <2> QED
    BY <1>1, <1>2, <2>1 DEF Sweeping
<1>4. ASSUME NEW n \in Msgs, Arrive(n) \/ InsertMessage(n) PROVE FALSE
  BY <1>1, <1>2, <1>4 DEF Arrive, InsertMessage, TypeOK
<1>5. ASSUME NEW c \in Convs, StartErasure(c) \/ EraseStep(c) \/ ErasureFails(c)
      PROVE  era[ConvOf[m]].pc # "idle"
  <2>1. ConvOf[m] = c
    BY <1>2, <1>5, ErasureKeeps
  <2>2. ~StartErasure(c) /\ ~ErasureFails(c)
    BY <1>2 DEF StartErasure, ErasureFails
  <2> QED
    BY <1>5, <2>1, <2>2 DEF EraseStep, EraseMessages, EraseConversation, ListMedia, EraseObjects
<1>6. CASE DemoReset \/ \E o \in Leaving : Offboard(o)
  BY <1>2, <1>6, DeletionKeeps
<1>7. CASE \/ StartJob \/ ReadTerms \/ SelectKeys \/ RemoveObjects \/ Ping \/ JobFails
           \/ Tick \/ UNCHANGED vars \/ \E c \in Convs : Flag(c)
           \/ \E o \in Changing, t \in Overrides : SetTerms(o, t)
  BY <1>2, <1>7 DEF StartJob, ReadTerms, SelectKeys, RemoveObjects, Ping, JobFails, Tick, vars,
     Flag, SetTerms
<1> QED
  BY <1>1, <1>3, <1>4, <1>5, <1>6, <1>7 DEF Next, JobStep

-----------------------------------------------------------------------------
(* The theorems.                                                           *)

\* The types of Retention, a message's row and a job's record among them
\* (cron.ts, conversation.ts, storage.ts).
THEOREM RetentionTypes == Spec => []TypeOK
<1>1. SafeInv /\ [Next]_vars => SafeInv'
  BY SafeNext
<1> QED
  BY <1>1, SafeInit, PTL DEF Spec, SafeInv

\* The job drops the key of a row only after the object it names, for any
\* conversations, pictures and faults: where a row forgets an object that is
\* there, the row was not there when the keys were read, the bucket refused its
\* delete, or the conversation is being erased or has gone (cron.ts: dropMedia,
\* scrubFlaggedContent, purge; conversation.ts: erase).
THEOREM NothingIsForgotten == Spec => NothingForgotten
<1>1. SafeInv /\ [Next]_vars => SafeInv'
  BY SafeNext
<1>2. SafeInv /\ [Next]_vars => [KeyGoesLast]_vars
  BY KeysGoLast
<1> QED
  BY <1>1, <1>2, SafeInit, PTL DEF Spec, NothingForgotten

\* A success is one: a job that pings has dropped all that was due when it began
\* for every client that kept its terms, however the clients' own terms, late
\* messages, flags and erasures fall between its calls (cron.ts: retentionDelete).
THEOREM JobsFinishTheirWork == Spec => []SuccessIsDone
<1>1. Init => DoneInv
  BY SafeInit, NoJobType DEF Init, DoneInv, NotPassedOver
<1>2. DoneInv /\ [Next]_vars => DoneInv'
  BY DoneNext
<1>3. DoneInv => SuccessIsDone
  BY DEF DoneInv, NotPassedOver, SuccessIsDone
<1> QED
  BY <1>1, <1>2, <1>3, PTL DEF Spec

\* A row, its text or its picture goes only by its client's term, a flag of more
\* than a day, an erasure, or with its conversation, for any terms (cron.ts:
\* scoped, retentionOverrides).
THEOREM NothingIsDroppedEarly == Spec => NothingGoesEarly
<1>1. SafeInv /\ [Next]_vars => SafeInv'
  BY SafeNext
<1>2. SafeInv /\ [Next]_vars => [GoesInTime]_vars
  BY StepsInTime
<1> QED
  BY <1>1, <1>2, SafeInit, PTL DEF Spec, NothingGoesEarly
=============================================================================
