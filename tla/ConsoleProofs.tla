--------------------------- MODULE ConsoleProofs ---------------------------
(***************************************************************************)
(* The training console (Console.tla), for any clients, documents, limits, *)
(* clicks and faults: its types, that no document holds what was written   *)
(* for another client, that each cost on screen has a row of its own, that *)
(* one answer at most is out of place, and that the list of documents      *)
(* settles.                                                                *)
(***************************************************************************)
EXTENDS Console, SequenceTheorems, FiniteSetTheorems, TLAPS

Asking == {"asked", "meter", "audit", "answered"}

Exchange == [from : Text, cost : {0, 1}, row : Row]
RunType == [of : Orgs \cup {None}, pc : {"idle", "asked", "meter", "audit", "answered", "failed"},
            from : Text, tone : Text, cost : {0, 1}, row : Row]
FormType == [filled : BOOLEAN, tone : Text]
KbType == [list : SUBSET Entry, loaded : BOOLEAN, stale : BOOLEAN]
DocType == [of : Orgs \cup {None, Gone}, text : Text]

\* What is under way knows whose it is, and a question is on its way only
\* while the transcript has room for its answer.
CallKnown ==
    kbCall.pc # "idle" =>
        /\ kbCall.of \in Orgs /\ kbCall.kind \in {"create", "update", "delete"}
        /\ kbCall.kind # "create" => kbCall.doc \in Docs
LoadsKnown == /\ load.pc # "idle" => load.of \in Orgs
              /\ reload.pc # "idle" => reload.of \in Orgs
RunKnown == /\ run.pc = "idle" <=> run = NoRun
            /\ run.pc # "idle" => run.of \in Orgs
            /\ run.pc \in Asking => Len(turns) <= HistoryLimit

ServerType == era \in 0..MaxRewrites /\ tone \in [Orgs -> Text] /\ docs \in [Docs -> DocType]
MeterType == usage \in SUBSET Row /\ erased \in SUBSET Row /\ billed \in Nat /\ paid \in Nat
ChatType == /\ turns \in Seq(Exchange) /\ Len(turns) <= HistoryLimit + 1
            /\ run \in RunType /\ RunKnown /\ untold \in BOOLEAN
VoiceType == /\ voice \in FormType /\ voiceCall \in Call
             /\ voiceCall.pc # "idle" => voiceCall.of \in Orgs
LibraryType == /\ kb \in KbType /\ load \in Loads /\ kbCall \in Call /\ reload \in Loads
               /\ CallKnown /\ LoadsKnown
CountType == /\ orgId \in Orgs /\ reset \in {"no", "reset", "load", "done"}
             /\ reset \in {"reset", "load"} => era < MaxRewrites
             /\ clicks \in 0..MaxClicks /\ faults \in 0..MaxFaults

TypeInv == ServerType /\ MeterType /\ ChatType /\ VoiceType /\ LibraryType /\ CountType

\* A document that was listed, on screen or on its way there, is still the
\* client's it was listed for, or was deleted; and a save holds that client's
\* text, or what its statement will not match.
Seen == kb.list \cup load.seen \cup reload.seen
OwnInv ==
    /\ DocsAreOwn
    /\ \A e \in Seen : e.text[1] \in Orgs /\ docs[e.id].of \in {e.text[1], Gone}
    /\ kbCall.pc = "asked" =>
         /\ kbCall.kind = "create" => kbCall.text[1] = kbCall.of
         /\ kbCall.kind = "update" =>
              /\ docs[kbCall.doc].of # None
              /\ docs[kbCall.doc].of = kbCall.of => kbCall.text[1] = kbCall.of

\* The list is the stored one, or a save made here will bring the next; and so
\* is one that was read and not overtaken.
ListInv ==
    /\ load.pc # "idle" => load.of = orgId
    /\ load.pc = "read" /\ ~load.behind => load.seen = Listing(load.of)
    /\ reload.pc = "read" /\ ~reload.behind => reload.seen = Listing(reload.of)
    /\ kbCall.pc = "reload" <=> reload.pc # "idle"
    /\ reload.pc # "idle" => reload.of = kbCall.of
    /\ kb.loaded /\ ~kb.stale =>
         kb.list = Listing(orgId) \/ (kbCall.pc = "reload" /\ kbCall.live /\ kbCall.of = orgId)

\* Rows are numbered; the exchanges that are shown, and the one that is about
\* to be, have theirs.
Ledger == usage \cup erased
Receipt(x) == IF x.cost = 1 THEN x.row \in Ledger ELSE x.row = Blank
SpentInv ==
    /\ \A u \in Ledger : u[2] \in 1..billed
    /\ \A i \in DOMAIN turns : Receipt(turns[i])
    /\ \A i \in DOMAIN turns, j \in DOMAIN turns :
          turns[i].cost = 1 /\ turns[i].row = turns[j].row => i = j
    /\ run.pc \in {"audit", "answered"} =>
         /\ Receipt(run)
         /\ run.cost = 1 => \A i \in DOMAIN turns : turns[i].row # run.row
    /\ run.pc \in {"asked", "meter"} => run.row = Blank
    /\ run.pc = "meter" => run.cost = 1
    /\ paid <= billed + 2 * faults + (IF run.pc = "meter" THEN 1 ELSE 0)

\* The answers out of place, of those whose place is R, and the one that is
\* going to be.
Strays(ts, R) == {i \in DOMAIN ts : ts[i].from \notin R}
Straying(r, o, R) == r.pc \in Asking /\ (r.of # o \/ (r.pc # "asked" /\ r.from \notin R))
OneOut(ts, r, o, R) == Cardinality(Strays(ts, R)) + (IF Straying(r, o, R) THEN 1 ELSE 0) <= 1
Own(o) == {t \in Text : t[1] = o}
StrayInv == /\ OneOut(turns, run, orgId, Own(orgId))
            /\ ~untold => OneOut(turns, run, orgId, {Now(orgId)})

-----------------------------------------------------------------------------
(* Texts and records.                                                      *)

LEMMA BlankText == Blank \in Text /\ Blank \in Row /\ Blank[1] = None /\ Blank[2] = 0
BY DEF Blank, Text, Row

LEMMA NowText ==
    ASSUME era \in 0..MaxRewrites, NEW o \in Orgs
    PROVE  Now(o) \in Text /\ Now(o)[1] = o
BY ConsoleAssumption DEF Now, Text

LEMMA NoCallIs == NoCall \in Call /\ NoCall.pc = "idle" /\ NoCall.of = None
BY BlankText DEF NoCall, Call

LEMMA NoLoadIs == NoLoad \in Loads /\ NoLoad.pc = "idle" /\ NoLoad.seen = {} /\ NoLoad.behind = FALSE
BY DEF NoLoad, Loads

LEMMA LoadIs ==
    ASSUME NEW o \in Orgs, NEW l, l = Load(o)
    PROVE  l \in Loads /\ l.pc = "asked" /\ l.of = o /\ l.seen = {} /\ l.behind = FALSE
BY DEF Load, Loads

LEMMA NoRunIs == /\ NoRun \in RunType /\ NoRun.pc = "idle" /\ NoRun.row = Blank /\ NoRun.cost = 0
                 /\ NoRun.of = None
BY BlankText DEF NoRun, RunType

LEMMA Empties == EmptyForm \in FormType /\ EmptyKb \in KbType /\ EmptyKb.list = {} /\ ~EmptyKb.loaded
BY BlankText DEF EmptyForm, FormType, EmptyKb, KbType

\* What a panel asks of the Worker.
LEMMA AskedIs ==
    ASSUME NEW o \in Orgs, NEW kind \in {"create", "update", "delete"},
           NEW d \in Docs \cup {None}, NEW t \in Text, NEW c,
           c = [of |-> o, kind |-> kind, doc |-> d, text |-> t, live |-> TRUE, pc |-> "asked"]
    PROVE  c \in Call /\ c.pc = "asked" /\ c.of = o /\ c.kind = kind /\ c.doc = d /\ c.text = t
BY DEF Call

Form(o, t) == [NoCall EXCEPT !.of = o, !.kind = "voice", !.text = t, !.live = TRUE, !.pc = "asked"]
LEMMA FormIs ==
    ASSUME NEW o \in Orgs, NEW t \in Text, NEW c, c = Form(o, t)
    PROVE  c \in Call /\ c.pc = "asked" /\ c.of = o
<1> DEFINE k == [NoCall EXCEPT !.of = o, !.kind = "voice"]
           l == [k EXCEPT !.text = t, !.live = TRUE]
<1>1. k \in Call /\ k.of = o
  BY NoCallIs DEF Call
<1>2. l = [k EXCEPT !.text = t, !.live = TRUE]
  OBVIOUS
<1>3. c = [l EXCEPT !.pc = "asked"]
  BY DEF Form
<1> HIDE DEF k
<1>4. l \in Call /\ l.of = o
  BY <1>1, <1>2 DEF Call
<1> HIDE DEF l
<1> QED
  BY <1>3, <1>4 DEF Call

\* What the answer to a call changes of it.
LEMMA CallDropped ==
    ASSUME NEW c \in Call, NEW d, d = [c EXCEPT !.live = FALSE]
    PROVE  /\ d \in Call /\ d.pc = c.pc /\ d.of = c.of
           /\ d.kind = c.kind /\ d.doc = c.doc /\ d.text = c.text /\ d.live = FALSE
BY DEF Call

LEMMA CallReloads ==
    ASSUME NEW c \in Call, NEW d, d = [c EXCEPT !.pc = "reload"]
    PROVE  /\ d \in Call /\ d.pc = "reload" /\ d.of = c.of
           /\ d.kind = c.kind /\ d.doc = c.doc /\ d.text = c.text /\ d.live = c.live
BY DEF Call

\* What a list on its way becomes.
LEMMA OvertakenIs ==
    ASSUME NEW l \in Loads, NEW o, NEW q, q = Overtaken(l, o)
    PROVE  /\ q \in Loads /\ q.of = l.of /\ q.pc = l.pc /\ q.seen = l.seen
           /\ ~q.behind <=> ~l.behind /\ ~(l.pc = "read" /\ l.of = o)
<1> DEFINE late == l.behind \/ (l.pc = "read" /\ l.of = o)
<1>1. q = [l EXCEPT !.behind = late] /\ late \in BOOLEAN
  BY DEF Overtaken
<1> HIDE DEF late
<1>2. /\ q \in Loads /\ q.of = l.of /\ q.pc = l.pc /\ q.seen = l.seen
      /\ q.behind = late
  BY <1>1 DEF Loads
<1> QED
  BY <1>2 DEF late

LEMMA ReadsIs ==
    ASSUME NEW l \in Loads, Listing(l.of) \in SUBSET Entry, NEW q, q = Reads(l)
    PROVE  /\ q \in Loads /\ q.of = l.of /\ q.pc = "read" /\ q.seen = Listing(l.of)
           /\ q.behind = l.behind
<1> DEFINE s == Listing(l.of)
           k == [l EXCEPT !.pc = "read"]
<1>1. k \in Loads /\ k.of = l.of /\ k.pc = "read" /\ k.behind = l.behind
  BY DEF Loads
<1>2. q = [k EXCEPT !.seen = s]
  BY DEF Reads
<1>3. s \in SUBSET Entry
  OBVIOUS
<1> HIDE DEF k, s
<1>4. /\ q \in Loads /\ q.of = k.of /\ q.pc = k.pc /\ q.seen = s /\ q.behind = k.behind
  BY <1>1, <1>2, <1>3 DEF Loads
<1> QED
  BY <1>1, <1>4 DEF s

LEMMA BehindIs ==
    ASSUME NEW o, kb \in KbType, Behind(o)
    PROVE  /\ kb' \in KbType /\ kb'.list = kb.list /\ kb'.loaded = kb.loaded
           /\ ~kb'.stale <=> ~kb.stale /\ orgId # o
<1> DEFINE late == kb.stale \/ orgId = o
<1>1. kb' = [kb EXCEPT !.stale = late] /\ late \in BOOLEAN
  BY DEF Behind
<1> HIDE DEF late
<1>2. kb' \in KbType /\ kb'.list = kb.list /\ kb'.loaded = kb.loaded /\ kb'.stale = late
  BY <1>1 DEF KbType
<1> QED
  BY <1>2 DEF late

LEMMA ShowsIs ==
    ASSUME NEW l \in Loads, NEW stale \in BOOLEAN, Shows(l, stale)
    PROVE  kb' \in KbType /\ kb'.list = l.seen /\ kb'.stale = stale
BY DEF Shows, Loads, KbType

\* How a question moves on.
LEMMA RunMoves ==
    ASSUME NEW r \in RunType, NEW pc \in {"asked", "meter", "audit", "answered", "failed"},
           NEW q, q = [r EXCEPT !.pc = pc]
    PROVE  /\ q \in RunType /\ q # NoRun /\ q.pc = pc /\ q.of = r.of
           /\ q.from = r.from /\ q.tone = r.tone /\ q.cost = r.cost /\ q.row = r.row
BY DEF RunType, NoRun

AskedRun(o, pc) == [NoRun EXCEPT !.of = o, !.pc = pc]
LEMMA RunAsked ==
    ASSUME NEW o \in Orgs, NEW pc \in {"asked", "failed"}, NEW q, q = AskedRun(o, pc)
    PROVE  q \in RunType /\ q # NoRun /\ q.pc = pc /\ q.of = o /\ q.row = Blank
<1>1. q = [of |-> o, pc |-> pc, from |-> Blank, tone |-> Blank, cost |-> 0, row |-> Blank]
  BY DEF AskedRun, NoRun
<1>2. q \in RunType /\ q.pc = pc /\ q.of = o /\ q.row = Blank
  BY <1>1, BlankText DEF RunType
<1> QED
  BY <1>2, NoRunIs

LEMMA RunRan ==
    ASSUME NEW pc \in {"meter", "audit"}, NEW c \in {0, 1}, run \in RunType, run.of \in Orgs,
           ServerType, Ran(pc, c)
    PROVE  /\ run' \in RunType /\ run' # NoRun /\ run'.pc = pc /\ run'.of = run.of
           /\ run'.cost = c /\ run'.row = run.row /\ run'.from = Now(run.of)
<1> DEFINE from == Now(run.of)
           said == tone[run.of]
           q == [run EXCEPT !.pc = pc]
           t == [q EXCEPT !.cost = c]
           u == [t EXCEPT !.from = from]
<1>1. from \in Text /\ said \in Text
  BY NowText DEF ServerType
<1>2. run' = [u EXCEPT !.tone = said]
  BY DEF Ran
<1>3. q \in RunType /\ q.pc = pc /\ q.of = run.of /\ q.row = run.row
  BY RunMoves
<1> HIDE DEF q, from, said
<1>4. t \in RunType /\ t.pc = pc /\ t.of = run.of /\ t.row = run.row /\ t.cost = c
  BY <1>3 DEF RunType
<1> HIDE DEF t
<1>5. /\ u \in RunType /\ u.pc = pc /\ u.of = run.of /\ u.row = run.row /\ u.cost = c
      /\ u.from = from
  BY <1>1, <1>4 DEF RunType
<1> HIDE DEF u
<1>6. /\ run' \in RunType /\ run'.pc = pc /\ run'.of = run.of /\ run'.row = run.row /\ run'.cost = c
      /\ run'.from = from
  BY <1>1, <1>2, <1>5 DEF RunType
<1> QED
  BY <1>6 DEF from, NoRun

MeteredRun(r, row) == [r EXCEPT !.pc = "audit", !.row = row]
LEMMA RunMetered ==
    ASSUME NEW r \in RunType, NEW row \in Row, NEW q, q = MeteredRun(r, row)
    PROVE  /\ q \in RunType /\ q # NoRun /\ q.pc = "audit" /\ q.of = r.of
           /\ q.from = r.from /\ q.cost = r.cost /\ q.row = row
<1> DEFINE k == [r EXCEPT !.pc = "audit"]
<1>1. k \in RunType /\ k.pc = "audit" /\ k.of = r.of /\ k.from = r.from /\ k.cost = r.cost
  BY RunMoves
<1>2. q = [k EXCEPT !.row = row]
  BY DEF MeteredRun
<1> HIDE DEF k
<1>3. /\ q \in RunType /\ q.pc = k.pc /\ q.of = k.of /\ q.from = k.from /\ q.cost = k.cost
      /\ q.row = row
  BY <1>1, <1>2 DEF RunType
<1> QED
  BY <1>1, <1>3, NoRunIs

\* A statement of a route: one document given, changed or deleted.
LEMMA StoredIs ==
    ASSUME NEW c, NEW f \in Stored(c)
    PROVE  \/ /\ c.kind = "create"
              /\ \E d \in DocsOf(None) : f = [docs EXCEPT ![d] = [of |-> c.of, text |-> c.text]]
           \/ c.kind = "update" /\ docs[c.doc].of = c.of /\ f = [docs EXCEPT ![c.doc].text = c.text]
           \/ c.kind = "delete" /\ docs[c.doc].of = c.of /\ f = [docs EXCEPT ![c.doc] = Deleted]
<1>1. CASE c.kind = "create"
  BY <1>1 DEF Stored
<1>2. CASE c.kind = "update" /\ Scoped(c.doc, c.of)
  BY <1>2 DEF Stored, Scoped
<1>3. CASE c.kind = "delete" /\ Scoped(c.doc, c.of)
  BY <1>3 DEF Stored, Scoped
<1>4. CASE ~(\/ c.kind = "create"
             \/ (c.kind = "update" /\ Scoped(c.doc, c.of))
             \/ (c.kind = "delete" /\ Scoped(c.doc, c.of)))
  BY <1>4 DEF Stored
<1> QED
  BY <1>1, <1>2, <1>3, <1>4

\* What the route may make of the documents: each keeps its client until it is
\* deleted, a new one takes an identifier that none has had, and no other
\* client's change.
LEMMA DocsMove ==
    ASSUME ServerType, LibraryType, NEW f \in Stored(kbCall), kbCall.pc = "asked"
    PROVE  /\ f \in [Docs -> DocType]
           /\ \A d \in Docs : docs[d].of # None => f[d].of \in {docs[d].of, Gone}
           /\ \A d \in Docs : f[d] = docs[d] \/ f[d] = Deleted
                              \/ /\ f[d].of = kbCall.of /\ f[d].text = kbCall.text
                                 /\ \/ kbCall.kind = "create"
                                    \/ kbCall.kind = "update" /\ kbCall.doc = d /\ docs[d].of = kbCall.of
           /\ \A d \in Docs : f[d] = docs[d] \/ (/\ docs[d].of \in {None, kbCall.of}
                                                 /\ f[d].of \in {Gone, kbCall.of})
<1>1. /\ docs \in [Docs -> DocType] /\ kbCall.text \in Text /\ kbCall.of \in Orgs
      /\ kbCall.kind # "create" => kbCall.doc \in Docs
  BY DEF ServerType, LibraryType, CallKnown, Call
<1>2. Deleted \in DocType /\ Deleted.of = Gone
  BY BlankText DEF Deleted, DocType
<1>3. ASSUME kbCall.kind = "create", NEW d \in DocsOf(None),
             f = [docs EXCEPT ![d] = [of |-> kbCall.of, text |-> kbCall.text]]
      PROVE  /\ f \in [Docs -> DocType]
             /\ \A e \in Docs : e # d => f[e] = docs[e]
             /\ f[d].of = kbCall.of /\ f[d].text = kbCall.text /\ docs[d].of = None /\ d \in Docs
  BY <1>1, <1>3 DEF DocType, DocsOf
<1>4. ASSUME kbCall.kind = "update", docs[kbCall.doc].of = kbCall.of,
             f = [docs EXCEPT ![kbCall.doc].text = kbCall.text]
      PROVE  /\ f \in [Docs -> DocType]
             /\ \A e \in Docs : e # kbCall.doc => f[e] = docs[e]
             /\ f[kbCall.doc].of = kbCall.of /\ f[kbCall.doc].text = kbCall.text
  BY <1>1, <1>4 DEF DocType
<1>5. ASSUME kbCall.kind = "delete", f = [docs EXCEPT ![kbCall.doc] = Deleted]
      PROVE  /\ f \in [Docs -> DocType]
             /\ \A e \in Docs : e # kbCall.doc => f[e] = docs[e]
             /\ f[kbCall.doc] = Deleted
  BY <1>1, <1>2, <1>5
<1>6. CASE kbCall.kind = "create"
  BY <1>3, <1>6, StoredIs
<1>7. CASE kbCall.kind = "update"
  BY <1>4, <1>7, StoredIs
<1>8. CASE kbCall.kind = "delete"
  BY <1>2, <1>5, <1>8, StoredIs
<1> QED
  BY <1>6, <1>7, <1>8 DEF LibraryType, CallKnown

\* What a rewrite makes of them: the demo's are deleted, and others put in
\* their place under identifiers that none has had.
LEMMA RewriteMoves ==
    ASSUME ServerType, era < MaxRewrites, Rewrite
    PROVE  /\ docs' \in [Docs -> DocType]
           /\ \A d \in Docs : docs[d].of # None => docs'[d] \in {docs[d], Deleted}
           /\ \A d \in Docs : docs[d].of = None =>
                 \/ docs'[d] = docs[d]
                 \/ docs'[d].of = Demo /\ docs'[d].text[1] = Demo
           /\ \A d \in Docs : docs'[d] = docs[d] \/ (/\ docs[d].of \in {None, Demo}
                                                     /\ docs'[d].of \in {Gone, Demo})
           /\ era' \in 0..MaxRewrites /\ <<Demo, era + 1>> \in Text
<1>1. PICK S \in SUBSET DocsOf(None) :
        docs' = [d \in Docs |-> IF d \in S THEN [of |-> Demo, text |-> <<Demo, era + 1>>]
                                ELSE IF docs[d].of = Demo THEN Deleted ELSE docs[d]]
  BY DEF Rewrite
<1>2. era' \in 0..MaxRewrites /\ <<Demo, era + 1>> \in Text /\ Deleted \in DocType /\ Deleted.of = Gone
  BY BlankText, ConsoleAssumption DEF Rewrite, ServerType, Text, Deleted, DocType
<1>3. \A d \in S : docs[d].of = None
  BY DEF DocsOf
<1>4. Demo \in Orgs /\ Demo # None
  BY ConsoleAssumption
<1>5. [of |-> Demo, text |-> <<Demo, era + 1>>] \in DocType
  BY <1>2, <1>4 DEF DocType
<1>6. docs' \in [Docs -> DocType]
  BY <1>1, <1>2, <1>5 DEF ServerType
<1>7. \A d \in Docs : docs[d].of # None => docs'[d] \in {docs[d], Deleted}
  BY <1>1, <1>3
<1>8. \A d \in Docs : docs[d].of = None =>
                 \/ docs'[d] = docs[d]
                 \/ docs'[d].of = Demo /\ docs'[d].text[1] = Demo
  BY <1>1, <1>4
<1>9. \A d \in Docs : docs'[d] = docs[d] \/ (/\ docs[d].of \in {None, Demo}
                                             /\ docs'[d].of \in {Gone, Demo})
  BY <1>1, <1>2, <1>3, <1>4
<1> QED
  BY <1>2, <1>6, <1>7, <1>8, <1>9

\* What a list holds: documents of the client it was asked for.
LEMMA ListingIs ==
    ASSUME ServerType, NEW o \in Orgs
    PROVE  /\ Listing(o) \in SUBSET Entry
           /\ \A e \in Listing(o) : e.id \in Docs /\ docs[e.id].of = o /\ docs[e.id].text = e.text
BY DEF ServerType, DocType, Listing, DocsOf, Entry

\* The list of one client, when another's documents change.
LEMMA ListingStays ==
    ASSUME ServerType, NEW o \in Orgs, NEW c \in Orgs, c # o,
           \A d \in Docs : docs'[d] = docs[d] \/ (docs[d].of \in {None, c} /\ docs'[d].of \in {Gone, c})
    PROVE  Listing(o)' = Listing(o)
<1>1. o # None /\ o # Gone
  BY ConsoleAssumption
<1>2. \A d \in Docs : (docs'[d].of = o <=> docs[d].of = o) /\ (docs[d].of = o => docs'[d] = docs[d])
  BY <1>1
<1>3. DocsOf(o)' = DocsOf(o)
  BY <1>2 DEF DocsOf
<1>4. Listing(o)' = {[id |-> d, text |-> docs'[d].text] : d \in DocsOf(o)}
  BY <1>3 DEF Listing
<1>5. \A d \in DocsOf(o) : docs'[d] = docs[d]
  BY <1>2 DEF DocsOf
<1> QED
  BY <1>4, <1>5 DEF Listing

-----------------------------------------------------------------------------
(* Types.                                                                  *)

LEMMA TypeInvGivesType == TypeInv => TypeOK
BY DEF TypeInv, TypeOK, ServerType, MeterType, ChatType, VoiceType, LibraryType, CountType, DocType,
       Exchange, RunType, KbType, FormType

LEMMA FaultsCount ==
    ASSUME faults \in 0..MaxFaults, Works \/ Fails
    PROVE  faults' \in 0..MaxFaults /\ faults' \in Nat /\ faults <= faults'
BY ConsoleAssumption DEF Works, Fails

LEMMA SameParts ==
    /\ ServerType /\ UNCHANGED server => ServerType'
    /\ MeterType /\ UNCHANGED meter => MeterType'
    /\ ChatType /\ UNCHANGED chat => ChatType'
    /\ VoiceType /\ UNCHANGED form => VoiceType'
    /\ LibraryType /\ UNCHANGED library => LibraryType'
BY DEF ServerType, MeterType, ChatType, VoiceType, LibraryType, RunKnown, CallKnown, LoadsKnown,
       server, meter, chat, form, library

LEMMA EmptyTurns ==
    ASSUME ChatType, turns' = <<>>, run' = run, untold' \in BOOLEAN
    PROVE  ChatType'
<1>1. turns' \in Seq(Exchange) /\ Len(turns') = 0
  OBVIOUS
<1> QED
  BY <1>1, ConsoleAssumption DEF ChatType, RunKnown

LEMMA TypeInit == Init => TypeInv
<1> SUFFICES ASSUME Init PROVE TypeInv
  OBVIOUS
<1>1. ServerType
  <2>1. \A o \in Orgs : <<o, 0>> \in Text
    BY ConsoleAssumption DEF Text
  <2>2. NoDoc \in DocType /\ \A o \in Orgs : [of |-> o, text |-> <<o, 0>>] \in DocType
    BY <2>1, BlankText DEF NoDoc, DocType
  <2>3. docs \in [Docs -> DocType]
    BY <2>2 DEF Init
  <2>4. era \in 0..MaxRewrites
    BY ConsoleAssumption DEF Init
  <2> QED
    BY <2>1, <2>3, <2>4 DEF Init, ServerType
<1>2. ChatType
  <2>1. turns \in Seq(Exchange) /\ Len(turns) = 0 /\ run = NoRun
    BY DEF Init
  <2>2. untold \in BOOLEAN
    BY DEF Init
  <2> QED
    BY <2>1, <2>2, NoRunIs, ConsoleAssumption DEF ChatType, RunKnown, Asking
<1>3. VoiceType
  BY NoCallIs, Empties DEF VoiceType, Init
<1>4. LibraryType
  BY NoCallIs, NoLoadIs, LoadIs, Empties DEF LibraryType, CallKnown, LoadsKnown, Init
<1>5. MeterType
  BY DEF MeterType, Init
<1>6. CountType
  BY ConsoleAssumption DEF CountType, Init
<1> QED
  BY <1>1, <1>2, <1>3, <1>4, <1>5, <1>6 DEF TypeInv

\* One operator clicks.
LEMMA TypeClick ==
    ASSUME TypeInv, Click, clicks' \in 0..MaxClicks
    PROVE  TypeInv'
<1>1. /\ ServerType /\ MeterType /\ ChatType /\ VoiceType /\ LibraryType /\ CountType
      /\ era \in 0..MaxRewrites /\ orgId \in Orgs
  BY DEF TypeInv, ServerType, CountType
<1>2. ASSUME UNCHANGED <<server, meter, chat, form, orgId, reset, faults>>, LibraryType' PROVE TypeInv'
  BY <1>1, <1>2, SameParts DEF TypeInv, CountType, server
<1>3. ASSUME UNCHANGED <<server, meter, chat, library, orgId, reset, faults>>, VoiceType' PROVE TypeInv'
  BY <1>1, <1>3, SameParts DEF TypeInv, CountType, server
<1>4. ASSUME NEW o \in Orgs, Pick(o) PROVE TypeInv'
  <2>1. /\ UNCHANGED <<server, meter, run, voiceCall, kbCall, reload, reset, faults>> /\ orgId' = o
        /\ voice' = EmptyForm /\ kb' = EmptyKb /\ load' = Load(o) /\ turns' = <<>> /\ untold' = FALSE
    BY <1>4 DEF Pick, Cleared, Anew
  <2>2. ChatType'
    BY <1>1, <2>1, EmptyTurns
  <2>3. VoiceType'
    BY <1>1, <2>1, Empties DEF VoiceType
  <2>4. LibraryType'
    BY <1>1, <2>1, Empties, LoadIs DEF LibraryType, CallKnown, LoadsKnown
  <2>5. CountType'
    BY <1>1, <2>1 DEF CountType, server
  <2> QED
    BY <1>1, <2>1, <2>2, <2>3, <2>4, <2>5, SameParts DEF TypeInv
<1>5. CASE ClearChat
  <2>1. /\ UNCHANGED <<server, meter, orgId, run, form, library, reset, faults>>
        /\ turns' = <<>> /\ untold' = FALSE
    BY <1>5 DEF ClearChat
  <2>2. ChatType'
    BY <1>1, <2>1, EmptyTurns
  <2>3. CountType'
    BY <1>1, <2>1 DEF CountType, server
  <2> QED
    BY <1>1, <2>1, <2>2, <2>3, SameParts DEF TypeInv
<1>6. ASSUME NEW kind \in {"reset", "load"}, AskReset(kind) PROVE TypeInv'
  <2>1. /\ UNCHANGED <<server, meter, orgId, chat, form, library, faults>>
        /\ era < MaxRewrites /\ reset' = kind
    BY <1>6 DEF AskReset
  <2>2. CountType'
    BY <1>1, <2>1 DEF CountType, server
  <2> QED
    BY <1>1, <2>1, <2>2, SameParts DEF TypeInv
<1>7. CASE Send
  <2>1. UNCHANGED <<server, meter, orgId, turns, untold, form, library, reset, faults>>
    BY <1>7 DEF Send
  <2>2. PICK pc \in {"asked", "failed"} :
          run' = AskedRun(orgId, pc) /\ (pc = "asked" => Len(turns) <= HistoryLimit)
    BY <1>7 DEF Send, Room, AskedRun
  <2>3. run' \in RunType /\ run' # NoRun /\ run'.pc = pc /\ run'.of = orgId
    BY <1>1, <2>2, RunAsked
  <2>4. ChatType'
    BY <1>1, <2>1, <2>2, <2>3 DEF ChatType, RunKnown, Asking
  <2>5. CountType'
    BY <1>1, <2>1 DEF CountType, server
  <2> QED
    BY <1>1, <2>1, <2>4, <2>5, SameParts DEF TypeInv
<1>8. CASE TypeTone
  <2>1. voice' = [filled |-> TRUE, tone |-> Now(orgId)] /\ Now(orgId) \in Text
    BY <1>1, <1>8, NowText DEF TypeTone
  <2>2. voice' \in FormType
    BY <2>1 DEF FormType
  <2> QED
    BY <1>1, <1>3, <1>8, <2>2 DEF TypeTone, VoiceType
<1>9. CASE TypeOther
  <2>1. voice' \in FormType
    BY <1>1, <1>9 DEF TypeOther, VoiceType, FormType
  <2> QED
    BY <1>1, <1>3, <1>9, <2>1 DEF TypeOther, VoiceType
<1>10. CASE SaveVoice
  <2>1. voice.tone \in Text
    BY <1>1 DEF VoiceType, FormType
  <2>2. voiceCall' = Form(orgId, voice.tone)
    BY <1>10 DEF SaveVoice, Form
  <2>3. voiceCall' \in Call /\ voiceCall'.of = orgId
    BY <1>1, <2>1, <2>2, FormIs
  <2> QED
    BY <1>1, <1>3, <1>10, <2>3 DEF SaveVoice, VoiceType
<1>11. ASSUME NEW kind \in {"create", "update", "delete"}, NEW d \in Docs \cup {None}, NEW t \in Text,
              AskKb(kind, d, t), kind # "create" => d \in Docs
       PROVE  TypeInv'
  <2>1. kbCall' \in Call /\ kbCall'.of = orgId /\ kbCall'.kind = kind /\ kbCall'.doc = d
    BY <1>1, <1>11, AskedIs DEF AskKb
  <2>2. UNCHANGED <<server, meter, orgId, chat, form, kb, load, reload, reset, faults>>
    BY <1>11 DEF AskKb
  <2>3. LibraryType'
    BY <1>1, <1>11, <2>1, <2>2 DEF LibraryType, CallKnown, LoadsKnown
  <2> QED
    BY <1>2, <2>2, <2>3
<1>12. CASE AddDoc
  BY <1>1, <1>11, <1>12, NowText DEF AddDoc
<1>13. ASSUME NEW e \in kb.list, SaveDoc(e) \/ RemoveDoc(e) PROVE TypeInv'
  <2>1. e.id \in Docs /\ e.text \in Text
    BY <1>1 DEF LibraryType, KbType, Entry
  <2> QED
    BY <1>1, <1>11, <1>13, <2>1, NowText DEF SaveDoc, RemoveDoc
<1> QED
  BY <1>4, <1>5, <1>6, <1>7, <1>8, <1>9, <1>10, <1>12, <1>13 DEF Click

\* What follows of itself.
LEMMA TypeFollows ==
    ASSUME TypeInv, Follows, UNCHANGED clicks
    PROVE  TypeInv'
<1>1. /\ ServerType /\ MeterType /\ ChatType /\ VoiceType /\ LibraryType /\ CountType
      /\ era \in 0..MaxRewrites /\ orgId \in Orgs
  BY DEF TypeInv, ServerType, CountType
<1>2. ASSUME Works \/ Fails PROVE faults' \in 0..MaxFaults
  BY <1>1, <1>2, FaultsCount DEF CountType
<1>3. ASSUME UNCHANGED <<orgId, reset, era>>, UNCHANGED faults \/ Works \/ Fails PROVE CountType'
  BY <1>1, <1>2, <1>3 DEF CountType
\* The question moves on.
<1>4. ASSUME UNCHANGED <<server, orgId, turns, untold, form, library, reset>>, Works \/ Fails, MeterType',
             run' \in RunType, run' # NoRun, run'.pc # "idle", run'.of \in Orgs,
             run'.pc \in Asking => run.pc \in Asking
      PROVE  TypeInv'
  <2>1. ChatType'
    BY <1>1, <1>4 DEF ChatType, RunKnown
  <2>2. CountType'
    BY <1>3, <1>4 DEF server
  <2> QED
    BY <1>1, <1>4, <2>1, <2>2, SameParts DEF TypeInv
\* A list or a save is answered.
<1>5. ASSUME UNCHANGED <<era, meter, orgId, chat, form, reset>>, UNCHANGED faults \/ Works \/ Fails,
             ServerType', LibraryType'
      PROVE  TypeInv'
  BY <1>1, <1>3, <1>5, SameParts DEF TypeInv
<1>6. \A o \in Orgs : Listing(o) \in SUBSET Entry
  BY <1>1, ListingIs
<1>7. CASE DemoReset
  <2>1. /\ UNCHANGED <<billed, paid, orgId, turns, run, form, kbCall>>
        /\ reset' \in {"no", "done"} /\ (Works \/ Fails) /\ era < MaxRewrites
    BY <1>1, <1>7 DEF DemoReset, CountType
  <2>2. CountType'
    BY <1>1, <1>2, <2>1 DEF CountType
  <2>3. CASE Rewrite
    <3>1. docs' \in [Docs -> DocType] /\ era' \in 0..MaxRewrites /\ <<Demo, era + 1>> \in Text
      BY <1>1, <2>1, <2>3, RewriteMoves
    <3>2. ServerType'
      BY <1>1, <2>3, <3>1 DEF Rewrite, ServerType
    <3>3. MeterType'
      BY <1>1, <2>1, <2>3 DEF Rewrite, MeterType
    <3>4. untold' \in BOOLEAN
      BY <1>1, <2>3 DEF Rewrite, ChatType
    <3>5. ChatType'
      BY <1>1, <2>1, <3>4 DEF ChatType, RunKnown
    <3>6. kb' \in KbType
      BY <1>1, <2>3, BehindIs DEF Rewrite, LibraryType
    <3>7. /\ load' \in Loads /\ load'.of = load.of /\ load'.pc = load.pc
          /\ reload' \in Loads /\ reload'.of = reload.of /\ reload'.pc = reload.pc
      BY <1>1, <2>3, OvertakenIs DEF Rewrite, LibraryType
    <3>8. LibraryType'
      BY <1>1, <2>1, <3>6, <3>7 DEF LibraryType, CallKnown, LoadsKnown
    <3> QED
      BY <1>1, <2>1, <2>2, <3>2, <3>3, <3>5, <3>8, SameParts DEF TypeInv
  <2>4. CASE UNCHANGED <<server, usage, erased, untold, kb, load, reload>>
    BY <1>1, <2>1, <2>2, <2>4, SameParts DEF TypeInv, meter, chat, library
  <2> QED
    BY <1>7, <2>3, <2>4 DEF DemoReset
<1>8. CASE AfterReset
  <2>1. /\ UNCHANGED <<server, meter, orgId, run, reload, faults>> /\ reset' = "no" /\ turns' = <<>>
        /\ untold' = FALSE /\ voice' = EmptyForm /\ kb' = EmptyKb /\ load' = Load(orgId)
        /\ voiceCall' = [voiceCall EXCEPT !.live = FALSE] /\ kbCall' = [kbCall EXCEPT !.live = FALSE]
    BY <1>8 DEF AfterReset
  <2>2. ChatType'
    BY <1>1, <2>1, EmptyTurns
  <2>3. voiceCall' \in Call /\ voiceCall'.pc = voiceCall.pc /\ voiceCall'.of = voiceCall.of
    BY <1>1, <2>1, CallDropped DEF VoiceType
  <2>4. VoiceType'
    BY <1>1, <2>1, <2>3, Empties DEF VoiceType
  <2>5. /\ kbCall' \in Call /\ kbCall'.pc = kbCall.pc /\ kbCall'.of = kbCall.of
        /\ kbCall'.kind = kbCall.kind /\ kbCall'.doc = kbCall.doc
    BY <1>1, <2>1, CallDropped DEF LibraryType
  <2>6. LibraryType'
    BY <1>1, <2>1, <2>5, Empties, LoadIs DEF LibraryType, CallKnown, LoadsKnown
  <2>7. CountType'
    BY <1>1, <2>1 DEF CountType
  <2> QED
    BY <1>1, <2>1, <2>2, <2>4, <2>6, <2>7, SameParts DEF TypeInv
<1>9. CASE Decide
  <2>1. /\ UNCHANGED <<server, orgId, turns, untold, form, library, reset, usage, billed, erased>>
        /\ run.pc = "asked" /\ run.of \in Orgs /\ run \in RunType /\ (Works \/ Fails)
    BY <1>1, <1>9 DEF Decide, ChatType, RunKnown
  <2>2. paid' \in Nat
    <3>1. paid \in Nat
      BY <1>1 DEF MeterType
    <3>2. paid' = paid \/ paid' = paid + 1 \/ paid' \in paid + 1 .. paid + 2 \/ paid' \in paid .. paid + 2
      BY <1>9 DEF Decide
    <3> QED
      BY <3>1, <3>2
  <2>3. MeterType'
    BY <1>1, <2>1, <2>2 DEF MeterType
  <2>4. ASSUME NEW pc \in {"meter", "audit"}, NEW c \in {0, 1}, Ran(pc, c) PROVE TypeInv'
    <3>1. run' \in RunType /\ run' # NoRun /\ run'.pc = pc /\ run'.of = run.of
      BY <1>1, <2>1, <2>4, RunRan
    <3> QED
      BY <1>4, <2>1, <2>3, <3>1 DEF Asking
  <2>5. ASSUME run' = [run EXCEPT !.pc = "failed"] PROVE TypeInv'
    <3>1. run' \in RunType /\ run'.pc = "failed" /\ run' # NoRun /\ run'.of = run.of
      BY <2>1, <2>5, RunMoves
    <3> QED
      BY <1>4, <2>1, <2>3, <3>1 DEF Asking
  <2> QED
    BY <1>9, <2>4, <2>5 DEF Decide
<1>10. CASE Meter
  <2>1. /\ UNCHANGED <<server, orgId, turns, untold, form, library, reset, erased, paid>>
        /\ run.pc = "meter" /\ run.of \in Orgs /\ run \in RunType /\ (Works \/ Fails)
    BY <1>1, <1>10 DEF Meter, ChatType, RunKnown
  <2>2. billed \in Nat /\ billed + 1 \in Nat /\ usage \in SUBSET Row
    BY <1>1 DEF MeterType
  <2>3. NextRow \in Row
    BY <2>1, <2>2 DEF NextRow, Row
  <2>4. billed' \in Nat /\ usage' \in SUBSET Row
    BY <1>10, <2>2, <2>3 DEF Meter, Written
  <2>5. MeterType'
    BY <1>1, <2>1, <2>4 DEF MeterType
  <2>6. run' = MeteredRun(run, NextRow) \/ run' = [run EXCEPT !.pc = "failed"]
    BY <1>10 DEF Meter, Failed, MeteredRun
  <2>7. run' \in RunType /\ run' # NoRun /\ run'.pc # "idle" /\ run'.of = run.of
    BY <2>1, <2>3, <2>6, RunMoves, RunMetered
  <2> QED
    BY <1>4, <2>1, <2>5, <2>7 DEF Asking
<1>11. CASE Audit
  <2>1. /\ UNCHANGED <<server, orgId, turns, untold, form, library, reset, meter>>
        /\ run.pc = "audit" /\ run.of \in Orgs /\ run \in RunType /\ (Works \/ Fails)
    BY <1>1, <1>11 DEF Audit, ChatType, RunKnown
  <2>2. \E pc \in {"answered", "failed"} : run' = [run EXCEPT !.pc = pc]
    BY <1>11 DEF Audit, Failed
  <2>3. run' \in RunType /\ run' # NoRun /\ run'.pc # "idle" /\ run'.of = run.of
    BY <2>1, <2>2, RunMoves
  <2> QED
    BY <1>1, <1>4, <2>1, <2>3, SameParts DEF Asking
<1>12. CASE Answer
  <2>1. /\ UNCHANGED <<server, meter, orgId, untold, voiceCall, library, reset, faults>>
        /\ run' = NoRun /\ run \in RunType
    BY <1>1, <1>12 DEF Answer, ChatType
  <2>2. CountType'
    BY <1>3, <2>1 DEF server
  <2>3. CASE /\ run.pc = "answered"
             /\ turns' = Append(turns, [from |-> run.from, cost |-> run.cost, row |-> run.row])
             /\ voice' \in {voice, [filled |-> TRUE, tone |-> run.tone]}
    <3>1. [from |-> run.from, cost |-> run.cost, row |-> run.row] \in Exchange
      BY <2>1 DEF RunType, Exchange
    <3>2. turns \in Seq(Exchange) /\ Len(turns) <= HistoryLimit
      BY <1>1, <2>3 DEF ChatType, RunKnown, Asking
    <3>3. turns' \in Seq(Exchange) /\ Len(turns') = Len(turns) + 1
      BY <2>3, <3>1, <3>2
    <3>4. Len(turns') <= HistoryLimit + 1
      BY <3>2, <3>3, ConsoleAssumption
    <3>5. voice' \in FormType
      <4>1. [filled |-> TRUE, tone |-> run.tone] \in FormType
        BY <2>1 DEF RunType, FormType
      <4> QED
        BY <1>1, <2>3, <4>1 DEF VoiceType
    <3>6. ChatType'
      BY <1>1, <2>1, <3>3, <3>4, NoRunIs DEF ChatType, RunKnown, Asking
    <3>7. VoiceType'
      BY <1>1, <2>1, <3>5 DEF VoiceType
    <3> QED
      BY <1>1, <2>1, <2>2, <3>6, <3>7, SameParts DEF TypeInv
  <2>4. CASE UNCHANGED <<turns, voice>>
    <3>1. ChatType'
      BY <1>1, <2>1, <2>4, NoRunIs DEF ChatType, RunKnown, Asking
    <3> QED
      BY <1>1, <2>1, <2>2, <2>4, <3>1, SameParts DEF TypeInv, form
  <2> QED
    BY <1>12, <2>3, <2>4 DEF Answer
<1>13. CASE WriteVoice
  <2>1. voiceCall.of \in Orgs /\ voiceCall.text \in Text
    BY <1>1, <1>13 DEF WriteVoice, VoiceType, Call
  <2>2. tone' \in [Orgs -> Text]
    BY <1>1, <1>13, <2>1 DEF WriteVoice, ServerType
  <2>3. UNCHANGED <<era, docs, meter, orgId, chat, voice, library, reset>>
        /\ voiceCall' = NoCall /\ (Works \/ Fails)
    BY <1>13 DEF WriteVoice
  <2>4. ServerType'
    BY <1>1, <2>2, <2>3 DEF ServerType
  <2>5. VoiceType'
    BY <1>1, <2>3, NoCallIs DEF VoiceType
  <2> QED
    BY <1>1, <1>3, <2>3, <2>4, <2>5, SameParts DEF TypeInv
<1>14. CASE ReadLoad
  <2>1. UNCHANGED <<server, meter, orgId, chat, form, kb, kbCall, reload, reset, faults>>
        /\ load.pc = "asked" /\ load' = Reads(load)
    BY <1>14 DEF ReadLoad
  <2>2. load' \in Loads /\ load'.of = load.of /\ load.of \in Orgs
    BY <1>1, <1>6, <2>1, ReadsIs DEF LibraryType, LoadsKnown
  <2>3. LibraryType'
    BY <1>1, <2>1, <2>2 DEF LibraryType, CallKnown, LoadsKnown
  <2> QED
    BY <1>1, <1>5, <2>1, <2>3, SameParts DEF server
<1>15. CASE ShowLoad
  <2>1. UNCHANGED <<server, meter, orgId, chat, form, kbCall, reload, reset>> /\ load' = NoLoad
        /\ (Works \/ Fails)
    BY <1>15 DEF ShowLoad
  <2>2. kb' \in KbType
    <3>1. load \in Loads /\ kb \in KbType /\ load.behind \in BOOLEAN
      BY <1>1 DEF LibraryType, Loads
    <3>2. Shows(load, load.behind) \/ kb' = kb
      BY <1>15 DEF ShowLoad
    <3> QED
      BY <3>1, <3>2, ShowsIs
  <2>3. LibraryType'
    BY <1>1, <2>1, <2>2, NoLoadIs DEF LibraryType, CallKnown, LoadsKnown
  <2> QED
    BY <1>1, <1>5, <2>1, <2>3, SameParts DEF server
<1>16. CASE WriteKb
  <2>1. UNCHANGED <<era, tone, meter, orgId, chat, form, reset>>
        /\ kbCall.pc = "asked" /\ (Works \/ Fails)
    BY <1>16 DEF WriteKb
  <2>2. kbCall \in Call /\ kbCall.of \in Orgs /\ kb \in KbType /\ load \in Loads /\ reload \in Loads
    BY <1>1, <2>1 DEF LibraryType, CallKnown
  <2>3. docs' \in [Docs -> DocType]
    <3>1. docs' = docs \/ docs' \in Stored(kbCall)
      BY <1>16 DEF WriteKb
    <3> QED
      BY <1>1, <2>1, <3>1, DocsMove DEF ServerType
  <2>4. ServerType'
    BY <1>1, <2>1, <2>3 DEF ServerType
  <2>5. /\ kbCall' \in Call
        /\ kbCall'.pc # "idle" => /\ kbCall'.of = kbCall.of /\ kbCall'.kind = kbCall.kind
                                  /\ kbCall'.doc = kbCall.doc
    <3>1. kbCall' = NoCall \/ kbCall' = [kbCall EXCEPT !.pc = "reload"]
      BY <1>16 DEF WriteKb
    <3> QED
      BY <2>2, <3>1, NoCallIs, CallReloads
  <2>6. load' \in Loads /\ (load'.pc # "idle" => load.pc # "idle") /\ load'.of = load.of
    <3>1. load' = load \/ load' = Overtaken(load, kbCall.of)
      BY <1>16 DEF WriteKb
    <3> QED
      BY <2>2, <3>1, OvertakenIs
  <2>7. reload' \in Loads /\ (reload'.pc # "idle" => reload'.of \in Orgs)
    <3>1. reload' = reload \/ reload' = Load(kbCall.of)
      BY <1>16 DEF WriteKb
    <3> QED
      BY <1>1, <2>2, <3>1, LoadIs DEF LibraryType, LoadsKnown
  <2>8. kb' \in KbType
    <3>1. kb' = kb \/ Behind(kbCall.of)
      BY <1>16 DEF WriteKb
    <3> QED
      BY <2>2, <3>1, BehindIs
  <2>9. LibraryType'
    BY <1>1, <2>1, <2>5, <2>6, <2>7, <2>8 DEF LibraryType, CallKnown, LoadsKnown
  <2> QED
    BY <1>5, <2>1, <2>4, <2>9
<1>17. CASE ReadReload
  <2>1. UNCHANGED <<server, meter, orgId, chat, form, kb, kbCall, load, reset, faults>>
        /\ reload.pc = "asked" /\ reload' = Reads(reload)
    BY <1>17 DEF ReadReload
  <2>2. reload' \in Loads /\ reload'.of = reload.of /\ reload.of \in Orgs
    BY <1>1, <1>6, <2>1, ReadsIs DEF LibraryType, LoadsKnown
  <2>3. LibraryType'
    BY <1>1, <2>1, <2>2 DEF LibraryType, CallKnown, LoadsKnown
  <2> QED
    BY <1>1, <1>5, <2>1, <2>3, SameParts DEF server
<1>18. CASE ShowReload
  <2>1. UNCHANGED <<server, meter, orgId, chat, form, load, reset>> /\ reload' = NoLoad
        /\ kbCall' = NoCall /\ (Works \/ Fails)
    BY <1>18 DEF ShowReload
  <2>2. kb' \in KbType
    <3>1. /\ reload \in Loads /\ kb \in KbType
          /\ (reload.behind \/ reload.of # orgId) \in BOOLEAN
      BY <1>1 DEF LibraryType, Loads
    <3>2. Shows(reload, reload.behind \/ reload.of # orgId) \/ kb' = kb \/ Behind(reload.of)
      BY <1>18 DEF ShowReload
    <3> QED
      BY <3>1, <3>2, ShowsIs, BehindIs
  <2>3. LibraryType'
    BY <1>1, <2>1, <2>2, NoCallIs, NoLoadIs DEF LibraryType, CallKnown, LoadsKnown
  <2> QED
    BY <1>1, <1>5, <2>1, <2>3, SameParts DEF server
<1> QED
  BY <1>7, <1>8, <1>9, <1>10, <1>11, <1>12, <1>13, <1>14, <1>15, <1>16, <1>17, <1>18 DEF Follows

LEMMA TypeStep == TypeInv /\ [Next]_vars => TypeInv'
<1> SUFFICES ASSUME TypeInv, [Next]_vars PROVE TypeInv'
  OBVIOUS
<1>1. CASE clicks < MaxClicks /\ clicks' = clicks + 1 /\ Click
  <2>1. clicks' \in 0..MaxClicks
    BY <1>1, ConsoleAssumption DEF TypeInv, CountType
  <2> QED
    BY <1>1, <2>1, TypeClick
<1>2. CASE clicks' = clicks /\ Follows
  BY <1>2, TypeFollows
<1>3. CASE UNCHANGED vars
  <2>1. CountType'
    BY <1>3 DEF vars, server, TypeInv, CountType
  <2> QED
    BY <1>3, <2>1, SameParts DEF vars, TypeInv
<1> QED
  BY <1>1, <1>2, <1>3 DEF Next

LEMMA TypeInvariant == Spec => []TypeInv
BY TypeInit, TypeStep, PTL DEF Spec

\* The console and the routes behind it keep their types: the transcript is no
\* longer than the Worker's limit and the one answer that was under way when it
\* was reached (Console.tsx, send; admin.ts, the console route).
THEOREM ConsoleTypes == Spec => []TypeOK
BY TypeInvariant, TypeInvGivesType, PTL

-----------------------------------------------------------------------------
(* The documents.                                                          *)

LEMMA OwnInit == Init => OwnInv
<1> SUFFICES ASSUME Init PROVE OwnInv
  OBVIOUS
<1>1. PICK d \in Docs :
        docs = [e \in Docs |-> IF e = d THEN [of |-> orgId, text |-> <<orgId, 0>>] ELSE NoDoc]
  BY DEF Init
<1>2. DocsAreOwn
  BY <1>1, ConsoleAssumption DEF DocsAreOwn, NoDoc
<1>3. kb.list = {} /\ load.seen = {} /\ reload.seen = {} /\ kbCall.pc = "idle"
  BY NoCallIs, NoLoadIs, LoadIs, Empties DEF Init
<1> QED
  BY <1>2, <1>3 DEF OwnInv, Seen

LEMMA OwnStep == TypeInv /\ OwnInv /\ [Next]_vars => OwnInv'
<1> SUFFICES ASSUME TypeInv, OwnInv, [Next]_vars PROVE OwnInv'
  OBVIOUS
<1>1. /\ ServerType /\ LibraryType /\ era \in 0..MaxRewrites /\ orgId \in Orgs
      /\ docs \in [Docs -> DocType] /\ kb \in KbType /\ kbCall \in Call /\ load \in Loads /\ reload \in Loads
      /\ None \notin Orgs /\ Gone \notin Orgs /\ Gone # None
  BY ConsoleAssumption DEF TypeInv, ServerType, CountType, LibraryType, None, Gone
<1>2. \A e \in Seen : e.id \in Docs
  BY <1>1 DEF Seen, KbType, Loads, Entry
\* The documents are as they were; a list that is read is one client's.
<1>3. ASSUME UNCHANGED docs, kbCall'.pc # "asked" \/ kbCall' = kbCall,
             \A e \in Seen' : e \in Seen \/ \E o \in Orgs : e \in Listing(o)
      PROVE  OwnInv'
  <2>1. ASSUME NEW o \in Orgs, NEW e \in Listing(o)
        PROVE  e.text[1] \in Orgs /\ docs[e.id].of \in {e.text[1], Gone}
    BY <1>1, ListingIs DEF OwnInv, DocsAreOwn
  <2>2. \A e \in Seen : e.text[1] \in Orgs /\ docs[e.id].of \in {e.text[1], Gone}
    BY DEF OwnInv
  <2>3. \A e \in Seen' : e.text[1] \in Orgs /\ docs'[e.id].of \in {e.text[1], Gone}
    BY <1>3, <2>1, <2>2
  <2> QED
    BY <1>3, <2>3 DEF OwnInv, DocsAreOwn
<1>4. ASSUME UNCHANGED <<docs, kb, load, kbCall, reload>> PROVE OwnInv'
  BY <1>4 DEF OwnInv, DocsAreOwn, Seen
\* A listed document, saved for the client that is picked.
<1>5. ASSUME NEW kind \in {"create", "update", "delete"}, NEW d, NEW t, AskKb(kind, d, t),
             kind = "create" => t[1] = orgId,
             kind = "update" => docs[d].of # None /\ (docs[d].of = orgId => t[1] = orgId)
      PROVE  OwnInv'
  BY <1>5 DEF AskKb, OwnInv, DocsAreOwn, server, Seen
<1>6. Now(orgId)[1] = orgId
  BY <1>1, NowText
<1>7. CASE AddDoc
  BY <1>5, <1>6, <1>7 DEF AddDoc
<1>8. ASSUME NEW e \in kb.list, SaveDoc(e) \/ RemoveDoc(e) PROVE OwnInv'
  <2>1. docs[e.id].of # None /\ (docs[e.id].of = orgId => e.text[1] = orgId)
    BY <1>1 DEF OwnInv, Seen
  <2> QED
    BY <1>5, <1>6, <1>8, <2>1 DEF SaveDoc, RemoveDoc
<1>9. ASSUME NEW o \in Orgs, Pick(o) PROVE OwnInv'
  <2>1. kb'.list = {} /\ load'.seen = {} /\ UNCHANGED <<docs, kbCall, reload>>
    BY <1>9, Empties, LoadIs DEF Pick, Anew, server
  <2>2. Seen' \subseteq Seen
    BY <2>1 DEF Seen
  <2> QED
    BY <1>3, <2>1, <2>2
<1>10. CASE AfterReset
  <2>1. /\ kb'.list = {} /\ load'.seen = {} /\ UNCHANGED <<docs, reload>>
        /\ kbCall' = [kbCall EXCEPT !.live = FALSE]
    BY <1>1, <1>10, Empties, LoadIs DEF AfterReset, server
  <2>2. /\ kbCall'.pc = kbCall.pc /\ kbCall'.of = kbCall.of /\ kbCall'.kind = kbCall.kind
        /\ kbCall'.doc = kbCall.doc /\ kbCall'.text = kbCall.text
    BY <1>1, <2>1, CallDropped
  <2>3. Seen' \subseteq Seen
    BY <2>1 DEF Seen
  <2> QED
    BY <2>1, <2>2, <2>3 DEF OwnInv, DocsAreOwn
\* The documents change: one that was listed keeps its client or is deleted.
<1>11. ASSUME DocsAreOwn', Seen' \subseteq Seen,
              \A d \in Docs : docs[d].of # None => docs'[d].of \in {docs[d].of, Gone},
              kbCall'.pc # "asked" \/ UNCHANGED kbCall
       PROVE  OwnInv'
  <2>1. \A e \in Seen' : e.text[1] \in Orgs /\ docs'[e.id].of \in {e.text[1], Gone}
    <3>1. SUFFICES ASSUME NEW e \in Seen
                   PROVE  e.text[1] \in Orgs /\ docs'[e.id].of \in {e.text[1], Gone}
      BY <1>11
    <3>2. e.id \in Docs /\ e.text[1] \in Orgs /\ docs[e.id].of \in {e.text[1], Gone}
      BY <1>2 DEF OwnInv
    <3> QED
      BY <1>1, <1>11, <3>2
  <2>2. kbCall.pc = "asked" /\ kbCall.kind = "update" =>
          /\ kbCall.doc \in Docs /\ kbCall.of \in Orgs
          /\ docs[kbCall.doc].of # None
          /\ docs[kbCall.doc].of = kbCall.of => kbCall.text[1] = kbCall.of
    BY <1>1 DEF LibraryType, CallKnown, OwnInv
  <2>3. kbCall'.pc = "asked" =>
         /\ kbCall'.kind = "create" => kbCall'.text[1] = kbCall'.of
         /\ kbCall'.kind = "update" =>
              /\ docs'[kbCall'.doc].of # None
              /\ docs'[kbCall'.doc].of = kbCall'.of => kbCall'.text[1] = kbCall'.of
    BY <1>1, <1>11, <2>2 DEF OwnInv
  <2> QED
    BY <1>11, <2>1, <2>3 DEF OwnInv
<1>12. CASE DemoReset
  <2>1. UNCHANGED kbCall /\ era < MaxRewrites
    BY <1>12 DEF DemoReset, TypeInv, CountType
  <2>2. CASE Rewrite
    <3>1. /\ \A d \in Docs : docs[d].of # None => docs'[d] \in {docs[d], Deleted}
          /\ \A d \in Docs : docs[d].of = None =>
                \/ docs'[d] = docs[d]
                \/ docs'[d].of = Demo /\ docs'[d].text[1] = Demo
      BY <1>1, <2>1, <2>2, RewriteMoves
    <3>2. Deleted.of = Gone
      BY DEF Deleted
    <3>3. DocsAreOwn'
      <4> SUFFICES ASSUME NEW d \in Docs, docs'[d].of \in Orgs PROVE docs'[d].text[1] = docs'[d].of
        BY DEF DocsAreOwn
      <4>1. docs[d].of \in Orgs => docs[d].text[1] = docs[d].of
        BY DEF OwnInv, DocsAreOwn
      <4> QED
        BY <1>1, <3>1, <3>2, <4>1
    <3>4. Seen' \subseteq Seen
      BY <1>1, <2>2, BehindIs, OvertakenIs DEF Rewrite, Seen
    <3>5. \A d \in Docs : docs[d].of # None => docs'[d].of \in {docs[d].of, Gone}
      BY <3>1, <3>2
    <3> QED
      BY <1>11, <2>1, <3>3, <3>4, <3>5
  <2>3. CASE UNCHANGED <<server, kb, load, reload>>
    BY <1>4, <2>1, <2>3 DEF server
  <2> QED
    BY <1>12, <2>2, <2>3 DEF DemoReset
<1>13. CASE WriteKb
  <2>1. /\ kbCall.pc = "asked" /\ kbCall.of \in Orgs
        /\ (docs' = docs \/ docs' \in Stored(kbCall)) /\ kbCall'.pc # "asked"
    BY <1>1, <1>13, NoCallIs, CallReloads DEF WriteKb, LibraryType, CallKnown
  <2>2. Seen' \subseteq Seen
    <3>1. kb'.list = kb.list
      BY <1>1, <1>13, BehindIs DEF WriteKb
    <3>2. load'.seen = load.seen
      BY <1>1, <1>13, OvertakenIs DEF WriteKb
    <3>3. reload'.seen = reload.seen \/ reload'.seen = {}
      BY <2>1, <1>13, LoadIs DEF WriteKb
    <3> QED
      BY <3>1, <3>2, <3>3 DEF Seen
  <2>3. CASE docs' = docs
    BY <1>3, <2>1, <2>2, <2>3
  <2>4. CASE docs' \in Stored(kbCall)
    <3>1. /\ \A d \in Docs : docs[d].of # None => docs'[d].of \in {docs[d].of, Gone}
          /\ \A d \in Docs : docs'[d] = docs[d] \/ docs'[d] = Deleted
                             \/ /\ docs'[d].of = kbCall.of /\ docs'[d].text = kbCall.text
                                /\ \/ kbCall.kind = "create"
                                   \/ kbCall.kind = "update" /\ kbCall.doc = d /\ docs[d].of = kbCall.of
      BY <1>1, <2>1, <2>4, DocsMove
    <3>2. DocsAreOwn'
      BY <1>1, <2>1, <3>1 DEF OwnInv, DocsAreOwn, Deleted
    <3> QED
      BY <1>11, <2>1, <2>2, <3>1, <3>2
  <2> QED
    BY <2>1, <2>3, <2>4
<1>14. CASE ReadLoad
  <2>1. load' = Reads(load) /\ load.pc = "asked" /\ UNCHANGED <<docs, kb, kbCall, reload>>
    BY <1>14 DEF ReadLoad, server
  <2>2. load.of \in Orgs
    BY <1>1, <2>1 DEF LibraryType, LoadsKnown
  <2>3. load'.seen = Listing(load.of)
    BY <1>1, <2>1, <2>2, ListingIs, ReadsIs
  <2>4. \A e \in Seen' : e \in Seen \/ e \in Listing(load.of)
    BY <2>1, <2>3 DEF Seen
  <2> QED
    BY <1>3, <2>1, <2>2, <2>4
<1>15. CASE ReadReload
  <2>1. reload' = Reads(reload) /\ reload.pc = "asked" /\ UNCHANGED <<docs, kb, kbCall, load>>
    BY <1>15 DEF ReadReload, server
  <2>2. reload.of \in Orgs
    BY <1>1, <2>1 DEF LibraryType, LoadsKnown
  <2>3. reload'.seen = Listing(reload.of)
    BY <1>1, <2>1, <2>2, ListingIs, ReadsIs
  <2>4. \A e \in Seen' : e \in Seen \/ e \in Listing(reload.of)
    BY <2>1, <2>3 DEF Seen
  <2> QED
    BY <1>3, <2>1, <2>2, <2>4
<1>16. CASE ShowLoad
  <2>1. load' = NoLoad /\ UNCHANGED <<docs, kbCall, reload>>
    BY <1>16 DEF ShowLoad, server
  <2>2. kb'.list \in {kb.list, load.seen}
    BY <1>1, <1>16 DEF ShowLoad, Shows
  <2>3. Seen' \subseteq Seen
    BY <2>1, <2>2, NoLoadIs DEF Seen
  <2> QED
    BY <1>3, <2>1, <2>3
<1>17. CASE ShowReload
  <2>1. reload' = NoLoad /\ kbCall' = NoCall /\ UNCHANGED <<docs, load>>
    BY <1>17 DEF ShowReload, server
  <2>2. kb'.list \in {kb.list, reload.seen}
    BY <1>1, <1>17, BehindIs DEF ShowReload, Shows
  <2>3. Seen' \subseteq Seen
    BY <2>1, <2>2, NoLoadIs DEF Seen
  <2> QED
    BY <1>3, <2>1, <2>3, NoCallIs
<1>18. ASSUME \/ ClearChat \/ Send \/ TypeTone \/ TypeOther \/ SaveVoice
              \/ (\E kind \in {"reset", "load"} : AskReset(kind))
              \/ Decide \/ Meter \/ Audit \/ Answer \/ WriteVoice \/ UNCHANGED vars
       PROVE  OwnInv'
  <2>1. UNCHANGED <<docs, kb, load, kbCall, reload>>
    BY <1>18 DEF ClearChat, AskReset, Send, TypeTone, TypeOther, SaveVoice, Decide,
       Meter, Audit, Answer, WriteVoice, server, library, vars
  <2> QED
    BY <1>4, <2>1
<1> QED
  BY <1>7, <1>8, <1>9, <1>10, <1>12, <1>13, <1>14, <1>15, <1>16, <1>17, <1>18 DEF Next, Click, Follows

\* No document holds what was written for another client, though a save or its
\* answer may come for one she has left, and its list be opened under another:
\* every statement of a route names the client in its path (Console.tsx, the
\* knowledge base; admin.ts, its routes; db.ts, OrgDb).
THEOREM NoMixedDocuments == Spec => []DocsAreOwn
<1>1. OwnInv => DocsAreOwn
  BY DEF OwnInv
<1> QED
  BY <1>1, OwnInit, OwnStep, TypeInvariant, PTL DEF Spec

-----------------------------------------------------------------------------
(* The list of documents.                                                  *)

LEMMA ListInit == Init => ListInv
<1> SUFFICES ASSUME Init PROVE ListInv
  OBVIOUS
<1>1. load = Load(orgId) /\ reload = NoLoad /\ kbCall = NoCall /\ kb = EmptyKb /\ orgId \in Orgs
  BY DEF Init
<1> QED
  BY <1>1, NoCallIs, NoLoadIs, LoadIs, Empties DEF ListInv

LEMMA ListStep == TypeInv /\ ListInv /\ [Next]_vars => ListInv'
<1> SUFFICES ASSUME TypeInv, ListInv, [Next]_vars PROVE ListInv'
  OBVIOUS
<1>1. /\ ServerType /\ LibraryType /\ orgId \in Orgs /\ kb \in KbType /\ kbCall \in Call
      /\ load \in Loads /\ reload \in Loads /\ (load.pc # "idle" => load.of \in Orgs)
      /\ (reload.pc # "idle" => reload.of \in Orgs)
  BY DEF TypeInv, CountType, LibraryType, LoadsKnown
<1>2. /\ load.pc # "idle" => load.of = orgId
      /\ load.pc = "read" /\ ~load.behind => load.seen = Listing(load.of)
      /\ reload.pc = "read" /\ ~reload.behind => reload.seen = Listing(reload.of)
      /\ kbCall.pc = "reload" <=> reload.pc # "idle"
      /\ reload.pc # "idle" => reload.of = kbCall.of
      /\ kb.loaded /\ ~kb.stale =>
           kb.list = Listing(orgId) \/ (kbCall.pc = "reload" /\ kbCall.live /\ kbCall.of = orgId)
  BY DEF ListInv
\* The documents are as they were.
<1>3. ASSUME UNCHANGED docs, NEW o PROVE Listing(o)' = Listing(o)
  BY <1>3 DEF Listing, DocsOf
<1>4. ASSUME UNCHANGED <<docs, orgId, kb, load, kbCall, reload>> PROVE ListInv'
  BY <1>2, <1>3, <1>4 DEF ListInv
<1>5. CASE AddDoc \/ \E e \in kb.list : SaveDoc(e) \/ RemoveDoc(e)
  <2>1. /\ UNCHANGED <<docs, orgId, kb, load, reload>> /\ kbCall = NoCall /\ kbCall'.pc = "asked"
    BY <1>5 DEF AddDoc, SaveDoc, RemoveDoc, AskKb, server
  <2>2. reload.pc = "idle" /\ (kb.loaded /\ ~kb.stale => kb.list = Listing(orgId))
    BY <1>2, <2>1, NoCallIs
  <2> QED
    BY <1>2, <1>3, <2>1, <2>2 DEF ListInv
<1>6. ASSUME NEW o \in Orgs, Pick(o) PROVE ListInv'
  <2>1. /\ UNCHANGED <<docs, kbCall, reload>> /\ orgId' = o /\ load' = Load(o) /\ kb' = EmptyKb
    BY <1>6 DEF Pick, Anew, server
  <2>2. load'.pc = "asked" /\ load'.of = orgId' /\ ~kb'.loaded
    BY <2>1, LoadIs, Empties
  <2>3. Listing(reload.of)' = Listing(reload.of)
    BY <1>3, <2>1
  <2> QED
    BY <1>2, <2>1, <2>2, <2>3 DEF ListInv
<1>7. CASE AfterReset
  <2>1. /\ UNCHANGED <<docs, orgId, reload>> /\ load' = Load(orgId) /\ kb' = EmptyKb
        /\ kbCall' = [kbCall EXCEPT !.live = FALSE]
    BY <1>7 DEF AfterReset, server
  <2>2. load'.pc = "asked" /\ load'.of = orgId' /\ ~kb'.loaded
    BY <1>1, <2>1, LoadIs, Empties
  <2>3. Listing(reload.of)' = Listing(reload.of)
    BY <1>3, <2>1
  <2>4. kbCall'.pc = kbCall.pc /\ kbCall'.of = kbCall.of
    BY <1>1, <2>1, CallDropped
  <2> QED
    BY <1>2, <2>1, <2>2, <2>3, <2>4 DEF ListInv
\* The documents of client c change: another's list is as it was, and one that
\* was read for c is behind.
<1>8. ASSUME NEW c \in Orgs, NEW l \in Loads, NEW q, q = Overtaken(l, c), l.pc # "idle" => l.of \in Orgs,
             \A d \in Docs : docs'[d] = docs[d] \/ (docs[d].of \in {None, c} /\ docs'[d].of \in {Gone, c}),
             l.pc = "read" /\ ~l.behind => l.seen = Listing(l.of)
      PROVE  /\ q.pc = l.pc /\ q.of = l.of
             /\ q.pc = "read" /\ ~q.behind => q.seen = Listing(l.of)'
  <2>1. /\ q.pc = l.pc /\ q.of = l.of /\ q.seen = l.seen
        /\ ~q.behind <=> ~l.behind /\ ~(l.pc = "read" /\ l.of = c)
    BY <1>8, OvertakenIs
  <2>2. ASSUME l.pc = "read", l.of # c PROVE Listing(l.of)' = Listing(l.of)
    BY <1>1, <1>8, <2>2, ListingStays
  <2> QED
    BY <1>8, <2>1, <2>2
<1>9. CASE DemoReset
  <2>1. UNCHANGED <<orgId, kbCall>> /\ era < MaxRewrites /\ Demo \in Orgs
    BY <1>9, ConsoleAssumption DEF DemoReset, TypeInv, CountType
  <2>2. CASE Rewrite
    <3>1. \A d \in Docs : docs'[d] = docs[d]
             \/ (docs[d].of \in {None, Demo} /\ docs'[d].of \in {Gone, Demo})
      BY <1>1, <2>1, <2>2, RewriteMoves
    <3>2. load' = Overtaken(load, Demo) /\ reload' = Overtaken(reload, Demo) /\ Behind(Demo)
      BY <2>2 DEF Rewrite
    <3>3. /\ load'.pc = load.pc /\ load'.of = load.of
          /\ load'.pc = "read" /\ ~load'.behind => load'.seen = Listing(load.of)'
      BY <1>1, <1>2, <1>8, <2>1, <3>1, <3>2
    <3>4. /\ reload'.pc = reload.pc /\ reload'.of = reload.of
          /\ reload'.pc = "read" /\ ~reload'.behind => reload'.seen = Listing(reload.of)'
      BY <1>1, <1>2, <1>8, <2>1, <3>1, <3>2
    <3>5. /\ kb'.list = kb.list /\ kb'.loaded = kb.loaded /\ (~kb'.stale <=> ~kb.stale /\ orgId # Demo)
      BY <1>1, <3>2, BehindIs
    <3>6. orgId # Demo => Listing(orgId)' = Listing(orgId)
      BY <1>1, <2>1, <3>1, ListingStays
    <3> QED
      BY <1>2, <2>1, <3>3, <3>4, <3>5, <3>6 DEF ListInv
  <2>3. CASE UNCHANGED <<server, kb, load, reload>>
    BY <1>4, <2>1, <2>3 DEF server
  <2> QED
    BY <1>9, <2>2, <2>3 DEF DemoReset
<1>10. CASE WriteKb
  <2>1. /\ kbCall.pc = "asked" /\ kbCall.of \in Orgs /\ UNCHANGED orgId /\ reload.pc = "idle"
        /\ (kb.loaded /\ ~kb.stale => kb.list = Listing(orgId))
    BY <1>1, <1>2, <1>10 DEF WriteKb, LibraryType, CallKnown
  <2>2. CASE /\ docs' \in Stored(kbCall) /\ load' = Overtaken(load, kbCall.of)
             /\ \/ /\ kbCall' = [kbCall EXCEPT !.pc = "reload"] /\ reload' = Load(kbCall.of)
                   /\ IF kbCall.live THEN UNCHANGED kb ELSE Behind(kbCall.of)
                \/ kbCall' = NoCall /\ reload' = reload /\ Behind(kbCall.of)
    <3>1. \A d \in Docs : docs'[d] = docs[d]
             \/ (docs[d].of \in {None, kbCall.of} /\ docs'[d].of \in {Gone, kbCall.of})
      BY <1>1, <2>1, <2>2, DocsMove
    <3>2. /\ load'.pc = load.pc /\ load'.of = load.of
          /\ load'.pc = "read" /\ ~load'.behind => load'.seen = Listing(load.of)'
      BY <1>1, <1>2, <1>8, <2>1, <2>2, <3>1
    <3>3. orgId # kbCall.of => Listing(orgId)' = Listing(orgId)
      BY <1>1, <2>1, <3>1, ListingStays
    <3>4. CASE /\ kbCall' = [kbCall EXCEPT !.pc = "reload"] /\ reload' = Load(kbCall.of)
               /\ IF kbCall.live THEN UNCHANGED kb ELSE Behind(kbCall.of)
      <4>1. kbCall'.pc = "reload" /\ kbCall'.of = kbCall.of /\ kbCall'.live = kbCall.live
        BY <1>1, <3>4, CallReloads
      <4>2. reload'.pc = "asked" /\ reload'.of = kbCall.of
        BY <2>1, <3>4, LoadIs
      <4>3. /\ kb'.list = kb.list /\ kb'.loaded = kb.loaded /\ (~kb'.stale => ~kb.stale)
            /\ ~kb'.stale /\ ~kbCall.live => orgId # kbCall.of
        BY <1>1, <3>4, BehindIs
      <4> QED
        BY <1>2, <2>1, <3>2, <3>3, <4>1, <4>2, <4>3 DEF ListInv
    <3>5. CASE kbCall' = NoCall /\ reload' = reload /\ Behind(kbCall.of)
      <4>1. /\ kb'.list = kb.list /\ kb'.loaded = kb.loaded
            /\ ~kb'.stale <=> ~kb.stale /\ orgId # kbCall.of
        BY <1>1, <3>5, BehindIs
      <4> QED
        BY <1>2, <2>1, <3>2, <3>3, <3>5, <4>1, NoCallIs DEF ListInv
    <3> QED
      BY <2>2, <3>4, <3>5
  <2>3. CASE kbCall' = NoCall /\ UNCHANGED <<docs, kb, load, reload>>
    BY <1>2, <1>3, <2>1, <2>3, NoCallIs DEF ListInv
  <2> QED
    BY <1>10, <2>2, <2>3 DEF WriteKb
<1>11. CASE ReadLoad
  <2>1. load.pc = "asked" /\ load' = Reads(load) /\ UNCHANGED <<docs, orgId, kb, kbCall, reload>>
    BY <1>11 DEF ReadLoad, server
  <2>2. /\ load'.of = load.of /\ load'.pc = "read" /\ load'.seen = Listing(load.of)
    BY <1>1, <2>1, ListingIs, ReadsIs
  <2> QED
    BY <1>2, <1>3, <2>1, <2>2 DEF ListInv
<1>12. CASE ShowLoad
  <2>1. load' = NoLoad /\ load.pc # "idle" /\ UNCHANGED <<docs, orgId, kbCall, reload>>
    BY <1>12 DEF ShowLoad, server
  <2>2. CASE load.pc = "read" /\ Shows(load, load.behind)
    <3>1. kb'.list = load.seen /\ kb'.stale = load.behind
      BY <2>2 DEF Shows
    <3> QED
      BY <1>2, <1>3, <2>1, <2>2, <3>1, NoLoadIs DEF ListInv
  <2>3. CASE UNCHANGED kb
    BY <1>2, <1>3, <2>1, <2>3, NoLoadIs DEF ListInv
  <2> QED
    BY <1>12, <2>2, <2>3 DEF ShowLoad
<1>13. CASE ReadReload
  <2>1. reload.pc = "asked" /\ reload' = Reads(reload) /\ UNCHANGED <<docs, orgId, kb, kbCall, load>>
    BY <1>13 DEF ReadReload, server
  <2>2. /\ reload'.of = reload.of /\ reload'.pc = "read" /\ reload'.seen = Listing(reload.of)
    BY <1>1, <2>1, ListingIs, ReadsIs
  <2> QED
    BY <1>2, <1>3, <2>1, <2>2 DEF ListInv
<1>14. CASE ShowReload
  <2>1. /\ reload' = NoLoad /\ kbCall' = NoCall /\ reload.pc # "idle" /\ UNCHANGED <<docs, orgId, load>>
    BY <1>14 DEF ShowReload, server
  <2>2. CASE /\ reload.pc = "read" /\ kbCall.live
             /\ Shows(reload, reload.behind \/ reload.of # orgId)
    <3>1. kb'.list = reload.seen /\ (~kb'.stale <=> ~reload.behind /\ reload.of = orgId)
      <4> DEFINE late == reload.behind \/ reload.of # orgId
      <4>1. kb'.list = reload.seen /\ kb'.stale = late
        BY <2>2 DEF Shows
      <4> QED
        BY <4>1
    <3> QED
      BY <1>2, <1>3, <2>1, <2>2, <3>1, NoLoadIs, NoCallIs DEF ListInv
  <2>3. CASE kbCall.live /\ Behind(reload.of)
    <3>1. /\ kb'.list = kb.list /\ kb'.loaded = kb.loaded
          /\ ~kb'.stale <=> ~kb.stale /\ orgId # reload.of
      BY <1>1, <2>3, BehindIs
    <3> QED
      BY <1>2, <1>3, <2>1, <3>1, NoLoadIs, NoCallIs DEF ListInv
  <2>4. CASE ~kbCall.live /\ UNCHANGED kb
    BY <1>2, <1>3, <2>1, <2>4, NoLoadIs, NoCallIs DEF ListInv
  <2> QED
    BY <1>14, <2>2, <2>3, <2>4 DEF ShowReload
<1>15. ASSUME \/ ClearChat \/ Send \/ TypeTone \/ TypeOther \/ SaveVoice
              \/ (\E kind \in {"reset", "load"} : AskReset(kind))
              \/ Decide \/ Meter \/ Audit \/ Answer \/ WriteVoice \/ UNCHANGED vars
       PROVE  ListInv'
  <2>1. UNCHANGED <<docs, orgId, kb, load, kbCall, reload>>
    BY <1>15 DEF ClearChat, AskReset, Send, TypeTone, TypeOther, SaveVoice, Decide,
       Meter, Audit, Answer, WriteVoice, server, library, vars
  <2> QED
    BY <1>4, <2>1
<1> QED
  BY <1>5, <1>6, <1>7, <1>9, <1>10, <1>11, <1>12, <1>13, <1>14, <1>15 DEF Next, Click, Follows

\* Once no save is under way the list on screen is the stored one, whatever was
\* answered late or to nobody: a switch and a remount cancel a load, and a save
\* brings its list to whoever is picked by then, in which case, as when a list
\* is overtaken by a write or a write is not answered, it is `stale' until the
\* next (Console.tsx, Kb; admin.ts, its routes; DemoReset.tsx).
THEOREM TheListSettles == Spec => []ListSettles
<1>1. ListInv => ListSettles
  <2> SUFFICES ASSUME ListInv, kb.loaded, ~kb.stale, kbCall = NoCall PROVE kb.list = Listing(orgId)
    BY DEF ListSettles
  <2>1. kbCall.pc = "idle"
    BY NoCallIs
  <2> QED
    BY <2>1 DEF ListInv
<1> QED
  BY <1>1, ListInit, ListStep, TypeInvariant, PTL DEF Spec

-----------------------------------------------------------------------------
(* What was spent.                                                         *)

LEMMA TurnsAre ==
    ASSUME NEW ts \in Seq(Exchange)
    PROVE  Len(ts) \in Nat /\ DOMAIN ts = 1..Len(ts) /\ \A i \in DOMAIN ts : ts[i] \in Exchange
  BY LenProperties, ElementOfSeq

LEMMA AppendIs ==
    ASSUME NEW ts \in Seq(Exchange), NEW x \in Exchange, NEW us, us = Append(ts, x)
    PROVE  /\ DOMAIN us = DOMAIN ts \cup {Len(ts) + 1} /\ Len(ts) + 1 \notin DOMAIN ts
           /\ us[Len(ts) + 1] = x
           /\ \A i \in DOMAIN ts : us[i] = ts[i]
<1>1. DOMAIN us = 1..Len(ts) + 1 /\ us[Len(ts) + 1] = x /\ \A i \in DOMAIN ts : us[i] = ts[i]
  BY AppendProperties, TurnsAre
<1>2. Len(ts) \in Nat /\ DOMAIN ts = 1..Len(ts)
  BY TurnsAre
<1> QED
  BY <1>1, <1>2

\* An exchange more, with a row that no other has.
LEMMA OwnRow ==
    ASSUME NEW ts \in Seq(Exchange), NEW x \in Exchange, NEW us, us = Append(ts, x),
           \A i \in DOMAIN ts, j \in DOMAIN ts : ts[i].cost = 1 /\ ts[i].row = ts[j].row => i = j,
           \A i \in DOMAIN ts : ts[i].cost = 1 \/ x.cost = 1 => ts[i].row # x.row
    PROVE  \A i \in DOMAIN us, j \in DOMAIN us : us[i].cost = 1 /\ us[i].row = us[j].row => i = j
<1> DEFINE n == Len(ts) + 1
<1>1. /\ DOMAIN us = DOMAIN ts \cup {n} /\ us[n] = x /\ \A i \in DOMAIN ts : us[i] = ts[i]
  BY AppendIs
<1> HIDE DEF n
<1> QED
  BY <1>1

LEMMA MoreRoom ==
    ASSUME NEW p \in Nat, NEW b \in Nat, NEW f \in Nat, NEW g \in Nat, NEW e \in Nat,
           f <= g, p <= b + 2 * f + e
    PROVE  p <= b + 2 * g + e
OBVIOUS

LEMMA MoreLost ==
    ASSUME NEW p \in Nat, NEW b \in Nat, NEW f \in Nat, NEW q \in Int, q <= p + 2, p <= b + 2 * f + 0
    PROVE  q <= b + 2 * (f + 1) + 0
OBVIOUS

LEMMA SpentStep == TypeInv /\ SpentInv /\ [Next]_vars => SpentInv'
<1> SUFFICES ASSUME TypeInv, SpentInv, [Next]_vars PROVE SpentInv'
  OBVIOUS
<1>1. /\ usage \in SUBSET Row /\ erased \in SUBSET Row /\ billed \in Nat /\ paid \in Nat /\ faults \in Nat
      /\ run \in RunType /\ run.cost \in {0, 1} /\ turns \in Seq(Exchange)
      /\ \A i \in DOMAIN turns : turns[i].cost \in {0, 1}
  <2>1. usage \in SUBSET Row /\ erased \in SUBSET Row /\ billed \in Nat /\ paid \in Nat
    BY DEF TypeInv, MeterType
  <2>2. faults \in Nat
    BY ConsoleAssumption DEF TypeInv, CountType
  <2>3. run \in RunType /\ turns \in Seq(Exchange)
    BY DEF TypeInv, ChatType
  <2>4. run.cost \in {0, 1}
    BY <2>3 DEF RunType
  <2>5. \A i \in DOMAIN turns : turns[i] \in Exchange
    BY <2>3, TurnsAre
  <2>6. \A i \in DOMAIN turns : turns[i].cost \in {0, 1}
    BY <2>5 DEF Exchange
  <2> QED
    BY <2>1, <2>2, <2>3, <2>4, <2>6
<1>2. /\ \A u \in Ledger : u[2] \in 1..billed
      /\ \A i \in DOMAIN turns : Receipt(turns[i])
      /\ \A i \in DOMAIN turns, j \in DOMAIN turns :
            turns[i].cost = 1 /\ turns[i].row = turns[j].row => i = j
      /\ run.pc \in {"audit", "answered"} =>
           /\ Receipt(run)
           /\ run.cost = 1 => \A i \in DOMAIN turns : turns[i].row # run.row
      /\ run.pc \in {"asked", "meter"} => run.row = Blank
      /\ run.pc = "meter" => run.cost = 1
      /\ paid <= billed + 2 * faults + (IF run.pc = "meter" THEN 1 ELSE 0)
  BY DEF SpentInv
<1>3. ASSUME UNCHANGED faults \/ Works \/ Fails PROVE faults' \in Nat /\ faults <= faults'
  BY <1>1, <1>3 DEF Works, Fails
\* What was due is due, at most.
<1>4. ASSUME UNCHANGED faults \/ Works \/ Fails, UNCHANGED <<billed, paid>>,
             run.pc = "meter" => run'.pc = "meter"
      PROVE  paid' <= billed' + 2 * faults' + (IF run'.pc = "meter" THEN 1 ELSE 0)
  <2>1. paid <= billed + 2 * faults + (IF run'.pc = "meter" THEN 1 ELSE 0)
    BY <1>1, <1>2, <1>4
  <2>2. faults' \in Nat /\ faults <= faults' /\ (IF run'.pc = "meter" THEN 1 ELSE 0) \in Nat
    BY <1>3, <1>4
  <2> HIDE DEF Works, Fails
  <2> DEFINE due == IF run'.pc = "meter" THEN 1 ELSE 0
  <2>3. due \in Nat /\ paid <= billed + 2 * faults + due
    BY <2>1, <2>2
  <2> HIDE DEF due
  <2>4. paid <= billed + 2 * faults' + due
    BY <1>1, <2>2, <2>3, MoreRoom
  <2> QED
    BY <1>4, <2>4 DEF due
\* The question and the rows are as they were, or a reset took some of them;
\* the transcript too, or it was cleared.
<1>5. ASSUME UNCHANGED <<billed, paid, run>>, Ledger' = Ledger, turns' = turns \/ turns' = <<>>,
             UNCHANGED faults \/ Works \/ Fails
      PROVE  SpentInv'
  <2>1. DOMAIN turns' \subseteq DOMAIN turns /\ \A i \in DOMAIN turns' : turns'[i] = turns[i]
    BY <1>5
  <2>2. paid' <= billed' + 2 * faults' + (IF run'.pc = "meter" THEN 1 ELSE 0)
    BY <1>4, <1>5
  <2>3. \A x : Receipt(x)' <=> IF x'.cost = 1 THEN x'.row \in Ledger ELSE x'.row = Blank
    BY <1>5 DEF Receipt
  <2> QED
    BY <1>2, <1>5, <2>1, <2>2 DEF SpentInv, Receipt
<1>6. ASSUME UNCHANGED meter PROVE UNCHANGED <<usage, erased, billed, paid>> /\ Ledger' = Ledger
  BY <1>6 DEF meter, Ledger
<1>7. CASE Send
  <2>1. UNCHANGED <<meter, turns, faults>> /\ run = NoRun
    BY <1>7 DEF Send
  <2>2. \E pc \in {"asked", "failed"} : run' = AskedRun(orgId, pc)
    BY <1>7 DEF Send, AskedRun
  <2>3. run'.pc \in {"asked", "failed"} /\ run'.row = Blank
    BY <2>2, RunAsked DEF TypeInv, CountType
  <2>4. paid' <= billed' + 2 * faults' + (IF run'.pc = "meter" THEN 1 ELSE 0)
    BY <1>4, <1>6, <2>1, NoRunIs
  <2> QED
    BY <1>2, <1>6, <2>1, <2>3, <2>4 DEF SpentInv, Receipt
<1>8. CASE Decide
  <2>1. run.pc = "asked" /\ UNCHANGED <<turns, usage, billed, erased>> /\ Ledger' = Ledger
        /\ run.of \in Orgs /\ ServerType
    BY <1>8 DEF Decide, Ledger, TypeInv, ChatType, RunKnown
  <2>2. paid <= billed + 2 * faults + 0
    BY <1>2, <2>1
  <2>3. ASSUME NEW pc \in {"meter", "audit"}, NEW c \in {0, 1}, Ran(pc, c), pc = "meter" <=> c = 1,
               paid' <= billed + 2 * faults' + c
        PROVE  SpentInv'
    <3>1. run'.pc = pc /\ run'.cost = c /\ run'.row = Blank
      BY <1>1, <1>2, <2>1, <2>3, RunRan
    <3>2. paid' <= billed' + 2 * faults' + (IF run'.pc = "meter" THEN 1 ELSE 0)
      BY <2>1, <2>3, <3>1
    <3>3. c = 0 => run'.row = Blank
      BY <3>1
    <3> QED
      BY <1>2, <2>1, <2>3, <3>1, <3>2 DEF SpentInv, Receipt
  <2>4. CASE Works /\ Ran("audit", 0) /\ UNCHANGED paid
    BY <2>2, <2>3, <2>4 DEF Works
  <2>5. CASE Works /\ Ran("meter", 1) /\ paid' = paid + 1
    BY <1>1, <2>2, <2>3, <2>5 DEF Works
  <2>6. CASE Fails /\ Ran("meter", 1) /\ paid' \in paid + 1 .. paid + 2
    <3>1. paid' \in Int /\ paid' <= paid + 2 /\ faults' = faults + 1
      BY <1>1, <2>6 DEF Fails
    <3>2. paid' <= billed + 2 * (faults + 1) + 0
      BY <1>1, <2>2, <3>1, MoreLost
    <3>3. paid' <= billed + 2 * faults' + 1
      BY <1>1, <3>1, <3>2
    <3> QED
      BY <2>3, <2>6, <3>3
  <2>7. CASE Fails /\ Ran("audit", 0) /\ paid' \in paid .. paid + 2
    <3>1. paid' \in Int /\ paid' <= paid + 2 /\ faults' = faults + 1
      BY <1>1, <2>7 DEF Fails
    <3>2. paid' <= billed + 2 * (faults + 1) + 0
      BY <1>1, <2>2, <3>1, MoreLost
    <3>3. paid' <= billed + 2 * faults' + 0
      BY <1>1, <3>1, <3>2
    <3> QED
      BY <2>3, <2>7, <3>3
  <2>8. CASE Fails /\ run' = [run EXCEPT !.pc = "failed"] /\ UNCHANGED paid
    <3>1. run'.pc = "failed"
      BY <1>1, <2>8, RunMoves
    <3>2. paid' <= billed' + 2 * faults' + (IF run'.pc = "meter" THEN 1 ELSE 0)
      BY <1>4, <2>1, <2>8
    <3> QED
      BY <1>2, <2>1, <3>1, <3>2 DEF SpentInv, Receipt
  <2> QED
    BY <1>8, <2>4, <2>5, <2>6, <2>7, <2>8 DEF Decide
<1>9. CASE Meter
  <2>1. run.pc = "meter" /\ run.cost = 1 /\ UNCHANGED <<turns, paid, erased>>
    BY <1>2, <1>9 DEF Meter
  <2>2. paid <= billed + 2 * faults + 1
    BY <1>2, <2>1
  \* The new row is not one of those there were.
  <2>3. ASSUME Written
        PROVE  /\ Ledger' = Ledger \cup {NextRow} /\ NextRow \notin Ledger /\ NextRow[2] = billed + 1
               /\ NextRow # Blank /\ \A u \in Ledger' : u[2] \in 1..billed'
    <3>1. NextRow[2] = billed + 1 /\ Blank[2] = 0
      BY DEF NextRow, Blank
    <3>2. Ledger' = Ledger \cup {NextRow} /\ billed' = billed + 1
      BY <2>1, <2>3 DEF Written, Ledger
    <3>3. NextRow \notin Ledger /\ NextRow # Blank
      BY <1>1, <1>2, <3>1
    <3>4. \A u \in Ledger' : u[2] \in 1..billed'
      BY <1>1, <1>2, <3>1, <3>2
    <3> QED
      BY <3>1, <3>2, <3>3, <3>4
  <2>4. \A i \in DOMAIN turns : turns[i].row \in Ledger \/ turns[i].row = Blank
    BY <1>2 DEF Receipt
  <2>5. CASE Works /\ Written /\ run' = MeteredRun(run, NextRow)
    <3>1. NextRow \in Row
      <4>1. run.of \in Orgs \cup {None}
        BY <1>1 DEF RunType
      <4> QED
        BY <1>1, <4>1 DEF NextRow, Row
    <3>2. run'.pc = "audit" /\ run'.cost = 1 /\ run'.row = NextRow
      BY <1>1, <2>1, <2>5, <3>1, RunMetered
    <3>3. \A i \in DOMAIN turns : turns[i].row # run'.row
      BY <2>3, <2>4, <2>5, <3>2
    <3>4. paid' <= billed' + 2 * faults' + 0
      BY <1>1, <2>1, <2>2, <2>5 DEF Works, Written
    <3> QED
      BY <1>2, <2>1, <2>3, <2>5, <3>2, <3>3, <3>4 DEF SpentInv, Receipt
  <2>6. CASE Fails /\ run' = [run EXCEPT !.pc = "failed"] /\ (Written \/ UNCHANGED <<usage, billed>>)
    <3>1. run'.pc = "failed"
      BY <1>1, <2>6, RunMoves
    <3>2. billed' \in Nat /\ billed <= billed'
      BY <1>1, <2>6 DEF Written
    <3>3. paid' <= billed' + 2 * faults' + 0
      BY <1>1, <2>1, <2>2, <2>6, <3>2 DEF Fails
    <3>4. Ledger \subseteq Ledger' /\ \A u \in Ledger' : u[2] \in 1..billed'
      BY <1>2, <2>1, <2>3, <2>6 DEF Ledger
    <3> QED
      BY <1>2, <2>1, <3>1, <3>3, <3>4 DEF SpentInv, Receipt
  <2> QED
    BY <1>9, <2>5, <2>6 DEF Meter, MeteredRun, Failed
<1>10. CASE Audit
  <2>1. run.pc = "audit" /\ UNCHANGED <<turns, meter>> /\ (Works \/ Fails)
    BY <1>10 DEF Audit
  <2>2. run'.pc \in {"answered", "failed"} /\ run'.cost = run.cost /\ run'.row = run.row
    BY <1>1, <1>10, RunMoves DEF Audit, Failed
  <2>3. paid' <= billed' + 2 * faults' + (IF run'.pc = "meter" THEN 1 ELSE 0)
    BY <1>4, <1>6, <2>1
  <2> QED
    BY <1>2, <1>6, <2>1, <2>2, <2>3 DEF SpentInv, Receipt
<1>11. CASE Answer
  <2>1. run' = NoRun /\ UNCHANGED <<meter, faults>> /\ run.pc \in {"answered", "failed"}
    BY <1>11 DEF Answer
  <2>2. paid' <= billed' + 2 * faults' + (IF run'.pc = "meter" THEN 1 ELSE 0)
    BY <1>4, <1>6, <2>1
  <2>3. CASE /\ run.pc = "answered"
             /\ turns' = Append(turns, [from |-> run.from, cost |-> run.cost, row |-> run.row])
    <3> DEFINE x == [from |-> run.from, cost |-> run.cost, row |-> run.row]
    <3>1. x \in Exchange /\ x.cost = run.cost /\ x.row = run.row
      BY <1>1 DEF RunType, Exchange
    <3>2. turns' = Append(turns, x)
      BY <2>3
    <3> HIDE DEF x
    <3>3. Receipt(run) /\ (run.cost = 1 => \A i \in DOMAIN turns : turns[i].row # run.row)
      BY <1>2, <2>3
    <3>4. Blank \notin Ledger
      <4>1. Blank[2] = 0
        BY DEF Blank
      <4> QED
        BY <1>1, <1>2, <4>1
    <3>5. \A i \in DOMAIN turns : turns[i].cost = 1 \/ x.cost = 1 => turns[i].row # x.row
      BY <1>1, <1>2, <3>1, <3>3, <3>4 DEF Receipt
    <3>6. \A i \in DOMAIN turns', j \in DOMAIN turns' :
             turns'[i].cost = 1 /\ turns'[i].row = turns'[j].row => i = j
      BY <1>1, <1>2, <3>1, <3>2, <3>5, OwnRow
    <3>7. \A i \in DOMAIN turns' : turns'[i] = x \/ \E j \in DOMAIN turns : turns'[i] = turns[j]
      BY <1>1, <3>1, <3>2, AppendIs
    <3>8. \A i \in DOMAIN turns' : Receipt(turns[i])'
      BY <1>2, <1>6, <2>1, <3>1, <3>3, <3>7 DEF Receipt
    <3> QED
      BY <1>2, <1>6, <2>1, <2>2, <3>6, <3>8, NoRunIs DEF SpentInv
  <2>4. CASE UNCHANGED turns
    BY <1>2, <1>6, <2>1, <2>2, <2>4, NoRunIs DEF SpentInv, Receipt
  <2> QED
    BY <1>11, <2>3, <2>4 DEF Answer
<1>12. CASE DemoReset
  <2>1. UNCHANGED <<billed, paid, turns, run>> /\ (Works \/ Fails)
    BY <1>12 DEF DemoReset
  <2>2. Ledger' = Ledger
    BY <1>12 DEF DemoReset, Rewrite, Ledger
  <2> QED
    BY <1>5, <2>1, <2>2
<1>13. CASE AddDoc \/ \E e \in kb.list : SaveDoc(e) \/ RemoveDoc(e)
  BY <1>5, <1>6, <1>13 DEF AddDoc, SaveDoc, RemoveDoc, AskKb, chat
<1>14. CASE \/ (\E o \in Orgs : Pick(o)) \/ ClearChat \/ TypeTone \/ TypeOther \/ SaveVoice
            \/ \E kind \in {"reset", "load"} : AskReset(kind)
  BY <1>5, <1>6, <1>14 DEF Pick, Cleared, ClearChat, AskReset, TypeTone, TypeOther, SaveVoice, chat
<1>15. CASE AfterReset \/ WriteVoice \/ ReadLoad \/ ShowLoad \/ WriteKb \/ ReadReload \/ ShowReload
  BY <1>5, <1>6, <1>15 DEF AfterReset, WriteVoice, ReadLoad, ShowLoad, WriteKb, ReadReload, ShowReload, chat
<1>16. CASE UNCHANGED vars
  BY <1>5, <1>6, <1>16 DEF vars, chat
<1> QED
  BY <1>7, <1>8, <1>9, <1>10, <1>11, <1>12, <1>13, <1>14, <1>15, <1>16 DEF Next, Click, Follows

\* Each cost on screen has a row of its own, but for those a reset of the demo
\* deleted, and what was paid for without one is two calls a failure at most:
\* the meter is written before the answer is given (admin.ts, the console
\* route; llm.ts, complete; 0028, demo_reset).
THEOREM CostsAreMetered == Spec => []SpentIsMetered
<1>1. Init => SpentInv
  <2> SUFFICES ASSUME Init PROVE SpentInv
    OBVIOUS
  <2>1. Ledger = {} /\ DOMAIN turns = {} /\ run.pc = "idle" /\ paid = 0 /\ billed = 0 /\ faults = 0
    BY NoRunIs DEF Init, Ledger
  <2> QED
    BY <2>1 DEF SpentInv
<1>2. SpentInv => SpentIsMetered
  <2> SUFFICES ASSUME SpentInv PROVE SpentIsMetered
    OBVIOUS
  <2>1. ASSUME NEW i \in DOMAIN turns, turns[i].cost = 1
        PROVE  turns[i].row \in Ledger /\ \A j \in DOMAIN turns \ {i} : turns[j].row # turns[i].row
    BY <2>1 DEF SpentInv, Receipt
  <2> QED
    BY <2>1 DEF SpentInv, SpentIsMetered, Ledger
<1> QED
  BY <1>1, <1>2, SpentStep, TypeInvariant, PTL DEF Spec

-----------------------------------------------------------------------------
(* Whose answers are on screen.                                            *)

\* The exchanges of a transcript that something is true of are finitely many.
LEMMA FewTurns ==
    ASSUME NEW ts \in Seq(Exchange), NEW S \in SUBSET DOMAIN ts
    PROVE  IsFiniteSet(S) /\ Cardinality(S) \in Nat
<1>1. IsFiniteSet(1..Len(ts))
  BY TurnsAre, FS_Interval
<1>2. IsFiniteSet(S)
  BY <1>1, TurnsAre, FS_Subset
<1> QED
  BY <1>2, FS_CardinalityType

LEMMA StraysAre ==
    ASSUME NEW ts \in Seq(Exchange), NEW R
    PROVE  /\ Strays(ts, R) \in SUBSET DOMAIN ts /\ IsFiniteSet(Strays(ts, R))
           /\ Cardinality(Strays(ts, R)) \in Nat
<1>1. Strays(ts, R) \in SUBSET DOMAIN ts
  BY DEF Strays
<1> QED
  BY <1>1, FewTurns

\* An exchange more is one more of them, if it is out of place itself.
LEMMA OneMore ==
    ASSUME NEW ts \in Seq(Exchange), NEW x \in Exchange, NEW R
    PROVE  LET more == Cardinality(Strays(Append(ts, x), R))
           IN  /\ x.from \in R => more = Cardinality(Strays(ts, R))
               /\ x.from \notin R => more = Cardinality(Strays(ts, R)) + 1
<1> DEFINE us == Append(ts, x)
           n == Len(ts) + 1
           S == Strays(ts, R)
<1>1. /\ DOMAIN us = DOMAIN ts \cup {n} /\ n \notin DOMAIN ts /\ us[n] = x
      /\ \A i \in DOMAIN ts : us[i] = ts[i]
  BY AppendIs
<1>2. n \notin S /\ IsFiniteSet(S) /\ Cardinality(S) \in Nat
  BY <1>1, StraysAre
<1>3. CASE x.from \in R
  <2>1. Strays(us, R) = S
    BY <1>1, <1>3 DEF Strays
  <2> QED
    BY <1>2, <1>3, <2>1
<1>4. CASE x.from \notin R
  <2>1. Strays(us, R) = S \cup {n}
    BY <1>1, <1>4 DEF Strays
  <2>2. Cardinality(S \cup {n}) = Cardinality(S) + 1
    BY <1>2, FS_AddElement
  <2> QED
    BY <1>2, <1>4, <2>1, <2>2
<1> QED
  BY <1>3, <1>4

LEMMA OneOutIs ==
    ASSUME NEW ts \in Seq(Exchange), NEW r, NEW o, NEW R, OneOut(ts, r, o, R)
    PROVE  Cardinality(Strays(ts, R)) <= 1 /\ (Straying(r, o, R) => Cardinality(Strays(ts, R)) = 0)
<1> DEFINE k == Cardinality(Strays(ts, R))
<1>1. k \in Nat /\ k + (IF Straying(r, o, R) THEN 1 ELSE 0) <= 1
  BY StraysAre DEF OneOut
<1> HIDE DEF k
<1>2. k <= 1 /\ (Straying(r, o, R) => k = 0)
  BY <1>1
<1> QED
  BY <1>2 DEF k

\* A question that moves on without getting out of place, an answer that is
\* put where it was going to be, and a transcript that is cleared.
LEMMA Moves ==
    ASSUME NEW ts \in Seq(Exchange), NEW r, NEW q, NEW o, NEW R, OneOut(ts, r, o, R),
           Straying(q, o, R) => Straying(r, o, R)
    PROVE  OneOut(ts, q, o, R)
<1> DEFINE k == Cardinality(Strays(ts, R))
<1>1. k \in Nat /\ k + (IF Straying(r, o, R) THEN 1 ELSE 0) <= 1
  BY StraysAre DEF OneOut
<1> HIDE DEF k
<1>2. k + (IF Straying(q, o, R) THEN 1 ELSE 0) <= 1
  <2>1. CASE Straying(q, o, R)
    BY <1>1, <2>1
  <2>2. CASE ~Straying(q, o, R)
    BY <1>1, <2>2
  <2> QED
    BY <2>1, <2>2
<1> QED
  BY <1>2 DEF k, OneOut

LEMMA AnswerStays ==
    ASSUME NEW ts \in Seq(Exchange), NEW x \in Exchange, NEW us, us = Append(ts, x),
           NEW r, NEW o, NEW R, OneOut(ts, r, o, R), r.pc = "answered", x.from = r.from
    PROVE  OneOut(us, NoRun, o, R)
<1> DEFINE k == Cardinality(Strays(ts, R))
<1>1. k \in Nat
  BY StraysAre
<1>2. k <= 1 /\ (Straying(r, o, R) => k = 0)
  BY OneOutIs
<1>3. /\ x.from \in R => Cardinality(Strays(us, R)) = k
      /\ x.from \notin R => Cardinality(Strays(us, R)) = k + 1
  BY OneMore
<1>4. x.from \notin R => Straying(r, o, R)
  BY DEF Straying, Asking
<1>5. ~Straying(NoRun, o, R)
  BY NoRunIs DEF Straying, Asking
<1> HIDE DEF k
<1>6. Cardinality(Strays(us, R)) <= 1
  BY <1>1, <1>2, <1>3, <1>4
<1>7. Cardinality(Strays(us, R)) \in Nat
  BY <1>1, <1>3
<1> QED
  BY <1>5, <1>6, <1>7 DEF OneOut

LEMMA Clears == ASSUME NEW r, NEW o, NEW R PROVE OneOut(<<>>, r, o, R)
<1>1. Strays(<<>>, R) = {}
  BY DEF Strays
<1>2. Cardinality(Strays(<<>>, R)) = 0
  BY <1>1, FS_EmptySet
<1>3. (IF Straying(r, o, R) THEN 1 ELSE 0) \in {0, 1}
  OBVIOUS
<1> QED
  BY <1>2, <1>3 DEF OneOut

LEMMA StrayStep == TypeInv /\ StrayInv /\ [Next]_vars => StrayInv'
<1> SUFFICES ASSUME TypeInv, StrayInv, [Next]_vars PROVE StrayInv'
  OBVIOUS
<1>1. /\ turns \in Seq(Exchange) /\ run \in RunType /\ orgId \in Orgs /\ era \in 0..MaxRewrites
      /\ run.pc # "idle" => run.of \in Orgs
  BY DEF TypeInv, ChatType, RunKnown, CountType, ServerType
<1>2. Now(orgId) \in Own(orgId)
  BY <1>1, NowText DEF Own
\* Whichever place an answer should have, if the place stays.
<1>3. ASSUME UNCHANGED <<orgId, era, untold>>,
             \A R : OneOut(turns, run, orgId, R) /\ Now(orgId) \in R => OneOut(turns', run', orgId, R)
      PROVE  StrayInv'
  <2>1. Now(orgId)' = Now(orgId) /\ Own(orgId)' = Own(orgId)
    BY <1>3 DEF Now, Own
  <2>2. OneOut(turns', run', orgId, Own(orgId))
    BY <1>2, <1>3 DEF StrayInv
  <2>3. ~untold => OneOut(turns', run', orgId, {Now(orgId)})
    BY <1>3 DEF StrayInv
  <2> QED
    BY <1>3, <2>1, <2>2, <2>3 DEF StrayInv
\* The question moves on, and the transcript is as it was.
<1>4. ASSUME UNCHANGED <<orgId, era, untold, turns>>,
             \A R : Now(orgId) \in R /\ Straying(run', orgId, R) => Straying(run, orgId, R)
      PROVE  StrayInv'
  <2>1. ASSUME NEW R, OneOut(turns, run, orgId, R), Now(orgId) \in R
        PROVE  OneOut(turns', run', orgId, R)
    <3>1. OneOut(turns, run', orgId, R)
      BY <1>1, <1>4, <2>1, Moves
    <3> QED
      BY <1>4, <3>1
  <2> QED
    BY <1>3, <1>4, <2>1
<1>5. ASSUME turns' = <<>> PROVE StrayInv'
  BY <1>5, Clears DEF StrayInv
<1>6. ASSUME UNCHANGED <<turns, run, orgId, era, untold>> PROVE StrayInv'
  BY <1>4, <1>6
<1>7. CASE (\E o \in Orgs : Pick(o)) \/ ClearChat \/ AfterReset
  BY <1>5, <1>7 DEF Pick, Cleared, ClearChat, AfterReset
<1>8. CASE Send
  <2>1. UNCHANGED <<orgId, era, untold, turns>>
    BY <1>8 DEF Send, server
  <2>2. \E pc \in {"asked", "failed"} : run' = AskedRun(orgId, pc)
    BY <1>8 DEF Send, AskedRun
  <2>3. run'.pc \in {"asked", "failed"} /\ run'.of = orgId
    BY <1>1, <2>2, RunAsked
  <2> QED
    BY <1>4, <2>1, <2>3 DEF Straying, Asking
<1>9. CASE Decide
  <2>1. run.pc = "asked" /\ run.of \in Orgs /\ UNCHANGED <<orgId, era, untold, turns>> /\ ServerType
    BY <1>1, <1>9 DEF Decide, server, TypeInv
  <2>2. ASSUME NEW pc \in {"meter", "audit"}, NEW c \in {0, 1}, Ran(pc, c) PROVE StrayInv'
    <3>1. run'.of = run.of /\ run'.from = Now(run.of)
      BY <1>1, <2>1, <2>2, RunRan
    <3> QED
      BY <1>4, <2>1, <3>1 DEF Straying, Asking
  <2>3. ASSUME run' = [run EXCEPT !.pc = "failed"] PROVE StrayInv'
    <3>1. run'.pc = "failed"
      BY <1>1, <2>3, RunMoves
    <3> QED
      BY <1>4, <2>1, <3>1 DEF Straying, Asking
  <2> QED
    BY <1>9, <2>2, <2>3 DEF Decide
<1>10. CASE Meter \/ Audit
  <2>1. run.pc \in {"meter", "audit"} /\ UNCHANGED <<orgId, era, untold, turns>>
    BY <1>10 DEF Meter, Audit, server
  <2>2. \/ \E pc \in {"audit", "answered", "failed"} : run' = [run EXCEPT !.pc = pc]
        \/ Meter /\ run' = MeteredRun(run, NextRow)
    BY <1>10 DEF Meter, Audit, Failed, MeteredRun
  <2>3. run'.of = run.of /\ run'.from = run.from
    <3>1. CASE \E pc \in {"audit", "answered", "failed"} : run' = [run EXCEPT !.pc = pc]
      BY <1>1, <3>1, RunMoves
    <3>2. CASE run' = MeteredRun(run, NextRow)
      <4>1. billed \in Nat /\ run.of \in Orgs \cup {None}
        BY <1>1 DEF TypeInv, MeterType, RunType
      <4>2. NextRow \in Row
        BY <4>1 DEF NextRow, Row
      <4> QED
        BY <1>1, <3>2, <4>2, RunMetered
    <3> QED
      BY <2>2, <3>1, <3>2
  <2> QED
    BY <1>4, <2>1, <2>3 DEF Straying, Asking
<1>11. CASE Answer
  <2>1. run' = NoRun /\ UNCHANGED <<orgId, era, untold>>
    BY <1>11 DEF Answer, server
  <2>2. CASE /\ run.pc = "answered"
             /\ turns' = Append(turns, [from |-> run.from, cost |-> run.cost, row |-> run.row])
    <3> DEFINE x == [from |-> run.from, cost |-> run.cost, row |-> run.row]
    <3>1. x \in Exchange /\ x.from = run.from
      BY <1>1 DEF RunType, Exchange
    <3>2. turns' = Append(turns, x) /\ run.pc = "answered"
      BY <2>2
    <3> HIDE DEF x
    <3>3. ASSUME NEW R, OneOut(turns, run, orgId, R) PROVE OneOut(turns', NoRun, orgId, R)
      BY <1>1, <3>1, <3>2, <3>3, AnswerStays
    <3> QED
      BY <1>3, <2>1, <3>3
  <2>3. CASE UNCHANGED turns
    <3>1. ~Straying(run', orgId, Own(orgId)) /\ \A R : ~Straying(run', orgId, R)
      BY <2>1, NoRunIs DEF Straying, Asking
    <3> QED
      BY <1>4, <2>1, <2>3, <3>1
  <2> QED
    BY <1>11, <2>2, <2>3 DEF Answer
<1>12. CASE DemoReset
  <2>1. UNCHANGED <<turns, run, orgId>>
    BY <1>12 DEF DemoReset
  <2>2. CASE Rewrite
    <3>1. Own(orgId)' = Own(orgId)
      BY <2>1 DEF Own
    <3>2. ~untold' => ~untold /\ Now(orgId)' = Now(orgId)
      BY <2>1, <2>2 DEF Rewrite, Now
    <3> QED
      BY <2>1, <3>1, <3>2 DEF StrayInv
  <2>3. CASE UNCHANGED <<server, untold>>
    BY <1>6, <2>1, <2>3 DEF server
  <2> QED
    BY <1>12, <2>2, <2>3 DEF DemoReset
<1>13. CASE AddDoc \/ \E e \in kb.list : SaveDoc(e) \/ RemoveDoc(e)
  BY <1>6, <1>13 DEF AddDoc, SaveDoc, RemoveDoc, AskKb, chat, server
<1>14. CASE TypeTone \/ TypeOther \/ SaveVoice \/ \E kind \in {"reset", "load"} : AskReset(kind)
  BY <1>6, <1>14 DEF AskReset, TypeTone, TypeOther, SaveVoice, chat, server
<1>15. CASE WriteVoice \/ ReadLoad \/ ShowLoad \/ WriteKb \/ ReadReload \/ ShowReload
  BY <1>6, <1>15 DEF WriteVoice, ReadLoad, ShowLoad, WriteKb, ReadReload, ShowReload, chat, server
<1>16. CASE UNCHANGED vars
  BY <1>6, <1>16 DEF vars, chat, server
<1> QED
  BY <1>7, <1>8, <1>9, <1>10, <1>11, <1>12, <1>13, <1>14, <1>15, <1>16 DEF Next, Click, Follows

\* One answer at most is under another client's transcript, or under the next
\* walk-in's: one question is under way at a time, and a switch and a rewrite
\* that is told of clear the rest (Console.tsx, pick, send and afterReset).
THEOREM OneAnswerStrays == Spec => []OneStray
<1>1. Init => StrayInv
  BY Clears DEF Init, StrayInv
<1>2. TypeInv /\ StrayInv => OneStray
  <2> SUFFICES ASSUME TypeInv, StrayInv PROVE OneStray
    OBVIOUS
  <2>1. turns \in Seq(Exchange) /\ \A i \in DOMAIN turns : turns[i].from \in Text
    BY TurnsAre DEF TypeInv, ChatType, Exchange
  <2>2. ASSUME NEW R, OneOut(turns, run, orgId, R) PROVE Cardinality(Strays(turns, R)) <= 1
    <3>1. Cardinality(Strays(turns, R)) \in Nat
      BY <2>1, StraysAre
    <3> QED
      BY <2>2, <3>1 DEF OneOut
  <2>3. {i \in DOMAIN turns : turns[i].from[1] # orgId} = Strays(turns, Own(orgId))
    BY <2>1 DEF Strays, Own
  <2>4. {i \in DOMAIN turns : turns[i].from # Now(orgId)} = Strays(turns, {Now(orgId)})
    BY DEF Strays
  <2> QED
    BY <2>2, <2>3, <2>4 DEF StrayInv, OneStray
<1> QED
  BY <1>1, <1>2, StrayStep, TypeInvariant, PTL DEF Spec

=============================================================================
