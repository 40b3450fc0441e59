------------------------------ MODULE Console ------------------------------
(***************************************************************************)
(* The training console (dashboard/src/Console.tsx) and the routes of the  *)
(* Worker behind it (workers/api/src/admin.ts): an operator picks a        *)
(* client, tries its assistant, and edits its tone and its documents in    *)
(* panels that stay mounted as she moves on to the next.  The demo client  *)
(* she may also reset, or load a saved setup into (DemoReset.tsx, 0028).   *)
(*                                                                         *)
(* A tone or a document is told apart by the client it was written for and *)
(* by how often that client had been rewritten: each reset or load of the  *)
(* demo client puts other texts in place.  What decideReply makes of a     *)
(* message is ReplyDecision's, here a run costs or does not; uploads from  *)
(* two screens are Panel's, the two writes of a week Diary's.  Abstracted: *)
(* the business name, the switch that overrides a hold, sizes and wording. *)
(***************************************************************************)
EXTENDS Integers, Sequences, FiniteSets

CONSTANTS
    Orgs, Demo,   \* the clients; the one that demo_reset and demo_setup_load write
    Docs,         \* identifiers a document may get
    MaxDocuments, \* KB_DOC_LIMIT
    HistoryLimit, \* exchanges: consoleHistory takes twice as many turns
    MaxRewrites,  \* bound: resets and loads that take effect
    MaxClicks,    \* bound: what the operator does
    MaxFaults     \* bound: calls and writes that fail

None == "none"
Gone == "gone"
ASSUME ConsoleAssumption == /\ None \notin Orgs /\ Gone \notin Orgs /\ Demo \in Orgs
                            /\ MaxDocuments \in Nat /\ HistoryLimit \in Nat /\ MaxRewrites \in Nat
                            /\ MaxClicks \in Nat /\ MaxFaults \in Nat

VARIABLES
    era,        \* how often the demo client was rewritten
    tone,       \* organizations.voice
    docs,       \* kb_documents: whose, and the text
    usage,      \* usage_events: whose, and the how manieth row
    billed,     \* history: rows of usage_events ever written
    erased,     \* history: those that a reset deleted
    paid,       \* history: calls the model was paid for
    orgId,
    turns,      \* the transcript: an entry for an exchange
    run,        \* the question under way, or NoRun
    voice,      \* the Voice form
    voiceCall,
    kb,         \* the knowledge-base panel
    load,       \* the list it asked for when it was given its client
    kbCall,     \* its save or delete
    reload,     \* the list asked for after that
    reset,      \* "no", what was asked ("reset", "load"), or "done"
    untold,     \* history: the demo on screen was rewritten, the transcript not cleared since
    clicks, faults

server == <<era, tone, docs>>
meter == <<usage, billed, erased, paid>>
chat == <<turns, run, untold>>
form == <<voice, voiceCall>>
library == <<kb, load, kbCall, reload>>
vars == <<server, meter, orgId, chat, form, library, reset, clicks, faults>>

Blank == <<None, 0>>
Text == Orgs \X (0..MaxRewrites) \cup {Blank}
Row == (Orgs \cup {None}) \X Nat   \* Blank for none
Now(o) == <<o, IF o = Demo THEN era ELSE 0>>
NoDoc == [of |-> None, text |-> Blank]
Deleted == [of |-> Gone, text |-> Blank]   \* an identifier is given once
DocsOf(o) == {d \in Docs : docs[d].of = o}
Listing(o) == {[id |-> d, text |-> docs[d].text] : d \in DocsOf(o)}
NoRun == [of |-> None, pc |-> "idle", from |-> Blank, tone |-> Blank, cost |-> 0, row |-> Blank]
NoCall == [of |-> None, kind |-> None, doc |-> None, text |-> Blank, live |-> FALSE, pc |-> "idle"]
EmptyForm == [filled |-> FALSE, tone |-> Blank]
\* A list on its way: the Worker reads it, and it is shown later.
NoLoad == [of |-> None, pc |-> "idle", seen |-> {}, behind |-> FALSE]
Load(o) == [of |-> o, pc |-> "asked", seen |-> {}, behind |-> FALSE]
Entry == [id : Docs, text : Text]
Loads == [of : Orgs \cup {None}, pc : {"idle", "asked", "read"}, seen : SUBSET Entry,
          behind : BOOLEAN]
Call == [of : Orgs \cup {None}, kind : {None, "voice", "create", "update", "delete"},
         doc : Docs \cup {None}, text : Text, live : BOOLEAN, pc : {"idle", "asked", "reload"}]

TypeOK ==
    /\ era \in 0..MaxRewrites /\ tone \in [Orgs -> Text]
    /\ docs \in [Docs -> [of : Orgs \cup {None, Gone}, text : Text]]
    /\ usage \in SUBSET Row /\ erased \in SUBSET Row /\ billed \in Nat /\ paid \in Nat
    /\ turns \in Seq([from : Text, cost : {0, 1}, row : Row]) /\ Len(turns) <= HistoryLimit + 1
    /\ run \in [of : Orgs \cup {None}, pc : {"idle", "asked", "meter", "audit", "answered", "failed"},
                from : Text, tone : Text, cost : {0, 1}, row : Row]
    /\ voice \in [filled : BOOLEAN, tone : Text] /\ voiceCall \in Call
    /\ kb \in [list : SUBSET Entry, loaded : BOOLEAN, stale : BOOLEAN]
    /\ load \in Loads /\ kbCall \in Call /\ reload \in Loads
    /\ orgId \in Orgs /\ reset \in {"no", "reset", "load", "done"} /\ untold \in BOOLEAN
    /\ clicks \in 0..MaxClicks /\ faults \in 0..MaxFaults

EmptyKb == [list |-> {}, loaded |-> FALSE, stale |-> FALSE]

Init ==
    /\ era = 0 /\ tone = [o \in Orgs |-> <<o, 0>>]
    /\ orgId \in Orgs   \* (bound: the client picked first is the one with a document)
    /\ \E d \in Docs :
          docs = [e \in Docs |-> IF e = d THEN [of |-> orgId, text |-> <<orgId, 0>>] ELSE NoDoc]
    /\ usage = {} /\ billed = 0 /\ erased = {} /\ paid = 0
    /\ turns = <<>> /\ run = NoRun /\ untold = FALSE
    /\ voice = EmptyForm /\ voiceCall = NoCall
    /\ kb = EmptyKb /\ load = Load(orgId) /\ kbCall = NoCall /\ reload = NoLoad
    /\ reset = "no" /\ clicks = 0 /\ faults = 0

Works == faults' = faults
Fails == faults < MaxFaults /\ faults' = faults + 1

\* The documents of client o change: what is on screen is behind them, and so
\* is a list that was read before.
Overtaken(l, o) == [l EXCEPT !.behind = @ \/ (l.pc = "read" /\ l.of = o)]
Behind(o) == kb' = [kb EXCEPT !.stale = @ \/ orgId = o]

-----------------------------------------------------------------------------
(* Another client.                                                         *)

\* Mutant: the transcript stays.
Kept == turns
Cleared == <<>>
\* Mutant: a load that nothing cancels, and that is answered last.
Uncancelled(o) == IF load.pc = "idle" THEN Load(o) ELSE load
\* The effect on [orgId]: the load under way is answered to nobody.
Anew(o) == Load(o)
\* pick: the transcript goes, and the panels follow; a question or a save under
\* way does not.
Pick(o) ==
    /\ o # orgId /\ orgId' = o /\ turns' = Cleared /\ untold' = FALSE
    /\ voice' = EmptyForm /\ kb' = EmptyKb /\ load' = Anew(o)
    /\ UNCHANGED <<server, meter, run, voiceCall, kbCall, reload, reset, faults>>

\* The transcript's own button.
ClearChat ==
    /\ turns # <<>> /\ turns' = <<>> /\ untold' = FALSE
    /\ UNCHANGED <<server, meter, orgId, run, form, library, reset, faults>>

\* (bound: one rewrite at a time)
AskReset(kind) ==
    /\ orgId = Demo /\ reset = "no" /\ era < MaxRewrites /\ reset' = kind
    /\ UNCHANGED <<server, meter, orgId, chat, form, library, faults>>

\* demo_restore_defaults after a reset, the saved setup after a load: the tone
\* and every document are replaced, and the demo's usage rows deleted by a reset.
Rewrite ==
    /\ era' = era + 1 /\ tone' = [tone EXCEPT ![Demo] = <<Demo, era + 1>>]
    /\ \E S \in SUBSET DocsOf(None) :
          docs' = [d \in Docs |-> IF d \in S THEN [of |-> Demo, text |-> <<Demo, era + 1>>]
                                  ELSE IF docs[d].of = Demo THEN Deleted ELSE docs[d]]
    /\ LET lost == {u \in usage : reset = "reset" /\ u[1] = Demo} IN
       usage' = usage \ lost /\ erased' = erased \cup lost
    /\ untold' = (untold \/ orgId = Demo)
    /\ Behind(Demo) /\ load' = Overtaken(load, Demo) /\ reload' = Overtaken(reload, Demo)
\* run, rpc: nobody is told of a rewrite whose answer is lost.
DemoReset ==
    /\ reset \in {"reset", "load"}
    /\ \/ Works /\ Rewrite /\ reset' = "done"
       \/ Fails /\ Rewrite /\ reset' = "no"
       \/ Fails /\ reset' = "no" /\ UNCHANGED <<server, usage, erased, untold, kb, load, reload>>
    /\ UNCHANGED <<billed, paid, orgId, turns, run, form, kbCall>>
\* afterReset: the panels are mounted anew, for whichever client is picked by
\* now, and what they had under way is answered to nobody.
AfterReset ==
    /\ reset = "done" /\ reset' = "no" /\ turns' = <<>> /\ untold' = FALSE
    /\ voice' = EmptyForm /\ kb' = EmptyKb /\ load' = Load(orgId)
    /\ voiceCall' = [voiceCall EXCEPT !.live = FALSE] /\ kbCall' = [kbCall EXCEPT !.live = FALSE]
    /\ UNCHANGED <<server, meter, orgId, run, reload, faults>>

-----------------------------------------------------------------------------
(* A question.                                                             *)

Room == Len(turns) <= HistoryLimit
\* send: with the transcript as it is now, and for the client as it is now.  A
\* transcript that has grown too long is refused, and stays as long.
Send ==
    /\ run = NoRun
    /\ run' = [NoRun EXCEPT !.of = orgId, !.pc = IF Room THEN "asked" ELSE "failed"]
    /\ UNCHANGED <<server, meter, orgId, turns, untold, form, library, reset, faults>>

\* What the route has read of the client (its reads are one step here), and
\* what the run cost.
Ran(pc, cost) == run' = [run EXCEPT !.pc = pc, !.cost = cost, !.from = Now(run.of), !.tone = tone[run.of]]
\* The route, and decideReply: complete asks the model twice if it must, and
\* reports the usage of the call that worked; one that was paid for and came
\* too late, or not as JSON, is not reported.
Decide ==
    /\ run.pc = "asked"
    /\ \/ Works /\ Ran("audit", 0) /\ UNCHANGED paid
       \/ Works /\ Ran("meter", 1) /\ paid' = paid + 1
       \/ Fails /\ Ran("meter", 1) /\ paid' \in paid + 1 .. paid + 2
       \/ Fails /\ Ran("audit", 0) /\ paid' \in paid .. paid + 2   \* llm_error
       \/ Fails /\ run' = [run EXCEPT !.pc = "failed"] /\ UNCHANGED paid
    /\ UNCHANGED <<server, usage, billed, erased, orgId, turns, untold, form, library, reset>>

NextRow == <<run.of, billed + 1>>
Written == billed' = billed + 1 /\ usage' = usage \cup {NextRow}
Onward == run' = [run EXCEPT !.pc = "audit"]
Failed == run' = [run EXCEPT !.pc = "failed"]
\* What was reported is written down before the answer is given, or there is none.
Meter ==
    /\ run.pc = "meter"
    /\ \/ Works /\ Written /\ run' = [run EXCEPT !.pc = "audit", !.row = NextRow]
       \/ Fails /\ Written /\ Failed
       \/ Fails /\ UNCHANGED <<usage, billed>> /\ Failed
    /\ UNCHANGED <<server, erased, paid, orgId, turns, untold, form, library, reset>>
Audit ==
    /\ run.pc = "audit"
    /\ \/ Works /\ run' = [run EXCEPT !.pc = "answered"]
       \/ Fails /\ Failed
    /\ UNCHANGED <<server, meter, orgId, turns, untold, form, library, reset>>

\* The exchange is put under whatever transcript there is by now, and a Voice
\* form that is not filled is filled from it.
Answer ==
    /\ run' = NoRun
    /\ \/ /\ run.pc = "answered"
          /\ turns' = Append(turns, [from |-> run.from, cost |-> run.cost, row |-> run.row])
          /\ voice' = IF voice.filled THEN voice ELSE [filled |-> TRUE, tone |-> run.tone]
       \/ run.pc = "failed" /\ UNCHANGED <<turns, voice>>
    /\ UNCHANGED <<server, meter, orgId, untold, voiceCall, library, reset, faults>>

-----------------------------------------------------------------------------
(* The Voice form.                                                         *)

TypeTone ==
    /\ voice' = [filled |-> TRUE, tone |-> Now(orgId)] /\ voice' # voice
    /\ UNCHANGED <<server, meter, orgId, chat, voiceCall, library, reset, faults>>
\* The length or the languages: the form counts as filled, tone and all.
TypeOther ==
    /\ ~voice.filled /\ voice' = [voice EXCEPT !.filled = TRUE]
    /\ UNCHANGED <<server, meter, orgId, chat, voiceCall, library, reset, faults>>

\* save: the three fields go along if the form is filled; if it is not, the
\* name goes alone, and nothing that is told apart here.
SaveVoice ==
    /\ voiceCall = NoCall /\ voice.filled
    /\ voiceCall' = [NoCall EXCEPT !.of = orgId, !.kind = "voice", !.text = voice.tone,
                                   !.live = TRUE, !.pc = "asked"]
    /\ UNCHANGED <<server, meter, orgId, chat, voice, library, reset, faults>>
\* The controls route: the update, and its audit, which may fail after it.
WriteVoice ==
    /\ voiceCall.pc = "asked" /\ voiceCall' = NoCall
    /\ \/ Works /\ tone' = [tone EXCEPT ![voiceCall.of] = voiceCall.text]
       \/ Fails /\ tone' \in {tone, [tone EXCEPT ![voiceCall.of] = voiceCall.text]}
    /\ UNCHANGED <<era, docs, meter, orgId, chat, voice, library, reset>>

-----------------------------------------------------------------------------
(* The knowledge base.                                                     *)

\* The Worker reads a list that was asked for.
Reads(l) == [l EXCEPT !.pc = "read", !.seen = Listing(l.of)]
Shows(l, stale) == kb' = [list |-> l.seen, loaded |-> TRUE, stale |-> stale]
ReadLoad ==
    /\ load.pc = "asked" /\ load' = Reads(load)
    /\ UNCHANGED <<server, meter, orgId, chat, form, kb, kbCall, reload, reset, faults>>
ShowLoad ==
    /\ \/ load.pc = "read" /\ Works /\ Shows(load, load.behind)
       \/ load.pc # "idle" /\ Fails /\ UNCHANGED kb
    /\ load' = NoLoad
    /\ UNCHANGED <<server, meter, orgId, chat, form, kbCall, reload, reset>>

AskKb(kind, d, text) ==
    /\ kbCall = NoCall
    /\ kbCall' = [of |-> orgId, kind |-> kind, doc |-> d, text |-> text, live |-> TRUE, pc |-> "asked"]
    /\ UNCHANGED <<server, meter, orgId, chat, form, kb, load, reload, reset, faults>>
\* Add, while the list is short of the limit; open a document that is listed
\* and save it, with the text it had or another; delete one.
AddDoc == kb.loaded /\ Cardinality(kb.list) < MaxDocuments /\ AskKb("create", None, Now(orgId))
SaveDoc(e) == \E text \in {e.text, Now(orgId)} : AskKb("update", e.id, text)
RemoveDoc(e) == AskKb("delete", e.id, e.text)

\* Mutant: any client's document, by its id.
AnyDoc(d, o) == docs[d].of \in Orgs
\* OrgDb: every statement of a route names the client in its path.
Scoped(d, o) == docs[d].of = o
Full(o) == Cardinality(DocsOf(o)) >= MaxDocuments
\* What the statement of a route may make of the documents.
Stored(c) ==
    CASE c.kind = "create" ->
            IF Full(c.of) THEN {}
            ELSE {[docs EXCEPT ![d] = [of |-> c.of, text |-> c.text]] : d \in DocsOf(None)}
      [] c.kind = "update" /\ Scoped(c.doc, c.of) -> {[docs EXCEPT ![c.doc].text = c.text]}
      [] c.kind = "delete" /\ Scoped(c.doc, c.of) -> {[docs EXCEPT ![c.doc] = Deleted]}
      [] OTHER -> {}
\* A save that is answered will be followed by its list; one that is not, or
\* whose panel is gone, leaves what is on screen behind.
WriteKb ==
    /\ kbCall.pc = "asked"
    /\ \/ /\ docs' \in Stored(kbCall) /\ load' = Overtaken(load, kbCall.of)
          /\ \/ /\ Works /\ kbCall' = [kbCall EXCEPT !.pc = "reload"] /\ reload' = Load(kbCall.of)
                /\ IF kbCall.live THEN UNCHANGED kb ELSE Behind(kbCall.of)
             \/ Fails /\ kbCall' = NoCall /\ reload' = reload /\ Behind(kbCall.of)
       \/ Works /\ Stored(kbCall) = {} /\ kbCall' = NoCall /\ UNCHANGED <<docs, kb, load, reload>>
       \/ Fails /\ kbCall' = NoCall /\ UNCHANGED <<docs, kb, load, reload>>
    /\ UNCHANGED <<era, tone, meter, orgId, chat, form, reset>>
ReadReload ==
    /\ reload.pc = "asked" /\ reload' = Reads(reload)
    /\ UNCHANGED <<server, meter, orgId, chat, form, kb, load, kbCall, reset, faults>>
\* reload, which a switch does not cancel: it is shown under the client that is
\* picked by then.
ShowReload ==
    /\ \/ /\ reload.pc = "read" /\ Works /\ kbCall.live
          /\ Shows(reload, reload.behind \/ reload.of # orgId)
       \/ reload.pc # "idle" /\ Fails /\ kbCall.live /\ Behind(reload.of)
       \/ reload.pc = "read" /\ (Works \/ Fails) /\ ~kbCall.live /\ UNCHANGED kb
    /\ reload' = NoLoad /\ kbCall' = NoCall
    /\ UNCHANGED <<server, meter, orgId, chat, form, load, reset>>

Click ==
    \/ \E o \in Orgs : Pick(o)
    \/ ClearChat \/ Send
    \/ \E kind \in {"reset", "load"} : AskReset(kind)
    \/ TypeTone \/ TypeOther \/ SaveVoice
    \/ AddDoc \/ \E e \in kb.list : SaveDoc(e) \/ RemoveDoc(e)
Follows ==
    \/ DemoReset \/ AfterReset
    \/ Decide \/ Meter \/ Audit \/ Answer
    \/ WriteVoice
    \/ ReadLoad \/ ShowLoad \/ WriteKb \/ ReadReload \/ ShowReload
Next == \/ clicks < MaxClicks /\ clicks' = clicks + 1 /\ Click
        \/ clicks' = clicks /\ Follows

Spec == Init /\ [][Next]_vars

-----------------------------------------------------------------------------
(* Properties.                                                             *)

\* An answer that comes after a switch is put under another client's
\* transcript, and one that comes after the demo was rewritten under the next
\* walk-in's; but there is one at most, since one question is under way and
\* both clear the rest.  Only a rewrite that nobody was told of, or not yet,
\* leaves the walk-in's own answers on screen (Console.tsx:64-84, 86-110,
\* DemoReset.tsx:62-90).
OneStray ==
    /\ Cardinality({i \in DOMAIN turns : turns[i].from[1] # orgId}) <= 1
    /\ ~untold => Cardinality({i \in DOMAIN turns : turns[i].from # Now(orgId)}) <= 1

\* Once no save is under way the list is the one that is stored: a load is
\* answered to the client it was asked for or to nobody, and a save made before
\* a switch brings its list with it.  `stale' says which list is not, until the
\* next good one: it came for a client that was left, or was read before a
\* write that overtook it, or a write changed the documents and was answered
\* as failed, or to nobody (Console.tsx:525-584).
ListSettles ==
    kb.loaded /\ ~kb.stale /\ kbCall = NoCall => kb.list = Listing(orgId)

\* No document holds what was written for another client, whichever list it
\* was opened from (admin.ts:1033-1108).
DocsAreOwn == \A d \in Docs : docs[d].of \in Orgs => docs[d].text[1] = docs[d].of

\* Each cost on screen has a row of its own, unless a reset of the demo has
\* deleted it since; and of what was paid for, a run that failed hides two
\* calls at most (admin.ts:1217-1250, llm.ts:126-132, 0028:261-264).
SpentIsMetered ==
    /\ \A i \in DOMAIN turns : turns[i].cost = 1 =>
          /\ turns[i].row \in usage \cup erased
          /\ \A j \in DOMAIN turns \ {i} : turns[j].row # turns[i].row
    /\ paid <= billed + 2 * faults + (IF run.pc = "meter" THEN 1 ELSE 0)

\* A saved tone is replaced by one the operator wrote, and never by a blank she
\* never saw: nobody clears a tone here (Console.tsx:417-420).
ToneIsKept == \A o \in Orgs : tone[o] # Blank
=============================================================================
