------------------------------- MODULE Panel -------------------------------
(***************************************************************************)
(* The operator panel (workers/api/src/admin.ts): what a platform admin    *)
(* does to clients, logins, documents and flags.  A client is rows in      *)
(* Postgres, a login is GoTrue's, and no transaction spans the two, or two *)
(* statements of a handler.  So each admin's request is a little process   *)
(* that stops at every await; two of them interleave, and a call may fail  *)
(* with or without its effect.                                             *)
(*                                                                         *)
(* Abstracted: names, links and tokens, the audit rows but the one that is *)
(* read back (org_exported), validation of forms, and the attachments      *)
(* that go with a client (module Retention).  Single-row edits that touch  *)
(* none of this (template, test message, reset link) are left out.         *)
(***************************************************************************)
EXTENDS Integers, FiniteSets

CONSTANTS
    Orgs, Users,
    Admins,       \* platform admins on the first day
    OwnerOf,      \* clients of the first day and their owners
    KbLimit,      \* KB_DOC_LIMIT
    Doings,       \* the requests that are made
    MaxRequests,  \* bound: how many
    MaxFaults     \* bound: calls that fail

NoOrg == "no org"      \* users.org_id is null: a platform admin
Nobody == "nobody"     \* no users row
Open == "open"
Kinds == {"add", "role", "remove", "grant", "onboard", "export", "offboard", "kb", "resolve"}

ASSUME AdminsAssumption == Admins \subseteq Users /\ IsFiniteSet(Admins) /\ NoOrg \notin Orgs /\ Nobody \notin Orgs
ASSUME OwnersAssumption == OwnerOf \in [DOMAIN OwnerOf -> Users \ Admins] /\ DOMAIN OwnerOf \subseteq Orgs
ASSUME PanelBounds == /\ KbLimit \in Nat \ {0} /\ MaxRequests \in Nat /\ MaxFaults \in Nat
                      /\ Doings \subseteq Kinds

VARIABLES
    org,        \* organizations and wa_accounts: "never", "bare" without a number, "live", "gone"
    logins,     \* auth.users
    accepted,   \* those who have followed their link
    profile,    \* users: the client, or Nobody
    isAdmin,    \* users.is_platform_admin
    role,       \* org_members
    docs,       \* kb_documents: how many
    note,       \* a safety flag of each client: Open, or who resolved it
    logged,     \* audit_log has an org_exported row of this client
    req,        \* the request each admin has under way
    revoked,    \* history: admins whose flag another has taken
    strayed,    \* history: logins and clients that a failure has left half made
    budget      \* history: requests and faults so far

rows == <<org, logins, accepted, profile, isAdmin, role>>
vars == <<org, logins, accepted, profile, isAdmin, role, docs, note, logged, req, revoked,
          strayed, budget>>

Idle == [do |-> "none", pc |-> "idle", org |-> NoOrg, user |-> Nobody, as |-> "none",
         seen |-> {}]
Roles == {"none", "owner", "staff"}
Requests == [do : Kinds \cup {"none"}, org : Orgs \cup {NoOrg}, user : Users \cup {Nobody},
             as : Roles, seen : SUBSET Users,
             pc : {"idle", "link", "profile", "member", "rollback", "owners", "update", "audit",
                   "delete", "restore", "account", "undo", "check", "members", "logins", "count",
                   "insert"}]
Owners(o) == {u \in Users : role[u][o] = "owner"}
Live(o) == org[o] \in {"bare", "live"}

TypeOK ==
    /\ org \in [Orgs -> {"never", "bare", "live", "gone"}]
    /\ accepted \subseteq logins /\ logins \subseteq Users
    /\ profile \in [Users -> Orgs \cup {NoOrg, Nobody}]
    /\ {u \in Users : profile[u] # Nobody} \subseteq logins
    /\ isAdmin \in [Users -> BOOLEAN]
    /\ role \in [Users -> [Orgs -> Roles]]
    /\ \A u \in Users, o \in Orgs : role[u][o] # "none" => profile[u] # Nobody /\ Live(o)
    /\ docs \in [Orgs -> Nat] /\ revoked \subseteq Admins
    /\ note \in [Orgs -> Users \cup {Open}]
    /\ logged \in [Orgs -> BOOLEAN]
    /\ req \in [Admins -> Requests]
    /\ strayed \subseteq Users \cup Orgs
    /\ budget \in [requests : 0..MaxRequests, faults : 0..MaxFaults]

Init ==
    /\ org = [o \in Orgs |-> IF o \in DOMAIN OwnerOf THEN "live" ELSE "never"]
    /\ profile = [u \in Users |-> IF u \in Admins THEN NoOrg
                                  ELSE IF \E o \in DOMAIN OwnerOf : OwnerOf[o] = u
                                       THEN CHOOSE o \in DOMAIN OwnerOf : OwnerOf[o] = u ELSE Nobody]
    /\ logins = {u \in Users : profile[u] # Nobody} /\ accepted = logins
    /\ isAdmin = [u \in Users |-> u \in Admins]
    /\ role = [u \in Users |-> [o \in Orgs |-> IF profile[u] = o THEN "owner" ELSE "none"]]
    /\ docs = [o \in Orgs |-> 0] /\ revoked = {}
    /\ note = [o \in Orgs |-> Open] /\ logged = [o \in Orgs |-> FALSE]
    /\ req = [a \in Admins |-> Idle]
    /\ strayed = {} /\ budget = [requests |-> 0, faults |-> 0]

\* A call is answered with an error; whether it had its effect is its own affair.
Fails == budget.faults < MaxFaults /\ budget' = [budget EXCEPT !.faults = @ + 1]
Works == budget' = budget

Go(a, pc) == req' = [req EXCEPT ![a].pc = pc]
End(a) == req' = [req EXCEPT ![a] = Idle]
At(a, do, pc) == req[a].do \in do /\ req[a].pc = pc

-----------------------------------------------------------------------------
(* A request, from the button to the gate.                                 *)

\* authenticate and denyAdmin: a person with a membership is a member and no
\* admin, and the row is read once, before the handler.
Admitted(a) == /\ a \in logins /\ isAdmin[a]
               /\ \A o \in Orgs : role[a][o] = "none"
Ask(a, do, pc, o, u, as) ==
    /\ do \in Doings /\ req[a] = Idle /\ Admitted(a) /\ budget.requests < MaxRequests
    /\ budget' = [budget EXCEPT !.requests = @ + 1]
    /\ req' = [req EXCEPT ![a] = [Idle EXCEPT !.do = do, !.pc = pc, !.org = o, !.user = u, !.as = as]]
    /\ UNCHANGED <<rows, docs, note, logged, revoked, strayed>>

\* OrgUsers: an address and a role, or a button beside somebody listed, by a
\* list that may be old.
AskUsers(a) ==
    \E o \in Orgs, u \in Users \ Admins :
        \/ \E as \in {"owner", "staff"} : /\ org[o] \in {"live", "gone"}
                                          /\ Ask(a, "add", "link", o, u, as)
        \/ /\ role[u][o] = "owner" /\ Ask(a, "role", "owners", o, u, "staff")
        \/ /\ role[u][o] = "staff" /\ Ask(a, "role", "update", o, u, "owner")
        \/ /\ role[u][o] # "none" /\ Ask(a, "remove", "owners", o, u, "none")
\* PlatformAdmins.
AskGrant(a) == \E u \in Users, as \in {"owner", "none"} : Ask(a, "grant", "update", NoOrg, u, as)
\* OnboardClient, and Offboard with the name typed in.
AskOnboard(a) == \E o \in Orgs, u \in Users \ Admins :
                    org[o] = "never" /\ (\A b \in Admins : ~(req[b].do = "onboard" /\ req[b].org = o))
                    /\ Ask(a, "onboard", "insert", o, u, "owner")
AskOffboard(a) == \E o \in Orgs, do \in {"export", "offboard"} :
                     Live(o) /\ Ask(a, do, "check", o, Nobody, "none")
\* The training console's documents, and FlagQueue.
AskKb(a) == \E o \in Orgs : org[o] = "live" /\ Ask(a, "kb", "count", o, Nobody, "none")
AskResolve(a) == \E o \in Orgs : org[o] = "live" /\ Ask(a, "resolve", "update", o, Nobody, "none")

-----------------------------------------------------------------------------
(* Logins: POST, PATCH and DELETE /orgs/:orgId/users, and onboarding's.    *)

\* Everything that hangs on the login goes with it.
DropLogin(u) ==
    /\ logins' = logins \ {u} /\ accepted' = accepted \ {u}
    /\ profile' = [profile EXCEPT ![u] = Nobody] /\ isAdmin' = [isAdmin EXCEPT ![u] = FALSE]
    /\ role' = [role EXCEPT ![u] = [o \in Orgs |-> "none"]]
    /\ UNCHANGED org
KeepLogin == UNCHANGED rows

\* generateLink of kind invite: a new login, or another link for one who has not
\* followed the first; whoever has is refused.
Invite(a) ==
    /\ At(a, {"add", "onboard"}, "link")
    /\ LET u == req[a].user
           refused == IF req[a].do = "add" THEN End(a) ELSE Go(a, "audit")
       IN  \/ /\ u \notin accepted /\ Works
              /\ logins' = logins \cup {u} /\ Go(a, "profile") /\ UNCHANGED strayed
           \/ /\ u \in accepted /\ Works /\ refused /\ UNCHANGED <<logins, strayed>>
           \/ /\ Fails /\ refused /\ UNCHANGED <<logins, strayed>>
    /\ UNCHANGED <<org, accepted, profile, isAdmin, role, docs, note, logged, revoked>>

\* Mutant: the login is left when its rows could not be written.
NoRollback(a) == End(a)
\* The route for a user undoes the login; onboarding looks at no error and goes on.
Undo(a) == Go(a, "rollback")
AfterError(a, next) ==
    IF req[a].do = "add" THEN Undo(a) /\ UNCHANGED strayed
    ELSE Go(a, next) /\ strayed' = strayed \cup {req[a].user}
InsertProfile(a) ==
    /\ At(a, {"add", "onboard"}, "profile")
    /\ LET u == req[a].user  o == req[a].org
           fits == profile[u] = Nobody /\ u \in logins /\ Live(o)
           write == profile' = [profile EXCEPT ![u] = o]
       IN  \/ fits /\ Works /\ write /\ Go(a, "member") /\ UNCHANGED strayed
           \/ ~fits /\ Works /\ AfterError(a, "member") /\ UNCHANGED profile
           \/ Fails /\ ((write /\ fits) \/ UNCHANGED profile) /\ AfterError(a, "member")
    /\ UNCHANGED <<org, logins, accepted, isAdmin, role, docs, note, logged, revoked>>
\* The keys of org_members.
MayJoin(u, o) == profile[u] # Nobody /\ Live(o) /\ role[u][o] = "none"
InsertMember(a) ==
    /\ At(a, {"add", "onboard"}, "member")
    /\ LET u == req[a].user  o == req[a].org
           fits == MayJoin(u, o)
           write == role' = [role EXCEPT ![u][o] = req[a].as]
       IN  \/ fits /\ Works /\ write /\ Go(a, "audit") /\ UNCHANGED strayed
           \/ ~fits /\ Works /\ AfterError(a, "audit") /\ UNCHANGED role
           \/ Fails /\ ((write /\ fits) \/ UNCHANGED role) /\ AfterError(a, "audit")
    /\ UNCHANGED <<org, logins, accepted, profile, isAdmin, docs, note, logged, revoked>>
Rollback(a) ==
    /\ At(a, {"add"}, "rollback") /\ End(a)
    /\ \/ Works /\ DropLogin(req[a].user) /\ UNCHANGED strayed
       \/ Fails /\ KeepLogin /\ strayed' = strayed \cup {req[a].user}
    /\ UNCHANGED <<docs, note, logged, revoked>>

\* isLastOwner: a read whose error is not looked at, so that a failure finds no
\* owners at all and the request goes on.
IsLast(a, owners) == owners = {req[a].user}
ReadOwners(a) ==
    /\ At(a, {"role", "remove"}, "owners")
    /\ LET next == IF req[a].do = "role" THEN "update" ELSE "audit"
       IN  \/ Works /\ IF IsLast(a, Owners(req[a].org)) THEN End(a) ELSE Go(a, next)
           \/ Fails /\ Go(a, next)
    /\ UNCHANGED <<rows, docs, note, logged, revoked, strayed>>
UpdateRole(a) ==
    /\ At(a, {"role"}, "update")
    /\ LET u == req[a].user  o == req[a].org  there == role[u][o] # "none"
       IN  \/ /\ there /\ role' = [role EXCEPT ![u][o] = req[a].as]
              /\ (Works /\ Go(a, "audit")) \/ (Fails /\ End(a))
           \/ ((~there /\ Works) \/ Fails) /\ End(a) /\ UNCHANGED role
    /\ UNCHANGED <<org, logins, accepted, profile, isAdmin, docs, note, logged, revoked, strayed>>

\* Where the audit row comes after the write, its failure is a 500 about something
\* done; only a removal waits for it.
Audit(a) ==
    /\ req[a].pc = "audit"
    /\ LET next == IF req[a].do = "remove" THEN Go(a, "delete")
                   ELSE IF req[a].do = "offboard" THEN Go(a, "logins") ELSE End(a)
           o == req[a].org
       IN  \/ /\ Works /\ next
              /\ logged' = IF req[a].do = "export" THEN [logged EXCEPT ![o] = Live(o)] ELSE logged
           \/ Fails /\ End(a) /\ UNCHANGED logged
    /\ UNCHANGED <<rows, docs, note, revoked, strayed>>
DeleteUser(a) ==
    /\ At(a, {"remove"}, "delete") /\ End(a)
    /\ \/ Works /\ DropLogin(req[a].user)
       \/ Fails /\ (DropLogin(req[a].user) \/ KeepLogin)
    /\ UNCHANGED <<docs, note, logged, revoked, strayed>>

-----------------------------------------------------------------------------
(* POST /api/admin/platform-admins, by address.                            *)

\* Mutant: one's own flag is taken like anybody's.
NotOwn(a) == FALSE
Own(a) == req[a].as = "none" /\ req[a].user = a
UpdateAdmin(a) ==
    /\ At(a, {"grant"}, "update")
    /\ LET u == req[a].user  there == profile[u] # Nobody
       IN  \/ /\ there /\ isAdmin' = [isAdmin EXCEPT ![u] = (req[a].as = "owner")]
              /\ revoked' = IF u = a \/ u \notin Admins \/ isAdmin'[u] THEN revoked ELSE revoked \cup {u}
              /\ \/ Works /\ Go(a, IF Own(a) THEN "restore" ELSE "audit") /\ UNCHANGED strayed
                 \/ Fails /\ End(a) /\ strayed' = strayed \cup {u}
           \/ ((~there /\ Works) \/ Fails) /\ End(a) /\ UNCHANGED <<isAdmin, strayed, revoked>>
    /\ UNCHANGED <<org, logins, accepted, profile, role, docs, note, logged>>
\* Nobody looks whether the flag is really back.
RestoreOwn(a) ==
    /\ At(a, {"grant"}, "restore") /\ End(a)
    /\ \/ Works /\ isAdmin' = [isAdmin EXCEPT ![a] = TRUE] /\ UNCHANGED strayed
       \/ Fails /\ strayed' = strayed \cup {a} /\ UNCHANGED isAdmin
    /\ UNCHANGED <<org, logins, accepted, profile, role, docs, note, logged, revoked>>

-----------------------------------------------------------------------------
(* POST /api/admin/orgs: the client, its number, the subscription at Meta, *)
(* which only reports, the owner's login, and the panel with its secrets.  *)

InsertOrg(a) ==
    /\ At(a, {"onboard"}, "insert")
    /\ LET o == req[a].org
       IN  \/ Works /\ org' = [org EXCEPT ![o] = "bare"] /\ Go(a, "account") /\ UNCHANGED strayed
           \/ Fails /\ End(a) /\ UNCHANGED <<org, strayed>>
           \/ Fails /\ org' = [org EXCEPT ![o] = "bare"] /\ End(a) /\ strayed' = strayed \cup {o}
    /\ UNCHANGED <<logins, accepted, profile, isAdmin, role, docs, note, logged, revoked>>
\* The other admin may have deleted the client that she sees on the table.
InsertAccount(a) ==
    /\ At(a, {"onboard"}, "account")
    /\ LET o == req[a].org
       IN  \/ Live(o) /\ Works /\ org' = [org EXCEPT ![o] = "live"] /\ Go(a, "link")
           \/ ((~Live(o) /\ Works) \/ Fails) /\ Go(a, "undo") /\ UNCHANGED org
    /\ UNCHANGED <<logins, accepted, profile, isAdmin, role, docs, note, logged, revoked, strayed>>
\* organizations, and all that hangs on a client.
DropOrg(o) ==
    /\ org' = [org EXCEPT ![o] = "gone"]
    /\ profile' = [u \in Users |-> IF profile[u] = o THEN Nobody ELSE profile[u]]
    /\ isAdmin' = [u \in Users |-> isAdmin[u] /\ profile[u] # o]
    /\ role' = [u \in Users |-> IF profile[u] = o THEN [p \in Orgs |-> "none"]
                                ELSE [role[u] EXCEPT ![o] = "none"]]
    /\ docs' = [docs EXCEPT ![o] = 0] /\ note' = [note EXCEPT ![o] = Open]
    /\ logged' = [logged EXCEPT ![o] = FALSE]
    /\ UNCHANGED <<logins, accepted>>
UndoOrg(a) ==
    /\ At(a, {"onboard"}, "undo") /\ End(a)
    /\ \/ Works /\ DropOrg(req[a].org) /\ UNCHANGED strayed
       \/ Fails /\ strayed' = strayed \cup {req[a].org}
          /\ UNCHANGED <<rows, docs, note, logged>>
    /\ UNCHANGED revoked

-----------------------------------------------------------------------------
(* Export, then delete.                                                    *)

ExportRows(a) ==
    /\ At(a, {"export"}, "check")
    /\ (Works /\ Go(a, "audit")) \/ (Fails /\ End(a))
    /\ UNCHANGED <<rows, docs, note, logged, revoked, strayed>>
\* Mutant: anybody's export will do.
SomeExport(o) == \E p \in Orgs : logged[p]
Exported(o) == logged[o]
CheckExported(a) ==
    /\ At(a, {"offboard"}, "check")
    /\ \/ Works /\ IF Live(req[a].org) /\ Exported(req[a].org) THEN Go(a, "members") ELSE End(a)
       \/ Fails /\ End(a)
    /\ UNCHANGED <<rows, docs, note, logged, revoked, strayed>>
\* users by org_id, not org_members.
ReadMembers(a) ==
    /\ At(a, {"offboard"}, "members")
    /\ \/ /\ Works
          /\ req' = [req EXCEPT ![a].pc = "audit",
                                ![a].seen = {u \in Users : profile[u] = req[a].org}]
       \/ Fails /\ End(a)
    /\ UNCHANGED <<rows, docs, note, logged, revoked, strayed>>
\* One login after the other, and no answer is looked at.
DeleteLogins(a) ==
    /\ At(a, {"offboard"}, "logins")
    /\ \E u \in req[a].seen :
         /\ req' = [req EXCEPT ![a].seen = @ \ {u}]
         /\ \/ Works /\ DropLogin(u) /\ UNCHANGED strayed
            \/ Fails /\ KeepLogin /\ strayed' = strayed \cup {u}
    /\ UNCHANGED <<docs, note, logged, revoked>>
\* Whoever was added since the members were read keeps a login to nothing.
DeleteOrg(a) ==
    /\ At(a, {"offboard"}, "logins") /\ req[a].seen = {} /\ End(a)
    /\ \/ /\ Works /\ DropOrg(req[a].org)
          /\ strayed' = strayed \cup {u \in Users : profile[u] = req[a].org}
       \/ Fails /\ UNCHANGED <<rows, docs, note, logged, strayed>>
    /\ UNCHANGED revoked

-----------------------------------------------------------------------------
(* Documents and flags.                                                    *)

\* Mutant: one document too many.
OverLimit(n) == n > KbLimit
AtLimit(n) == n >= KbLimit
\* A failed count counts nothing.
CountDocs(a) ==
    /\ At(a, {"kb"}, "count")
    /\ \/ Works /\ IF AtLimit(docs[req[a].org]) THEN End(a) ELSE Go(a, "insert")
       \/ Fails /\ Go(a, "insert")
    /\ UNCHANGED <<rows, docs, note, logged, revoked, strayed>>
InsertDoc(a) ==
    /\ At(a, {"kb"}, "insert")
    /\ LET o == req[a].org
       IN  \/ Live(o) /\ Works /\ docs' = [docs EXCEPT ![o] = @ + 1] /\ Go(a, "audit")
           \/ Live(o) /\ Fails /\ docs' = [docs EXCEPT ![o] = @ + 1] /\ End(a)
           \/ ((~Live(o) /\ Works) \/ Fails) /\ End(a) /\ UNCHANGED docs
    /\ UNCHANGED <<rows, note, logged, revoked, strayed>>
\* DELETE of one, whose audit row changes nothing here.
DeleteDoc(o) ==
    /\ docs[o] > 0 /\ docs' = [docs EXCEPT ![o] = @ - 1]
    /\ UNCHANGED <<rows, note, logged, req, revoked, strayed, budget>>

OpenFlag(o) == Live(o) /\ note[o] = Open
ResolveFlag(a) ==
    /\ At(a, {"resolve"}, "update")
    /\ LET o == req[a].org  write == OpenFlag(o) /\ note' = [note EXCEPT ![o] = a]
       IN  \/ write /\ Works /\ Go(a, "audit")
           \/ ((~OpenFlag(o) /\ Works) \/ Fails) /\ End(a) /\ UNCHANGED note
           \/ write /\ Fails /\ End(a)
    /\ UNCHANGED <<rows, docs, logged, revoked, strayed>>

-----------------------------------------------------------------------------
(* Everybody else.                                                         *)

\* A person follows the link and sets a password.
Accept(u) ==
    /\ u \in logins \ accepted /\ accepted' = accepted \cup {u}
    /\ UNCHANGED <<org, logins, profile, isAdmin, role, docs, note, logged, req, revoked,
                   strayed, budget>>
Begin(a) == \/ AskUsers(a) \/ AskGrant(a) \/ AskOnboard(a) \/ AskOffboard(a)
            \/ AskKb(a) \/ AskResolve(a)
Step(a) == \/ Invite(a) \/ InsertProfile(a) \/ InsertMember(a) \/ Rollback(a)
           \/ ReadOwners(a) \/ UpdateRole(a) \/ Audit(a) \/ DeleteUser(a)
           \/ UpdateAdmin(a) \/ RestoreOwn(a)
           \/ InsertOrg(a) \/ InsertAccount(a) \/ UndoOrg(a)
           \/ ExportRows(a) \/ CheckExported(a) \/ ReadMembers(a) \/ DeleteLogins(a) \/ DeleteOrg(a)
           \/ CountDocs(a) \/ InsertDoc(a) \/ ResolveFlag(a)
Next == \/ \E a \in Admins : Begin(a) \/ Step(a)
        \/ \E u \in Users : Accept(u)
        \/ \E o \in Orgs : DeleteDoc(o)

Spec == Init /\ [][Next]_vars

-----------------------------------------------------------------------------
(* Properties.                                                             *)

\* A login that is somebody's: it has its row, and a client or the panel.
Homed(u) == profile[u] = NoOrg \/ \E o \in Orgs : profile[u] = o /\ role[u][o] # "none"
InHand(x) == \E a \in Admins :
    \/ req[a].user = x /\ req[a].pc \in {"profile", "member", "rollback"}
    \/ req[a].org = x /\ req[a].pc \in {"account", "undo"}
\* Nobody can sign in to nothing, and no client is without a number, but while a
\* handler is at it and after the failures that it does not make good.
NothingHalfMade == /\ \A u \in logins : Homed(u) \/ InHand(u) \/ u \in strayed
                   /\ \A o \in Orgs : org[o] = "bare" => InHand(o) \/ o \in strayed

\* No client is deleted that was never handed its data: the deletes of a failed
\* onboarding aside.  The export may be old; what was written since is lost.
ExportComesFirst ==
    [][\A o \in Orgs : Live(o) /\ org'[o] = "gone" => logged[o] \/ InHand(o)]_vars

\* Nobody loses the panel by her own hand.
NotByOwnHand ==
    \A a \in Admins : a \in logins /\ ~isAdmin[a] =>
        At(a, {"grant"}, "restore") \/ a \in strayed \/ a \in revoked

\* Uploads that counted before either had inserted go past the limit together, and
\* no further.
KbOverrun == \A o \in Orgs : docs[o] < KbLimit + Cardinality(Admins) + budget.faults
=============================================================================
