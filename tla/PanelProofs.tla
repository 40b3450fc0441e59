---------------------------- MODULE PanelProofs ----------------------------
(***************************************************************************)
(* What Panel promises, for any clients, users, admins, limit and          *)
(* failures: its types, that nobody is left with a login to nothing, that  *)
(* nobody locks herself out, that no client goes before its export, and    *)
(* that uploads pass the limit no further than they are under way.  At the *)
(* end, what the traffic light of ClientHealth says of any set of numbers. *)
(***************************************************************************)
EXTENDS Panel, ClientHealth, FiniteSetTheorems, TLAPS

\* A request knows whom and what it is about, and is where its handler goes.
Known(a, r) ==
    /\ r.do = "none" <=> r.pc = "idle"
    /\ r.do \in {"add", "role", "remove", "onboard"} => r.user \in Users \ Admins
    /\ r.do \in {"add", "role", "onboard"} => r.as # "none"
    /\ r.do \notin {"none", "grant"} => r.org \in Orgs
    /\ r.do = "grant" => r.user \in Users /\ r.as # "staff"
    /\ r.pc = "restore" => r.do = "grant" /\ r.user = a
    /\ r.pc \in {"link", "profile", "member"} => r.do \in {"add", "onboard"}
    /\ r.pc = "rollback" => r.do = "add"
    /\ r.pc \in {"account", "undo"} => r.do = "onboard"
    /\ r.pc \in {"members", "logins"} => r.do = "offboard"

TypeInv == TypeOK /\ \A a \in Admins : Known(a, req[a])

\* An admin is nobody's member, and people are members of what is there.
Members ==
    /\ \A a \in Admins : profile[a] \in {NoOrg, Nobody}
    /\ \A u \in Users : profile[u] \in Orgs => org[profile[u]] = "live"

\* One onboarding per client, and the client is as far as it has come.
Building(a, b) == /\ req[a].do = "onboard" /\ req[b].do = "onboard" /\ req[a].org = req[b].org
Onboarding ==
    /\ \A a, b \in Admins : Building(a, b) => a = b
    /\ \A a \in Admins :
         /\ req[a].do = "onboard" /\ req[a].pc = "insert" => org[req[a].org] = "never"
         /\ req[a].pc \in {"account", "undo"} => org[req[a].org] \in {"bare", "gone"}
         /\ req[a].pc \in {"link", "profile", "member"} => org[req[a].org] \in {"live", "gone"}

\* Who is at work on a login is at work on the client that its row names.
HeldBy(a, u) == /\ req[a].user = u
                /\ \/ req[a].pc \in {"profile", "rollback"}
                   \/ req[a].pc = "member" /\ req[a].org = profile[u]
Settled ==
    /\ \A u \in logins : Homed(u) \/ u \in strayed \/ \E a \in Admins : HeldBy(a, u)
    /\ \A o \in Orgs : org[o] = "bare" =>
         o \in strayed \/ \E a \in Admins : req[a].org = o /\ req[a].pc \in {"account", "undo"}

\* Whoever is past the check deletes a client that was exported, or has gone.
Offboarding == \A a \in Admins :
    req[a].do = "offboard" /\ req[a].pc \in {"members", "audit", "logins"} =>
        org[req[a].org] = "gone" \/ (Live(req[a].org) /\ logged[req[a].org])

\* Every upload that is past its count has its place reserved.
Uploading(o) == {a \in Admins : req[a].do = "kb" /\ req[a].pc = "insert" /\ req[a].org = o}
Reserved == \A o \in Orgs :
    docs[o] + Cardinality(Uploading(o)) < KbLimit + Cardinality(Admins) + budget.faults

-----------------------------------------------------------------------------
(* Requests.                                                               *)

Same(r, q) == r.do = q.do /\ r.org = q.org /\ r.user = q.user /\ r.as = q.as
Others(a) == \A b \in Admins \ {a} : req'[b] = req[b]

\* Where a request goes on.
LaterSteps == {"profile", "member", "rollback", "update", "audit", "delete", "restore",
               "account", "link", "undo", "members", "logins", "insert"}

\* A request whose call has been answered goes on, or ends.
LEMMA GoesOn ==
    ASSUME TypeInv, NEW a \in Admins,
           NEW pc \in LaterSteps, Go(a, pc)
    PROVE  /\ req' \in [Admins -> Requests] /\ Others(a)
           /\ req'[a].pc = pc /\ Same(req'[a], req[a]) /\ req'[a].seen = req[a].seen
<1>1. req \in [Admins -> Requests] /\ req[a] \in Requests
  BY DEF TypeInv, TypeOK
<1> DEFINE r == [req[a] EXCEPT !.pc = pc]
<1>2. r \in Requests /\ r.pc = pc /\ Same(r, req[a]) /\ r.seen = req[a].seen
  BY <1>1 DEF Requests, Same, LaterSteps
<1>3. req' = [req EXCEPT ![a] = r]
  BY DEF Go
<1> HIDE DEF r
<1> QED
  BY <1>1, <1>2, <1>3 DEF Others

LEMMA Ends ==
    ASSUME TypeInv, NEW a \in Admins, End(a)
    PROVE  /\ req' \in [Admins -> Requests] /\ Others(a) /\ req'[a] = Idle
           /\ req'[a].do = "none" /\ req'[a].pc = "idle"
<1>1. Idle \in Requests /\ Idle.do = "none" /\ Idle.pc = "idle"
  BY DEF Idle, Requests, Roles
<1> QED
  BY <1>1 DEF End, Others, TypeInv, TypeOK

\* Where a request begins.
FirstSteps == {"link", "owners", "update", "insert", "check", "count"}

LEMMA Asks ==
    ASSUME TypeInv, NEW a \in Admins, NEW do \in Kinds,
           NEW pc \in FirstSteps,
           NEW o \in Orgs \cup {NoOrg}, NEW u \in Users \cup {Nobody}, NEW as \in Roles,
           Ask(a, do, pc, o, u, as)
    PROVE  /\ req' \in [Admins -> Requests] /\ Others(a)
           /\ req'[a].do = do /\ req'[a].pc = pc /\ req'[a].org = o /\ req'[a].user = u
           /\ req'[a].as = as
<1> DEFINE k1 == [Idle EXCEPT !.do = do]
           k2 == [k1 EXCEPT !.pc = pc]
           k3 == [k2 EXCEPT !.org = o]
           k4 == [k3 EXCEPT !.user = u]
           k5 == [k4 EXCEPT !.as = as]
<1>1. req' = [req EXCEPT ![a] = k5]
  BY DEF Ask
<1>2. k1 \in Requests /\ k1.do = do
  BY DEF Idle, Requests, Roles
<1> HIDE DEF k1
<1>3. k2 \in Requests /\ k2.do = do /\ k2.pc = pc
  BY <1>2 DEF Requests, FirstSteps
<1> HIDE DEF k2
<1>4. k3 \in Requests /\ k3.do = do /\ k3.pc = pc /\ k3.org = o
  BY <1>3 DEF Requests
<1> HIDE DEF k3
<1>5. k4 \in Requests /\ k4.do = do /\ k4.pc = pc /\ k4.org = o /\ k4.user = u
  BY <1>4 DEF Requests
<1> HIDE DEF k4
<1>6. k5 \in Requests /\ k5.do = do /\ k5.pc = pc /\ k5.org = o /\ k5.user = u /\ k5.as = as
  BY <1>5 DEF Requests
<1> HIDE DEF k5
<1> QED
  BY <1>1, <1>6 DEF Others, TypeInv, TypeOK

\* A new request is of a shape that its handler expects.
LEMMA BeginReq ==
    ASSUME TypeInv, NEW a \in Admins, Begin(a)
    PROVE  /\ req' \in [Admins -> Requests] /\ Others(a) /\ Known(a, req'[a])
           /\ UNCHANGED <<rows, docs, note, logged, revoked, strayed>>
           /\ budget.requests < MaxRequests
           /\ budget' = [budget EXCEPT !.requests = @ + 1]
           /\ req[a] = Idle
           /\ req'[a].pc \in FirstSteps
           /\ req'[a].pc = "link" => org[req'[a].org] \in {"live", "gone"}
           /\ req'[a].pc = "insert" => org[req'[a].org] = "never"
           /\ req'[a].do = "onboard" =>
                req'[a].pc = "insert" /\ \A b \in Admins : ~(req[b].do = "onboard" /\ req[b].org = req'[a].org)
           /\ req'[a].do = "kb" => req'[a].pc = "count"
           /\ req'[a].do = "offboard" => req'[a].pc = "check"
<1> DEFINE Goal ==
           /\ req' \in [Admins -> Requests] /\ Others(a) /\ Known(a, req'[a])
           /\ UNCHANGED <<rows, docs, note, logged, revoked, strayed>>
           /\ budget.requests < MaxRequests
           /\ budget' = [budget EXCEPT !.requests = @ + 1]
           /\ req[a] = Idle
           /\ req'[a].pc \in FirstSteps
           /\ req'[a].pc = "link" => org[req'[a].org] \in {"live", "gone"}
           /\ req'[a].pc = "insert" => org[req'[a].org] = "never"
           /\ req'[a].do = "onboard" =>
                req'[a].pc = "insert" /\ \A b \in Admins : ~(req[b].do = "onboard" /\ req[b].org = req'[a].org)
           /\ req'[a].do = "kb" => req'[a].pc = "count"
           /\ req'[a].do = "offboard" => req'[a].pc = "check"
<1> HIDE DEF Goal
<1>1. ASSUME NEW do \in Kinds, NEW pc \in FirstSteps,
             NEW o \in Orgs \cup {NoOrg}, NEW u \in Users \cup {Nobody}, NEW as \in Roles,
             Ask(a, do, pc, o, u, as),
             do # "none", pc = "link" => org[o] \in {"live", "gone"} /\ do = "add",
             pc = "insert" => org[o] = "never",
             do = "onboard" => pc = "insert" /\ \A b \in Admins : ~(req[b].do = "onboard" /\ req[b].org = o),
             do = "kb" => pc = "count", do = "offboard" => pc = "check",
             do \in {"add", "role", "remove", "onboard"} => u \in Users \ Admins,
             do \in {"add", "role", "onboard"} => as # "none",
             do # "grant" => o \in Orgs, do = "grant" => u \in Users /\ as # "staff"
      PROVE  Goal
  <2>1. /\ req' \in [Admins -> Requests] /\ Others(a)
        /\ req'[a].do = do /\ req'[a].pc = pc /\ req'[a].org = o /\ req'[a].user = u
        /\ req'[a].as = as
    <3>1. Ask(a, do, pc, o, u, as)
      BY <1>1
    <3>2. /\ do \in Kinds /\ pc \in FirstSteps
          /\ o \in Orgs \cup {NoOrg} /\ u \in Users \cup {Nobody} /\ as \in Roles
      BY <1>1
    <3> QED
      BY <3>1, <3>2, Asks
  <2>2. Known(a, req'[a])
    BY <1>1, <2>1 DEF Known, Kinds, FirstSteps
  <2>3. /\ UNCHANGED <<rows, docs, note, logged, revoked, strayed>>
        /\ budget.requests < MaxRequests
        /\ budget' = [budget EXCEPT !.requests = @ + 1]
        /\ req[a] = Idle
    BY <1>1 DEF Ask
  <2> QED
    BY <1>1, <2>1, <2>2, <2>3 DEF Goal
<1>2. \A u \in Users \ Admins : u \in Users \cup {Nobody}
  OBVIOUS
<1>3. ASSUME AskUsers(a) PROVE Goal
  BY <1>1, <1>2, <1>3 DEF AskUsers, Kinds, Roles, FirstSteps
<1>4. ASSUME AskGrant(a) PROVE Goal
  BY <1>1, <1>4 DEF AskGrant, Kinds, Roles, FirstSteps
<1>5. ASSUME AskOnboard(a) PROVE Goal
  BY <1>1, <1>2, <1>5 DEF AskOnboard, Kinds, Roles, FirstSteps
<1>6. ASSUME AskOffboard(a) \/ AskKb(a) \/ AskResolve(a) PROVE Goal
  BY <1>1, <1>6 DEF AskOffboard, AskKb, AskResolve, Kinds, Roles, FirstSteps
<1> QED
  BY <1>3, <1>4, <1>5, <1>6 DEF Begin, Goal

\* A step of a handler moves its own request, which ends or stays about the same.
LEMMA StepReq ==
    ASSUME TypeInv, NEW a \in Admins, Step(a)
    PROVE  /\ req' \in [Admins -> Requests] /\ Others(a) /\ Known(a, req'[a])
           /\ req'[a].pc # "idle" => Same(req'[a], req[a])
<1> DEFINE Goal == /\ req' \in [Admins -> Requests] /\ Others(a) /\ Known(a, req'[a])
                   /\ req'[a].pc # "idle" => Same(req'[a], req[a])
<1> HIDE DEF Goal
<1>1. ASSUME End(a) PROVE Goal
  <2>1. /\ req' \in [Admins -> Requests] /\ Others(a)
        /\ req'[a].do = "none" /\ req'[a].pc = "idle"
    BY <1>1, Ends
  <2> QED
    BY <2>1 DEF Goal, Known
<1>2. ASSUME NEW pc \in LaterSteps, Go(a, pc), req[a].pc # "idle",
             pc = "restore" => req[a].do = "grant" /\ req[a].user = a,
             pc \in {"link", "profile", "member"} => req[a].do \in {"add", "onboard"},
             pc = "rollback" => req[a].do = "add",
             pc \in {"account", "undo"} => req[a].do = "onboard",
             pc \in {"members", "logins"} => req[a].do = "offboard"
      PROVE  Goal
  <2>1. pc \in LaterSteps /\ Go(a, pc) /\ pc # "idle"
    BY <1>2 DEF LaterSteps
  <2>2. /\ req' \in [Admins -> Requests] /\ Others(a)
        /\ req'[a].pc = pc /\ Same(req'[a], req[a])
    BY <2>1, GoesOn
  <2>3. Known(a, req[a])
    BY DEF TypeInv
  <2>4. Known(a, req'[a])
    BY <1>2, <2>1, <2>2, <2>3 DEF Known, Same
  <2> QED
    BY <2>2, <2>4 DEF Goal
<1>3. Known(a, req[a]) /\ req[a] \in Requests
  BY DEF TypeInv, TypeOK
<1>4. ASSUME Invite(a) PROVE Goal
  BY <1>1, <1>2, <1>4 DEF Invite, At, LaterSteps
<1>5. ASSUME InsertProfile(a) \/ InsertMember(a) PROVE Goal
  <2>1. \/ Go(a, "rollback") /\ req[a].do = "add"
        \/ Go(a, "member") \/ Go(a, "audit")
    BY <1>5 DEF InsertProfile, InsertMember, AfterError, Undo, At
  <2>2. req[a].do \in {"add", "onboard"} /\ req[a].pc # "idle"
    BY <1>5 DEF InsertProfile, InsertMember, At
  <2> QED
    BY <1>2, <2>1, <2>2 DEF LaterSteps
<1>6. ASSUME Rollback(a) \/ DeleteUser(a) \/ RestoreOwn(a) \/ UndoOrg(a) \/ DeleteOrg(a) PROVE Goal
  BY <1>1, <1>6 DEF Rollback, DeleteUser, RestoreOwn, UndoOrg, DeleteOrg
<1>7. ASSUME ReadOwners(a) \/ UpdateRole(a) PROVE Goal
  BY <1>1, <1>2, <1>7 DEF ReadOwners, UpdateRole, At, LaterSteps
<1>8. ASSUME Audit(a) PROVE Goal
  BY <1>1, <1>2, <1>8 DEF Audit, LaterSteps
<1>9. ASSUME UpdateAdmin(a) PROVE Goal
  BY <1>1, <1>2, <1>9 DEF UpdateAdmin, Own, At, LaterSteps
<1>10. ASSUME InsertOrg(a) \/ InsertAccount(a) PROVE Goal
  BY <1>1, <1>2, <1>10 DEF InsertOrg, InsertAccount, At, LaterSteps
<1>11. ASSUME ExportRows(a) \/ CheckExported(a) PROVE Goal
  BY <1>1, <1>2, <1>11 DEF ExportRows, CheckExported, At, LaterSteps
<1>12. ASSUME CountDocs(a) \/ InsertDoc(a) \/ ResolveFlag(a) PROVE Goal
  BY <1>1, <1>2, <1>12 DEF CountDocs, InsertDoc, ResolveFlag, At, LaterSteps
<1>13. ASSUME NEW r \in Requests, req' = [req EXCEPT ![a] = r], r.pc # "idle",
              Same(r, req[a]), r.pc \in {"audit", "logins"}, req[a].do = "offboard"
       PROVE  Goal
  <2>1. req' \in [Admins -> Requests] /\ Others(a) /\ req'[a] = r
    BY <1>13 DEF Others, TypeInv, TypeOK
  <2>2. Known(a, r)
    BY <1>3, <1>13 DEF Known, Same
  <2> QED
    BY <1>13, <2>1, <2>2 DEF Goal
<1>14. ASSUME ReadMembers(a), ~End(a) PROVE Goal
  <2> DEFINE who == {u \in Users : profile[u] = req[a].org}
             k == [req[a] EXCEPT !.pc = "audit"]
             r == [k EXCEPT !.seen = who]
  <2>1. req' = [req EXCEPT ![a].pc = "audit", ![a].seen = who] /\ req[a].do = "offboard"
    BY <1>14 DEF ReadMembers, At
  <2>2. who \in SUBSET Users
    OBVIOUS
  <2> HIDE DEF who
  <2>3. req' = [req EXCEPT ![a] = r]
    BY <1>3, <2>1 DEF TypeInv, TypeOK, Requests
  <2>4. k \in Requests /\ k.pc = "audit" /\ Same(k, req[a])
    BY <1>3 DEF Requests, Same
  <2> HIDE DEF k
  <2>5. r \in Requests /\ r.pc = "audit" /\ Same(r, req[a])
    BY <2>2, <2>4 DEF Requests, Same
  <2> HIDE DEF r
  <2> QED
    BY <1>13, <2>1, <2>3, <2>5
<1>15. ASSUME DeleteLogins(a) PROVE Goal
  <2>1. PICK u \in req[a].seen : req' = [req EXCEPT ![a].seen = @ \ {u}]
    BY <1>15 DEF DeleteLogins
  <2> DEFINE left == req[a].seen \ {u}
             r == [req[a] EXCEPT !.seen = left]
  <2>2. left \in SUBSET Users
    BY <1>3 DEF Requests
  <2>3. req' = [req EXCEPT ![a] = r]
    BY <1>3, <2>1 DEF TypeInv, TypeOK, Requests
  <2> HIDE DEF left
  <2>4. r \in Requests /\ r.pc = req[a].pc /\ Same(r, req[a])
    BY <1>3, <2>2 DEF Requests, Same
  <2>5. req[a].pc = "logins" /\ req[a].do = "offboard"
    BY <1>15 DEF DeleteLogins, At
  <2> HIDE DEF r
  <2> QED
    BY <1>13, <2>3, <2>4, <2>5
<1> QED
  BY <1>1, <1>4, <1>5, <1>6, <1>7, <1>8, <1>9, <1>10, <1>11, <1>12, <1>14, <1>15 DEF Step, Goal

-----------------------------------------------------------------------------
(* Types.                                                                  *)

RowTypes ==
    /\ org \in [Orgs -> {"never", "bare", "live", "gone"}]
    /\ accepted \subseteq logins /\ logins \subseteq Users
    /\ profile \in [Users -> Orgs \cup {NoOrg, Nobody}]
    /\ \A u \in Users : profile[u] # Nobody => u \in logins
    /\ isAdmin \in [Users -> BOOLEAN]
    /\ role \in [Users -> [Orgs -> Roles]]
    /\ \A u \in Users, o \in Orgs : role[u][o] # "none" => profile[u] # Nobody /\ Live(o)
OtherTypes ==
    /\ docs \in [Orgs -> Nat] /\ revoked \subseteq Admins
    /\ note \in [Orgs -> Users \cup {Open}]
    /\ logged \in [Orgs -> BOOLEAN]
    /\ strayed \subseteq Users \cup Orgs
    /\ budget \in [requests : 0..MaxRequests, faults : 0..MaxFaults]

LEMMA TypesSplit == TypeOK <=> RowTypes /\ OtherTypes /\ req \in [Admins -> Requests]
  BY DEF TypeOK, RowTypes, OtherTypes

\* The members of a role table that one entry has changed.
LEMMA RoleSet ==
    ASSUME RowTypes, NEW u \in Users, NEW o \in Orgs, NEW as \in Roles,
           role' = [role EXCEPT ![u][o] = as]
    PROVE  /\ role' \in [Users -> [Orgs -> Roles]]
           /\ role'[u][o] = as
           /\ \A v \in Users, p \in Orgs : v # u \/ p # o => role'[v][p] = role[v][p]
<1> DEFINE f == [role[u] EXCEPT ![o] = as]
<1>1. role[u] \in [Orgs -> Roles]
  BY DEF RowTypes
<1>2. f \in [Orgs -> Roles] /\ f[o] = as /\ \A p \in Orgs : p # o => f[p] = role[u][p]
  BY <1>1
<1>3. role' = [role EXCEPT ![u] = f]
  OBVIOUS
<1> HIDE DEF f
<1> QED
  BY <1>2, <1>3 DEF RowTypes

LEMMA RoleTypes ==
    ASSUME RowTypes, NEW u \in Users, NEW o \in Orgs, NEW as \in Roles, profile[u] # Nobody, Live(o),
           role' = [role EXCEPT ![u][o] = as], UNCHANGED <<org, logins, accepted, profile, isAdmin>>
    PROVE  RowTypes'
<1>1. /\ role' \in [Users -> [Orgs -> Roles]]
      /\ \A v \in Users, p \in Orgs : v # u \/ p # o => role'[v][p] = role[v][p]
  BY RoleSet
<1>2. \A p \in Orgs : Live(p)' <=> Live(p)
  BY DEF Live
<1>3. ASSUME NEW v \in Users, NEW p \in Orgs, role'[v][p] # "none"
      PROVE  profile'[v] # Nobody /\ Live(p)'
  <2>1. CASE v = u /\ p = o
    BY <1>2, <2>1
  <2>2. CASE v # u \/ p # o
    BY <1>1, <1>2, <1>3, <2>2 DEF RowTypes
  <2> QED
    BY <2>1, <2>2
<1> QED
  BY <1>1, <1>3 DEF RowTypes

\* Deleting a login.
LEMMA LoginGone ==
    ASSUME RowTypes, NEW u \in Users, DropLogin(u)
    PROVE  /\ RowTypes' /\ UNCHANGED org
           /\ logins' = logins \ {u} /\ profile'[u] = Nobody /\ isAdmin'[u] = FALSE
           /\ \A o \in Orgs : role'[u][o] = "none"
           /\ \A v \in Users \ {u} : /\ profile'[v] = profile[v] /\ isAdmin'[v] = isAdmin[v]
                                     /\ role'[v] = role[v]
<1> DEFINE none == [o \in Orgs |-> "none"]
<1>1. /\ logins' = logins \ {u} /\ accepted' = accepted \ {u} /\ org' = org
      /\ profile' = [profile EXCEPT ![u] = Nobody] /\ isAdmin' = [isAdmin EXCEPT ![u] = FALSE]
      /\ role' = [role EXCEPT ![u] = none]
  BY DEF DropLogin
<1>2. none \in [Orgs -> Roles] /\ \A o \in Orgs : none[o] = "none"
  BY DEF Roles
<1> HIDE DEF none
<1>3. role' \in [Users -> [Orgs -> Roles]] /\ role'[u] = none
      /\ \A v \in Users \ {u} : role'[v] = role[v]
  BY <1>1, <1>2 DEF RowTypes
<1>4. profile' \in [Users -> Orgs \cup {NoOrg, Nobody}] /\ profile'[u] = Nobody
      /\ \A v \in Users \ {u} : profile'[v] = profile[v]
  BY <1>1 DEF RowTypes
<1>5. isAdmin' \in [Users -> BOOLEAN] /\ isAdmin'[u] = FALSE
      /\ \A v \in Users \ {u} : isAdmin'[v] = isAdmin[v]
  BY <1>1 DEF RowTypes
<1>6. \A v \in Users, o \in Orgs : role'[v][o] # "none" => profile'[v] # Nobody /\ Live(o)'
  BY <1>1, <1>2, <1>3, <1>4 DEF RowTypes, Live
<1>7. \A v \in Users : profile'[v] # Nobody => v \in logins'
  BY <1>1, <1>4 DEF RowTypes
<1> QED
  BY <1>1, <1>2, <1>3, <1>4, <1>5, <1>6, <1>7 DEF RowTypes

\* Deleting a client.
LEMMA OrgGone ==
    ASSUME RowTypes, NEW o \in Orgs, DropOrg(o)
    PROVE  /\ RowTypes' /\ UNCHANGED logins
           /\ org'[o] = "gone" /\ \A p \in Orgs \ {o} : org'[p] = org[p]
           /\ \A u \in Users : profile'[u] = IF profile[u] = o THEN Nobody ELSE profile[u]
           /\ \A u \in Users : isAdmin'[u] = (isAdmin[u] /\ profile[u] # o)
           /\ \A u \in Users, p \in Orgs : p # o /\ profile[u] # o => role'[u][p] = role[u][p]
<1> DEFINE after(u) == IF profile[u] = o THEN [p \in Orgs |-> "none"]
                       ELSE [role[u] EXCEPT ![o] = "none"]
<1>1. /\ org' = [org EXCEPT ![o] = "gone"] /\ UNCHANGED <<logins, accepted>>
      /\ profile' = [u \in Users |-> IF profile[u] = o THEN Nobody ELSE profile[u]]
      /\ isAdmin' = [u \in Users |-> isAdmin[u] /\ profile[u] # o]
      /\ role' = [u \in Users |-> after(u)]
  BY DEF DropOrg
<1>2. ASSUME NEW u \in Users
      PROVE  /\ after(u) \in [Orgs -> Roles]
             /\ \A p \in Orgs : after(u)[p] = IF profile[u] = o \/ p = o THEN "none" ELSE role[u][p]
  <2>1. role[u] \in [Orgs -> Roles]
    BY DEF RowTypes
  <2> QED
    BY <2>1 DEF Roles
<1> HIDE DEF after
<1>3. /\ role' \in [Users -> [Orgs -> Roles]]
      /\ \A u \in Users, p \in Orgs :
           role'[u][p] = IF profile[u] = o \/ p = o THEN "none" ELSE role[u][p]
  BY <1>1, <1>2
<1>4. /\ profile' \in [Users -> Orgs \cup {NoOrg, Nobody}]
      /\ \A u \in Users : profile'[u] = IF profile[u] = o THEN Nobody ELSE profile[u]
  BY <1>1 DEF RowTypes
<1>5. org' \in [Orgs -> {"never", "bare", "live", "gone"}] /\ org'[o] = "gone"
      /\ \A p \in Orgs \ {o} : org'[p] = org[p]
  BY <1>1 DEF RowTypes
<1>6. \A v \in Users, p \in Orgs : role'[v][p] # "none" => profile'[v] # Nobody /\ Live(p)'
  BY <1>3, <1>4, <1>5 DEF RowTypes, Live
<1>7. isAdmin' \in [Users -> BOOLEAN] /\ \A u \in Users : isAdmin'[u] = (isAdmin[u] /\ profile[u] # o)
  BY <1>1 DEF RowTypes
<1>8. \A v \in Users : profile'[v] # Nobody => v \in logins'
  BY <1>1, <1>4 DEF RowTypes
<1> QED
  BY <1>1, <1>3, <1>4, <1>5, <1>6, <1>7, <1>8 DEF RowTypes

LEMMA RowsStep ==
    ASSUME TypeInv, NEW a \in Admins, Step(a)
    PROVE  RowTypes'
<1>1. /\ RowTypes /\ req[a] \in Requests /\ Known(a, req[a])
      /\ req[a].pc # "idle" /\ req[a].do \notin {"none", "grant"} => req[a].org \in Orgs
  BY TypesSplit DEF TypeInv, TypeOK, Known
<1> DEFINE u == req[a].user
           o == req[a].org
<1>2. ASSUME UNCHANGED rows PROVE RowTypes'
  BY <1>1, <1>2 DEF RowTypes, rows, Live
<1>3. ASSUME u \in Users, DropLogin(u) PROVE RowTypes'
  BY <1>1, <1>3, LoginGone
<1>4. ASSUME o \in Orgs, DropOrg(o) PROVE RowTypes'
  BY <1>1, <1>4, OrgGone
<1>5. ASSUME Invite(a) PROVE RowTypes'
  <2>1. u \in Users
    BY <1>1, <1>5 DEF Invite, At, Known
  <2>2. logins' \in {logins, logins \cup {u}} /\ UNCHANGED <<org, accepted, profile, isAdmin, role>>
    BY <1>5 DEF Invite
  <2> HIDE DEF u
  <2> QED
    BY <1>1, <2>1, <2>2 DEF RowTypes, Live
<1>6. ASSUME InsertProfile(a) PROVE RowTypes'
  <2>1. u \in Users /\ o \in Orgs
    BY <1>1, <1>6 DEF InsertProfile, At, Known
  <2>2. /\ UNCHANGED <<org, logins, accepted, isAdmin, role>>
        /\ \/ profile' = profile
           \/ profile' = [profile EXCEPT ![u] = o] /\ profile[u] = Nobody /\ u \in logins
    BY <1>6 DEF InsertProfile
  <2> HIDE DEF u, o
  <2>3. o # Nobody
    BY <2>1, AdminsAssumption
  <2> QED
    BY <1>1, <2>1, <2>2, <2>3 DEF RowTypes, Live

<1>8. ASSUME InsertMember(a) \/ UpdateRole(a) PROVE RowTypes'
  <2>1. u \in Users /\ o \in Orgs /\ req[a].as \in Roles
    BY <1>1, <1>8 DEF InsertMember, UpdateRole, At, Known, Requests
  <2>2. /\ UNCHANGED <<org, logins, accepted, profile, isAdmin>>
        /\ \/ role' = role
           \/ role' = [role EXCEPT ![u][o] = req[a].as] /\ (MayJoin(u, o) \/ role[u][o] # "none")
    BY <1>8 DEF InsertMember, UpdateRole
  <2>3. MayJoin(u, o) \/ role[u][o] # "none" => profile[u] # Nobody /\ Live(o)
    BY <1>1, <2>1 DEF MayJoin, RowTypes
  <2>4. CASE role' = role
    BY <1>2, <2>2, <2>4 DEF rows
  <2> HIDE DEF u, o
  <2> QED
    BY <1>1, <2>1, <2>2, <2>3, <2>4, RoleTypes
<1>9. ASSUME Rollback(a) \/ DeleteUser(a) PROVE RowTypes'
  <2>1. u \in Users
    BY <1>1, <1>9 DEF Rollback, DeleteUser, At, Known
  <2> QED
    BY <1>2, <1>3, <1>9, <2>1 DEF Rollback, DeleteUser, KeepLogin
<1>10. ASSUME UpdateAdmin(a) \/ RestoreOwn(a) PROVE RowTypes'
  <2>1. u \in Users /\ a \in Users
    BY <1>1, <1>10, AdminsAssumption DEF UpdateAdmin, RestoreOwn, At, Known
  <2>2. /\ UNCHANGED <<org, logins, accepted, profile, role>>
        /\ \/ isAdmin' = isAdmin \/ isAdmin' = [isAdmin EXCEPT ![a] = TRUE]
           \/ isAdmin' = [isAdmin EXCEPT ![u] = (req[a].as = "owner")]
    BY <1>10 DEF UpdateAdmin, RestoreOwn
  <2> HIDE DEF u
  <2>3. isAdmin' \in [Users -> BOOLEAN]
    BY <1>1, <2>1, <2>2 DEF RowTypes
  <2> QED
    BY <1>1, <2>2, <2>3 DEF RowTypes, Live
<1>11. ASSUME InsertOrg(a) \/ InsertAccount(a) PROVE RowTypes'
  <2>1. o \in Orgs
    BY <1>1, <1>11 DEF InsertOrg, InsertAccount, At, Known
  <2>2. /\ UNCHANGED <<logins, accepted, profile, isAdmin, role>>
        /\ \/ org' = org \/ org' = [org EXCEPT ![o] = "bare"] \/ org' = [org EXCEPT ![o] = "live"]
    BY <1>11 DEF InsertOrg, InsertAccount
  <2> HIDE DEF o
  <2> QED
    BY <1>1, <2>1, <2>2 DEF RowTypes, Live
<1>12. ASSUME UndoOrg(a) \/ DeleteOrg(a) PROVE RowTypes'
  <2>1. o \in Orgs
    BY <1>1, <1>12 DEF UndoOrg, DeleteOrg, At, Known
  <2> QED
    BY <1>2, <1>4, <1>12, <2>1 DEF UndoOrg, DeleteOrg
<1>13. ASSUME DeleteLogins(a) PROVE RowTypes'
  <2>1. PICK v \in req[a].seen : DropLogin(v) \/ KeepLogin
    BY <1>13 DEF DeleteLogins
  <2>2. v \in Users
    BY <1>1 DEF Requests
  <2>3. CASE KeepLogin
    BY <1>2, <2>3 DEF KeepLogin
  <2>4. CASE DropLogin(v)
    BY <1>1, <2>2, <2>4, LoginGone
  <2> QED
    BY <2>1, <2>3, <2>4
<1>14. ASSUME \/ ReadOwners(a) \/ Audit(a) \/ ExportRows(a) \/ CheckExported(a) \/ ReadMembers(a)
              \/ CountDocs(a) \/ InsertDoc(a) \/ ResolveFlag(a)
       PROVE  UNCHANGED rows
  BY <1>14 DEF ReadOwners, Audit, ExportRows, CheckExported, ReadMembers, CountDocs, InsertDoc, ResolveFlag
<1> QED
  BY <1>2, <1>5, <1>6, <1>8, <1>9, <1>10, <1>11, <1>12, <1>13, <1>14 DEF Step

\* Every step's calls are answered, rightly or with a failure that is counted.
LEMMA BudgetStep ==
    ASSUME TypeInv, NEW a \in Admins, Step(a)
    PROVE  /\ budget' = budget \/ (budget.faults < MaxFaults /\ budget' = [budget EXCEPT !.faults = @ + 1])
           /\ budget' \in [requests : 0..MaxRequests, faults : 0..MaxFaults]
           /\ budget'.faults \in Nat /\ budget.faults <= budget'.faults
<1>1. Works \/ Fails
  BY DEF Step, Invite, InsertProfile, InsertMember, Rollback, ReadOwners, UpdateRole, Audit,
     DeleteUser, UpdateAdmin, RestoreOwn, InsertOrg, InsertAccount, UndoOrg, ExportRows,
     CheckExported, ReadMembers, DeleteLogins, DeleteOrg, CountDocs, InsertDoc, ResolveFlag
<1>2. budget \in [requests : 0..MaxRequests, faults : 0..MaxFaults]
  BY DEF TypeInv, TypeOK
<1>3. CASE Works
  BY <1>2, <1>3, PanelBounds DEF Works
<1>4. CASE Fails
  BY <1>2, <1>4, PanelBounds DEF Fails
<1> QED
  BY <1>1, <1>3, <1>4 DEF Works, Fails

\* What only grows, and the tables that go with a client.
LEMMA HistoryStep ==
    ASSUME TypeInv, NEW a \in Admins, Step(a)
    PROVE  /\ revoked \subseteq revoked' /\ revoked' \subseteq Admins
           /\ strayed \subseteq strayed' /\ strayed' \subseteq Users \cup Orgs
<1>1. /\ RowTypes /\ OtherTypes /\ req[a] \in Requests /\ Known(a, req[a])
  BY TypesSplit DEF TypeInv, TypeOK
<1>2. revoked \subseteq Admins /\ strayed \subseteq Users \cup Orgs
  BY <1>1 DEF OtherTypes
<1>3. CASE Invite(a) \/ Rollback(a) \/ InsertProfile(a) \/ InsertMember(a)
  <2>1. req[a].user \in Users
    BY <1>1, <1>3 DEF Invite, Rollback, InsertProfile, InsertMember, At, Known
  <2>2. revoked' = revoked /\ strayed' \in {strayed, strayed \cup {req[a].user}}
    BY <1>3 DEF Invite, Rollback, InsertProfile, InsertMember, AfterError
  <2> QED
    BY <1>2, <2>1, <2>2
<1>4. CASE UpdateAdmin(a) \/ RestoreOwn(a)
  <2>1. req[a].user \in Users /\ a \in Users
    BY <1>1, <1>4, AdminsAssumption DEF UpdateAdmin, RestoreOwn, At, Known
  <2>2. /\ strayed' \in {strayed, strayed \cup {req[a].user}, strayed \cup {a}}
        /\ revoked' = revoked \/ (req[a].user \in Admins /\ revoked' = revoked \cup {req[a].user})
    BY <1>4 DEF UpdateAdmin, RestoreOwn
  <2> QED
    BY <1>2, <2>1, <2>2
<1>5. CASE InsertOrg(a) \/ UndoOrg(a)
  <2>1. req[a].org \in Orgs
    BY <1>1, <1>5 DEF InsertOrg, UndoOrg, At, Known
  <2>2. revoked' = revoked /\ strayed' \in {strayed, strayed \cup {req[a].org}}
    BY <1>5 DEF InsertOrg, UndoOrg
  <2> QED
    BY <1>2, <2>1, <2>2
<1>6. CASE DeleteLogins(a)
  <2>1. PICK u \in req[a].seen : strayed' \in {strayed, strayed \cup {u}}
    BY <1>6 DEF DeleteLogins
  <2>2. u \in Users /\ revoked' = revoked
    BY <1>1, <1>6 DEF DeleteLogins, Requests
  <2> QED
    BY <1>2, <2>1, <2>2
<1>7. CASE DeleteOrg(a)
  <2>1. /\ revoked' = revoked
        /\ \/ strayed' = strayed
           \/ strayed' = strayed \cup {u \in Users : profile[u] = req[a].org}
    BY <1>7 DEF DeleteOrg
  <2> QED
    BY <1>2, <2>1
<1>8. CASE \/ ReadOwners(a) \/ UpdateRole(a) \/ Audit(a) \/ DeleteUser(a) \/ InsertAccount(a)
           \/ ExportRows(a) \/ CheckExported(a) \/ ReadMembers(a)
           \/ CountDocs(a) \/ InsertDoc(a) \/ ResolveFlag(a)
  <2>1. UNCHANGED <<revoked, strayed>>
    BY <1>8 DEF ReadOwners, UpdateRole, Audit, DeleteUser, InsertAccount, ExportRows, CheckExported,
       ReadMembers, CountDocs, InsertDoc, ResolveFlag
  <2> QED
    BY <1>2, <2>1
<1> QED
  BY <1>3, <1>4, <1>5, <1>6, <1>7, <1>8 DEF Step

\* documents, flags and audit rows.
LEMMA TablesStep ==
    ASSUME TypeInv, NEW a \in Admins, Step(a)
    PROVE  /\ docs' \in [Orgs -> Nat]
           /\ note' \in [Orgs -> Users \cup {Open}]
           /\ logged' \in [Orgs -> BOOLEAN]
<1>1. /\ req[a] \in Requests /\ Known(a, req[a]) /\ a \in Users
      /\ docs \in [Orgs -> Nat] /\ note \in [Orgs -> Users \cup {Open}]
      /\ logged \in [Orgs -> BOOLEAN]
  BY AdminsAssumption DEF TypeInv, TypeOK
<1> DEFINE o == req[a].org
<1>2. CASE UndoOrg(a) \/ DeleteOrg(a)
  <2>1. \/ UNCHANGED <<docs, note, logged>>
        \/ /\ docs' = [docs EXCEPT ![o] = 0] /\ note' = [note EXCEPT ![o] = Open]
           /\ logged' = [logged EXCEPT ![o] = FALSE]
    BY <1>2 DEF UndoOrg, DeleteOrg, DropOrg
  <2> HIDE DEF o
  <2>2. docs' \in [Orgs -> Nat]
    BY <1>1, <2>1
  <2>3. note' \in [Orgs -> Users \cup {Open}]
    BY <1>1, <2>1
  <2>4. logged' \in [Orgs -> BOOLEAN]
    BY <1>1, <2>1
  <2> QED
    BY <2>2, <2>3, <2>4
<1>3. CASE InsertDoc(a) \/ Audit(a) \/ ResolveFlag(a)
  <2>1. /\ docs' = docs \/ docs' = [docs EXCEPT ![o] = @ + 1]
        /\ logged' = logged \/ logged' = [logged EXCEPT ![o] = Live(o)]
        /\ note' = note \/ note' = [note EXCEPT ![o] = a]
    BY <1>3 DEF InsertDoc, Audit, ResolveFlag
  <2>2. Live(o) \in BOOLEAN
    BY DEF Live
  <2> HIDE DEF o
  <2>3. docs' \in [Orgs -> Nat]
    BY <1>1, <2>1
  <2> QED
    BY <1>1, <2>1, <2>2, <2>3
<1>4. CASE ~(InsertDoc(a) \/ Audit(a) \/ ResolveFlag(a) \/ UndoOrg(a) \/ DeleteOrg(a))
  BY <1>1, <1>4 DEF Step, Invite, InsertProfile, InsertMember, Rollback, ReadOwners, UpdateRole,
     DeleteUser, UpdateAdmin, RestoreOwn, InsertOrg, InsertAccount, ExportRows,
     CheckExported, ReadMembers, DeleteLogins, CountDocs
<1> QED
  BY <1>2, <1>3, <1>4

LEMMA TypeNext == TypeInv /\ [Next]_vars => TypeInv'
<1> SUFFICES ASSUME TypeInv, [Next]_vars PROVE TypeInv'
  OBVIOUS
<1>1. TypeOK /\ RowTypes /\ OtherTypes /\ req \in [Admins -> Requests]
      /\ \A b \in Admins : Known(b, req[b])
  BY TypesSplit DEF TypeInv
<1>2. ASSUME UNCHANGED rows PROVE RowTypes'
  BY <1>1, <1>2 DEF RowTypes, rows, Live
<1>3. ASSUME RowTypes', OtherTypes', req' \in [Admins -> Requests], \A b \in Admins : Known(b, req'[b])
      PROVE  TypeInv'
  BY <1>3 DEF TypeInv, TypeOK, RowTypes, OtherTypes
<1>4. ASSUME NEW a \in Admins, Others(a), Known(a, req'[a]) PROVE \A b \in Admins : Known(b, req'[b])
  BY <1>1, <1>4 DEF Others
<1>5. ASSUME NEW a \in Admins, Begin(a) PROVE TypeInv'
  <2>1. /\ req' \in [Admins -> Requests] /\ Others(a) /\ Known(a, req'[a])
        /\ UNCHANGED <<rows, docs, note, logged, revoked, strayed>>
        /\ budget.requests < MaxRequests
        /\ budget' = [budget EXCEPT !.requests = @ + 1]
    BY <1>5, BeginReq
  <2>2. budget' \in [requests : 0..MaxRequests, faults : 0..MaxFaults]
    BY <1>1, <2>1, PanelBounds DEF OtherTypes
  <2>3. OtherTypes'
    BY <1>1, <2>1, <2>2 DEF OtherTypes
  <2> QED
    BY <1>2, <1>3, <1>4, <2>1, <2>3
<1>6. ASSUME NEW a \in Admins, Step(a) PROVE TypeInv'
  <2>1. RowTypes'
    BY <1>6, RowsStep
  <2>2. OtherTypes'
    BY <1>6, BudgetStep, HistoryStep, TablesStep DEF OtherTypes
  <2>3. req' \in [Admins -> Requests] /\ \A b \in Admins : Known(b, req'[b])
    BY <1>4, <1>6, StepReq
  <2> QED
    BY <1>3, <2>1, <2>2, <2>3
<1>7. ASSUME NEW u \in Users, Accept(u) PROVE TypeInv'
  <2>1. RowTypes'
    BY <1>1, <1>7 DEF Accept, RowTypes, Live
  <2> QED
    BY <1>1, <1>3, <1>7, <2>1 DEF Accept, OtherTypes
<1>8. ASSUME NEW o \in Orgs, DeleteDoc(o) PROVE TypeInv'
  <2>1. docs' \in [Orgs -> Nat]
    BY <1>1, <1>8 DEF DeleteDoc, OtherTypes
  <2> QED
    BY <1>1, <1>2, <1>3, <1>8, <2>1 DEF DeleteDoc, OtherTypes
<1>9. ASSUME UNCHANGED vars PROVE TypeInv'
  <2>1. UNCHANGED rows /\ UNCHANGED <<docs, note, logged, req, revoked, strayed, budget>>
    BY <1>9 DEF vars, rows
  <2> QED
    BY <1>1, <1>2, <1>3, <2>1 DEF OtherTypes
<1> QED
  BY <1>5, <1>6, <1>7, <1>8, <1>9 DEF Next

LEMMA TypeInit == Init => TypeInv
<1> SUFFICES ASSUME Init PROVE TypeInv
  OBVIOUS
<1>1. \A u \in Users : profile[u] = IF u \in Admins THEN NoOrg
                       ELSE IF \E o \in DOMAIN OwnerOf : OwnerOf[o] = u
                            THEN CHOOSE o \in DOMAIN OwnerOf : OwnerOf[o] = u ELSE Nobody
  BY DEF Init
<1>2. \A u \in Users : profile[u] \in DOMAIN OwnerOf \cup {NoOrg, Nobody}
  BY <1>1
<1>3. profile \in [Users -> Orgs \cup {NoOrg, Nobody}]
  BY <1>2, OwnersAssumption DEF Init
<1>4. \A u \in Users, o \in Orgs : role[u][o] = IF profile[u] = o THEN "owner" ELSE "none"
  BY DEF Init
<1>5. role \in [Users -> [Orgs -> Roles]]
  BY DEF Init, Roles
<1>6. ASSUME NEW u \in Users, NEW o \in Orgs, role[u][o] # "none"
      PROVE  profile[u] # Nobody /\ Live(o)
  <2>1. profile[u] = o
    BY <1>4, <1>6
  <2>2. o # Nobody /\ o # NoOrg
    BY AdminsAssumption
  <2>3. o \in DOMAIN OwnerOf
    BY <1>2, <2>1, <2>2
  <2>4. org[o] = "live"
    BY <2>3 DEF Init
  <2> QED
    BY <2>1, <2>2, <2>4 DEF Live
<1>7. logins = {u \in Users : profile[u] # Nobody} /\ accepted = logins
  BY DEF Init
<1>8. RowTypes
  BY <1>3, <1>5, <1>6, <1>7 DEF RowTypes, Init
<1>9. OtherTypes
  BY PanelBounds DEF Init, OtherTypes
<1>10. req \in [Admins -> Requests] /\ \A a \in Admins : Known(a, req[a])
  BY DEF Init, Idle, Requests, Roles, Known
<1> QED
  BY <1>8, <1>9, <1>10, TypesSplit DEF TypeInv

\* Every variable of the panel keeps its type; nobody has a login row without a login, or a
\* role without a row or in a client that is not there (the keys of users and org_members).
THEOREM PanelTypes == Spec => []TypeOK
<1>1. TypeInv => TypeOK
  BY DEF TypeInv
<1> QED
  BY <1>1, TypeInit, TypeNext, PTL DEF Spec

-----------------------------------------------------------------------------
(* Clients, and who is at work on them.                                    *)

StructInv == TypeInv /\ Members /\ Onboarding /\ Offboarding

\* A client is made, completed and deleted by the requests about it.
LEMMA OrgStep ==
    ASSUME StructInv, NEW a \in Admins, Step(a)
    PROVE  LET o == req[a].org
           IN  \/ org' = org
               \/ /\ req[a].do = "onboard" /\ req[a].pc = "insert" /\ o \in Orgs
                  /\ org[o] = "never" /\ org' = [org EXCEPT ![o] = "bare"] /\ UNCHANGED <<profile, logged>>
               \/ /\ req[a].do = "onboard" /\ req[a].pc = "account" /\ o \in Orgs
                  /\ Live(o) /\ org' = [org EXCEPT ![o] = "live"] /\ UNCHANGED <<profile, logged>>
               \/ /\ o \in Orgs /\ DropOrg(o) /\ org[o] # "never"
                  /\ \/ req[a].do = "onboard" /\ req[a].pc = "undo"
                     \/ req[a].do = "offboard" /\ req[a].pc = "logins"
<1>1. Known(a, req[a])
  BY DEF StructInv, TypeInv
<1>2. CASE InsertOrg(a)
  BY <1>1, <1>2 DEF InsertOrg, At, Known, StructInv, Onboarding
<1>3. CASE InsertAccount(a)
  BY <1>1, <1>3 DEF InsertAccount, At, Known
<1>4. CASE UndoOrg(a)
  BY <1>1, <1>4 DEF UndoOrg, At, Known, StructInv, Onboarding, rows
<1>5. CASE DeleteOrg(a)
  BY <1>1, <1>5 DEF DeleteOrg, At, Known, StructInv, Offboarding, rows, Live
<1>6. ASSUME NEW v, DropLogin(v) \/ KeepLogin PROVE org' = org
  BY <1>6 DEF DropLogin, KeepLogin, rows
<1>7. CASE Rollback(a) \/ DeleteUser(a) \/ DeleteLogins(a)
  BY <1>6, <1>7 DEF Rollback, DeleteUser, DeleteLogins
<1>8. CASE \/ Invite(a) \/ InsertProfile(a) \/ InsertMember(a) \/ ReadOwners(a) \/ UpdateRole(a)
           \/ Audit(a) \/ UpdateAdmin(a) \/ RestoreOwn(a)
  BY <1>8 DEF Invite, InsertProfile, InsertMember, ReadOwners, UpdateRole, Audit, UpdateAdmin, RestoreOwn, rows
<1>9. CASE \/ ExportRows(a) \/ CheckExported(a) \/ ReadMembers(a) \/ CountDocs(a) \/ InsertDoc(a)
           \/ ResolveFlag(a)
  BY <1>9 DEF ExportRows, CheckExported, ReadMembers, CountDocs, InsertDoc, ResolveFlag, rows
<1> QED
  BY <1>2, <1>3, <1>4, <1>5, <1>7, <1>8, <1>9 DEF Step

\* A login's row is written by the request about it, and names the client of that request.
LEMMA ProfileStep ==
    ASSUME StructInv, NEW a \in Admins, Step(a)
    PROVE  \A u \in Users :
             \/ profile'[u] = profile[u] \/ profile'[u] = Nobody
             \/ /\ u = req[a].user /\ req[a].pc = "profile" /\ profile[u] = Nobody /\ u \in logins
                /\ profile'[u] = req[a].org /\ Live(req[a].org) /\ UNCHANGED org
<1>1. RowTypes /\ req[a] \in Requests /\ Known(a, req[a])
  BY TypesSplit DEF StructInv, TypeInv, TypeOK
<1>2. ASSUME NEW v \in Users, DropLogin(v) \/ KeepLogin
      PROVE  \A u \in Users : profile'[u] = profile[u] \/ profile'[u] = Nobody
  BY <1>1, <1>2, LoginGone DEF KeepLogin, rows
<1>3. ASSUME DropOrg(req[a].org) \/ UNCHANGED rows
      PROVE  \A u \in Users : profile'[u] = profile[u] \/ profile'[u] = Nobody
  BY <1>3 DEF DropOrg, rows
<1>4. CASE InsertProfile(a)
  <2>1. req[a].user \in Users /\ req[a].org \in Orgs
    BY <1>1, <1>4 DEF InsertProfile, At, Known
  <2>2. /\ UNCHANGED org /\ req[a].pc = "profile"
        /\ \/ profile' = profile
           \/ /\ profile' = [profile EXCEPT ![req[a].user] = req[a].org]
              /\ profile[req[a].user] = Nobody /\ req[a].user \in logins /\ Live(req[a].org)
    BY <1>4 DEF InsertProfile, At
  <2> QED
    BY <1>1, <2>1, <2>2 DEF RowTypes
<1>5. CASE Rollback(a) \/ DeleteUser(a)
  <2>1. req[a].user \in Users
    BY <1>1, <1>5 DEF Rollback, DeleteUser, At, Known
  <2> QED
    BY <1>2, <1>5, <2>1 DEF Rollback, DeleteUser
<1>6. CASE DeleteLogins(a)
  <2>1. PICK v \in req[a].seen : DropLogin(v) \/ KeepLogin
    BY <1>6 DEF DeleteLogins
  <2>2. v \in Users
    BY <1>1 DEF Requests
  <2> QED
    BY <1>2, <2>1, <2>2
<1>7. CASE UndoOrg(a) \/ DeleteOrg(a)
  BY <1>3, <1>7 DEF UndoOrg, DeleteOrg
<1>8. CASE \/ Invite(a) \/ InsertMember(a) \/ ReadOwners(a) \/ UpdateRole(a) \/ Audit(a)
           \/ UpdateAdmin(a) \/ RestoreOwn(a) \/ InsertOrg(a) \/ InsertAccount(a)
  BY <1>8 DEF Invite, InsertMember, ReadOwners, UpdateRole, Audit, UpdateAdmin, RestoreOwn,
     InsertOrg, InsertAccount, rows
<1>9. CASE \/ ExportRows(a) \/ CheckExported(a) \/ ReadMembers(a) \/ CountDocs(a) \/ InsertDoc(a)
           \/ ResolveFlag(a)
  BY <1>9 DEF ExportRows, CheckExported, ReadMembers, CountDocs, InsertDoc, ResolveFlag, rows
<1> QED
  BY <1>4, <1>5, <1>6, <1>7, <1>8, <1>9 DEF Step

\* What an export has left in the audit log stays there for as long as the client is there.
LEMMA LoggedStep ==
    ASSUME StructInv, NEW a \in Admins, Step(a), NEW o \in Orgs
    PROVE  \/ logged'[o] = logged[o]
           \/ logged'[o] = Live(o) /\ UNCHANGED org
           \/ org'[o] = "gone"
<1>1. /\ Known(a, req[a]) /\ logged \in [Orgs -> BOOLEAN]
      /\ org \in [Orgs -> {"never", "bare", "live", "gone"}]
  BY DEF StructInv, TypeInv, TypeOK
<1>2. CASE Audit(a)
  <2>1. UNCHANGED org /\ (logged' = logged \/ logged' = [logged EXCEPT ![req[a].org] = Live(req[a].org)])
    BY <1>2 DEF Audit, rows
  <2> QED
    BY <1>1, <2>1
<1>3. CASE UndoOrg(a) \/ DeleteOrg(a)
  <2>1. \/ logged' = logged
        \/ /\ logged' = [logged EXCEPT ![req[a].org] = FALSE] /\ org' = [org EXCEPT ![req[a].org] = "gone"]
    BY <1>3 DEF UndoOrg, DeleteOrg, DropOrg
  <2> QED
    BY <1>1, <2>1
<1>4. CASE ~(Audit(a) \/ UndoOrg(a) \/ DeleteOrg(a))
  <2>1. logged' = logged
    BY <1>4 DEF Step, Invite, InsertProfile, InsertMember, Rollback, ReadOwners, UpdateRole,
       DeleteUser, UpdateAdmin, RestoreOwn, InsertOrg, InsertAccount, ExportRows,
       CheckExported, ReadMembers, DeleteLogins, CountDocs, InsertDoc, ResolveFlag
  <2> QED
    BY <2>1
<1> QED
  BY <1>2, <1>3, <1>4

\* Which step of its handler a request comes from.
LEMMA ComesFrom ==
    ASSUME TypeInv, NEW a \in Admins, Step(a)
    PROVE  LET o == req[a].org  pc == req[a].pc  next == req'[a].pc
           IN  /\ next = "account" => pc = "insert" /\ org' = [org EXCEPT ![o] = "bare"]
               /\ next = "undo" => pc = "account" /\ UNCHANGED org
               /\ next = "link" => pc = "account" /\ org' = [org EXCEPT ![o] = "live"]
               /\ next \in {"profile", "member"} => pc \in {"link", "profile"} /\ UNCHANGED org
               /\ next = "insert" => req[a].do = "kb" /\ pc = "count" /\ CountDocs(a)
               /\ next = "members" => pc = "check" /\ Live(o) /\ logged[o] /\ UNCHANGED <<org, logged>>
               /\ next \in {"audit", "logins"} /\ req[a].do = "offboard" =>
                    pc \in {"members", "audit", "logins"}
               /\ next = "restore" => UpdateAdmin(a) /\ Own(a)
<1> DEFINE Goal == LET o == req[a].org  pc == req[a].pc  next == req'[a].pc
           IN  /\ next = "account" => pc = "insert" /\ org' = [org EXCEPT ![o] = "bare"]
               /\ next = "undo" => pc = "account" /\ UNCHANGED org
               /\ next = "link" => pc = "account" /\ org' = [org EXCEPT ![o] = "live"]
               /\ next \in {"profile", "member"} => pc \in {"link", "profile"} /\ UNCHANGED org
               /\ next = "insert" => req[a].do = "kb" /\ pc = "count" /\ CountDocs(a)
               /\ next = "members" => pc = "check" /\ Live(o) /\ logged[o] /\ UNCHANGED <<org, logged>>
               /\ next \in {"audit", "logins"} /\ req[a].do = "offboard" =>
                    pc \in {"members", "audit", "logins"}
               /\ next = "restore" => UpdateAdmin(a) /\ Own(a)
<1> HIDE DEF Goal
<1>1. ASSUME End(a) PROVE Goal
  BY <1>1, Ends DEF Goal
<1>2. ASSUME NEW pc \in LaterSteps, Go(a, pc) PROVE req'[a].pc = pc
  BY <1>2, GoesOn
<1>3. ASSUME NEW pc \in LaterSteps, Go(a, pc),
             pc \notin {"account", "undo", "link", "profile", "member", "insert", "members", "restore"},
             req[a].do = "offboard" => req[a].pc \in {"members", "audit", "logins"}
      PROVE  Goal
  BY <1>2, <1>3 DEF Goal, LaterSteps
<1>4. ASSUME Invite(a) PROVE Goal
  <2>1. End(a) \/ Go(a, "audit") \/ (Go(a, "profile") /\ UNCHANGED org)
    BY <1>4 DEF Invite
  <2>2. req[a].pc = "link" /\ req[a].do # "offboard"
    BY <1>4 DEF Invite, At
  <2>3. ASSUME Go(a, "profile"), UNCHANGED org PROVE Goal
    <3>1. req'[a].pc = "profile"
      BY <1>2, <2>3 DEF LaterSteps
    <3> QED
      BY <2>2, <2>3, <3>1 DEF Goal
  <2> QED
    BY <1>1, <1>3, <2>1, <2>2, <2>3 DEF LaterSteps
<1>5. ASSUME InsertProfile(a) \/ InsertMember(a) PROVE Goal
  <2>1. \/ Go(a, "member") /\ req[a].pc = "profile" /\ UNCHANGED org
        \/ Go(a, "rollback") \/ Go(a, "audit")
    BY <1>5 DEF InsertProfile, InsertMember, AfterError, Undo, At
  <2>2. req[a].do # "offboard"
    BY <1>5 DEF InsertProfile, InsertMember, At
  <2>3. ASSUME Go(a, "member"), req[a].pc = "profile", UNCHANGED org PROVE Goal
    <3>1. req'[a].pc = "member"
      BY <1>2, <2>3 DEF LaterSteps
    <3> QED
      BY <2>3, <3>1 DEF Goal
  <2> QED
    BY <1>3, <2>1, <2>2, <2>3 DEF LaterSteps
<1>6. ASSUME Rollback(a) \/ DeleteUser(a) \/ RestoreOwn(a) \/ UndoOrg(a) \/ DeleteOrg(a) PROVE Goal
  BY <1>1, <1>6 DEF Rollback, DeleteUser, RestoreOwn, UndoOrg, DeleteOrg
<1>7. ASSUME ReadOwners(a) \/ UpdateRole(a) PROVE Goal
  BY <1>1, <1>3, <1>7 DEF ReadOwners, UpdateRole, At, LaterSteps
<1>8. ASSUME Audit(a) PROVE Goal
  BY <1>1, <1>3, <1>8 DEF Audit, LaterSteps
<1>9. ASSUME UpdateAdmin(a) PROVE Goal
  <2>1. End(a) \/ Go(a, "audit") \/ (Own(a) /\ Go(a, "restore"))
    BY <1>9 DEF UpdateAdmin
  <2>2. ASSUME Own(a), Go(a, "restore") PROVE Goal
    <3>1. req'[a].pc = "restore"
      BY <1>2, <2>2 DEF LaterSteps
    <3> QED
      BY <1>9, <2>2, <3>1 DEF Goal
  <2>3. req[a].do = "grant"
    BY <1>9 DEF UpdateAdmin, At
  <2> QED
    BY <1>1, <1>3, <2>1, <2>2, <2>3 DEF LaterSteps
<1>10. ASSUME InsertOrg(a) PROVE Goal
  <2>1. \/ End(a)
        \/ Go(a, "account") /\ org' = [org EXCEPT ![req[a].org] = "bare"] /\ req[a].pc = "insert"
    BY <1>10 DEF InsertOrg, At
  <2>2. ASSUME Go(a, "account"), org' = [org EXCEPT ![req[a].org] = "bare"], req[a].pc = "insert"
        PROVE  Goal
    <3>1. req'[a].pc = "account"
      BY <1>2, <2>2 DEF LaterSteps
    <3> QED
      BY <2>2, <3>1 DEF Goal
  <2> QED
    BY <1>1, <2>1, <2>2
<1>11. ASSUME InsertAccount(a) PROVE Goal
  <2>1. /\ req[a].pc = "account"
        /\ \/ Go(a, "link") /\ org' = [org EXCEPT ![req[a].org] = "live"]
           \/ Go(a, "undo") /\ UNCHANGED org
    BY <1>11 DEF InsertAccount, At
  <2>2. ASSUME Go(a, "link") /\ org' = [org EXCEPT ![req[a].org] = "live"] PROVE Goal
    <3>1. req'[a].pc = "link"
      BY <1>2, <2>2 DEF LaterSteps
    <3> QED
      BY <2>1, <2>2, <3>1 DEF Goal
  <2>3. ASSUME Go(a, "undo") /\ UNCHANGED org PROVE Goal
    <3>1. req'[a].pc = "undo"
      BY <1>2, <2>3 DEF LaterSteps
    <3> QED
      BY <2>1, <2>3, <3>1 DEF Goal
  <2> QED
    BY <2>1, <2>2, <2>3
<1>12. ASSUME ExportRows(a) PROVE Goal
  BY <1>1, <1>3, <1>12 DEF ExportRows, At, LaterSteps
<1>13. ASSUME CheckExported(a) PROVE Goal
  <2>1. \/ End(a)
        \/ /\ Go(a, "members") /\ req[a].pc = "check" /\ Live(req[a].org) /\ logged[req[a].org]
           /\ UNCHANGED <<org, logged>>
    BY <1>13 DEF CheckExported, At, Exported, rows
  <2>2. ASSUME Go(a, "members"), req[a].pc = "check", Live(req[a].org), logged[req[a].org],
               UNCHANGED <<org, logged>>
        PROVE  Goal
    <3>1. req'[a].pc = "members"
      BY <1>2, <2>2 DEF LaterSteps
    <3> QED
      BY <2>2, <3>1 DEF Goal
  <2> QED
    BY <1>1, <2>1, <2>2
<1>14. ASSUME ReadMembers(a) PROVE Goal
  <2>1. End(a) \/ (req[a].pc = "members" /\ req'[a].pc = "audit")
    BY <1>14 DEF ReadMembers, At, TypeInv, TypeOK, Requests
  <2> QED
    BY <1>1, <2>1 DEF Goal
<1>15. ASSUME DeleteLogins(a) PROVE Goal
  <2>1. req[a].pc = "logins" /\ req'[a].pc = "logins"
    BY <1>15 DEF DeleteLogins, At, TypeInv, TypeOK, Requests
  <2> QED
    BY <2>1 DEF Goal
<1>16. ASSUME CountDocs(a) PROVE Goal
  <2>1. End(a) \/ (Go(a, "insert") /\ req[a].do = "kb" /\ req[a].pc = "count")
    BY <1>16 DEF CountDocs, At
  <2>2. ASSUME Go(a, "insert"), req[a].do = "kb", req[a].pc = "count" PROVE Goal
    <3>1. req'[a].pc = "insert"
      BY <1>2, <2>2 DEF LaterSteps
    <3> QED
      BY <1>16, <2>2, <3>1 DEF Goal
  <2> QED
    BY <1>1, <2>1, <2>2
<1>17. ASSUME InsertDoc(a) \/ ResolveFlag(a) PROVE Goal
  BY <1>1, <1>3, <1>17 DEF InsertDoc, ResolveFlag, At, LaterSteps
<1> QED
  BY <1>4, <1>5, <1>6, <1>7, <1>8, <1>9, <1>10, <1>11, <1>12, <1>13, <1>14, <1>15, <1>16, <1>17
     DEF Step, Goal

LEMMA MembersStep ==
    ASSUME StructInv, NEW a \in Admins, Step(a)
    PROVE  Members'
<1>1. /\ Known(a, req[a]) /\ Members /\ Onboarding /\ Admins \subseteq Users
      /\ NoOrg \notin Orgs /\ Nobody \notin Orgs
      /\ org \in [Orgs -> {"never", "bare", "live", "gone"}]
  BY AdminsAssumption DEF StructInv, TypeInv, TypeOK
<1>2. \A u \in Users :
        \/ profile'[u] = profile[u] \/ profile'[u] = Nobody
        \/ /\ u = req[a].user /\ req[a].pc = "profile"
           /\ profile'[u] = req[a].org /\ Live(req[a].org) /\ UNCHANGED org
  BY ProfileStep
<1>3. ASSUME NEW b \in Admins PROVE profile'[b] \in {NoOrg, Nobody}
  <2>1. ~(b = req[a].user /\ req[a].pc = "profile")
    BY <1>1 DEF Known
  <2>2. profile[b] \in {NoOrg, Nobody}
    BY <1>1 DEF Members
  <2> QED
    BY <1>1, <1>2, <2>1, <2>2
<1>4. ASSUME NEW u \in Users, profile'[u] \in Orgs PROVE org'[profile'[u]] = "live"
  <2>1. CASE profile'[u] = profile[u]
    <3>1. org[profile[u]] = "live" /\ profile[u] \in Orgs
      BY <1>1, <1>4, <2>1 DEF Members
    <3>2. CASE org' = org
      BY <2>1, <3>1, <3>2
    <3>3. CASE \E o \in Orgs : /\ \/ org' = [org EXCEPT ![o] = "bare"] /\ org[o] = "never"
                                  \/ org' = [org EXCEPT ![o] = "live"]
      BY <1>1, <2>1, <3>1, <3>3
    <3>4. CASE \E o \in Orgs : DropOrg(o)
      <4>1. PICK o \in Orgs : DropOrg(o)
        BY <3>4
      <4>2. /\ org' = [org EXCEPT ![o] = "gone"]
            /\ profile'[u] = IF profile[u] = o THEN Nobody ELSE profile[u]
        BY <4>1 DEF DropOrg
      <4> QED
        BY <1>1, <1>4, <2>1, <3>1, <4>2
    <3> QED
      BY <3>2, <3>3, <3>4, OrgStep
  <2>2. CASE profile'[u] = Nobody
    BY <1>1, <1>4, <2>2
  <2>3. CASE /\ req[a].pc = "profile" /\ profile'[u] = req[a].org
             /\ Live(req[a].org) /\ UNCHANGED org
    BY <1>1, <2>3 DEF Onboarding, Live
  <2> QED
    BY <1>2, <2>1, <2>2, <2>3
<1> QED
  BY <1>3, <1>4 DEF Members

\* A client under construction is left to the one who builds it, but for its deletion.
LEMMA OnboardingStep ==
    ASSUME StructInv, NEW a \in Admins, Step(a)
    PROVE  Onboarding'
<1>1. /\ \A b \in Admins : Known(b, req[b])
      /\ Onboarding
      /\ org \in [Orgs -> {"never", "bare", "live", "gone"}]
  BY DEF StructInv, TypeInv, TypeOK
<1>2. /\ \A b \in Admins \ {a} : req'[b] = req[b]
      /\ Known(a, req'[a]) /\ (req'[a].pc # "idle" => Same(req'[a], req[a]))
  BY StepReq DEF Others, StructInv
<1>3. \A b \in Admins : req'[b].do = "onboard" => req[b].do = "onboard" /\ req'[b].org = req[b].org
  BY <1>1, <1>2 DEF Known, Same
<1>4. \A b, c \in Admins : Building(b, c)' => b = c
  BY <1>1, <1>3 DEF Onboarding, Building
<1> DEFINE o == req[a].org
<1>5. \/ org' = org
      \/ req[a].do = "onboard" /\ o \in Orgs /\ org[o] = "never" /\ org' = [org EXCEPT ![o] = "bare"]
      \/ req[a].do = "onboard" /\ o \in Orgs /\ Live(o) /\ org' = [org EXCEPT ![o] = "live"]
      \/ o \in Orgs /\ org[o] # "never" /\ org' = [org EXCEPT ![o] = "gone"]
  BY OrgStep DEF DropOrg
<1>6. ASSUME NEW b \in Admins \ {a}
      PROVE  /\ req'[b].do = "onboard" /\ req'[b].pc = "insert" => org'[req'[b].org] = "never"
             /\ req'[b].pc \in {"account", "undo"} => org'[req'[b].org] \in {"bare", "gone"}
             /\ req'[b].pc \in {"link", "profile", "member"} => org'[req'[b].org] \in {"live", "gone"}
  <2>1. req'[b] = req[b] /\ ~Building(a, b)
    BY <1>1, <1>2, <1>6 DEF Onboarding
  <2>2. ASSUME req[b].do = "onboard" /\ req[b].pc = "insert" PROVE org'[req[b].org] = "never"
    <3>1. org[req[b].org] = "never" /\ req[b].org \in Orgs
      BY <1>1, <1>6, <2>2 DEF Onboarding, Known
    <3>2. ~(req[a].do = "onboard" /\ o = req[b].org)
      BY <2>1, <2>2 DEF Building
    <3> HIDE DEF o
    <3> QED
      BY <1>1, <1>5, <3>1, <3>2
  <2>3. ASSUME req[b].pc \in {"account", "undo"} PROVE org'[req[b].org] \in {"bare", "gone"}
    <3>1. org[req[b].org] \in {"bare", "gone"} /\ req[b].org \in Orgs /\ req[b].do = "onboard"
      BY <1>1, <1>6, <2>3 DEF Onboarding, Known
    <3>2. ~(req[a].do = "onboard" /\ o = req[b].org)
      BY <2>1, <3>1 DEF Building
    <3> HIDE DEF o
    <3> QED
      BY <1>1, <1>5, <3>1, <3>2
  <2>4. ASSUME req[b].pc \in {"link", "profile", "member"} PROVE org'[req[b].org] \in {"live", "gone"}
    <3>1. org[req[b].org] \in {"live", "gone"} /\ req[b].org \in Orgs
      BY <1>1, <1>6, <2>4 DEF Onboarding, Known
    <3> HIDE DEF o
    <3> QED
      BY <1>1, <1>5, <3>1
  <2> QED
    BY <2>1, <2>2, <2>3, <2>4
<1>7. /\ req'[a].do = "onboard" /\ req'[a].pc = "insert" => org'[req'[a].org] = "never"
      /\ req'[a].pc \in {"account", "undo"} => org'[req'[a].org] \in {"bare", "gone"}
      /\ req'[a].pc \in {"link", "profile", "member"} => org'[req'[a].org] \in {"live", "gone"}
  <2>1. /\ req'[a].pc = "account" => org' = [org EXCEPT ![o] = "bare"]
        /\ req'[a].pc = "undo" => req[a].pc = "account" /\ UNCHANGED org
        /\ req'[a].pc = "link" => org' = [org EXCEPT ![o] = "live"]
        /\ req'[a].pc \in {"profile", "member"} => req[a].pc \in {"link", "profile"} /\ UNCHANGED org
        /\ req'[a].pc = "insert" => req[a].do = "kb"
    BY ComesFrom DEF StructInv
  <2>2. req'[a].pc # "idle" => req'[a].org = o /\ req'[a].do = req[a].do
    BY <1>2 DEF Same
  <2>3. req'[a].pc \in {"account", "undo", "link", "profile", "member"} => o \in Orgs
    BY <1>2, <2>2 DEF Known
  <2>4. /\ req[a].pc = "account" => org[o] \in {"bare", "gone"}
        /\ req[a].pc \in {"link", "profile"} => org[o] \in {"live", "gone"}
    BY <1>1 DEF Onboarding
  <2> HIDE DEF o
  <2> QED
    BY <1>1, <2>1, <2>2, <2>3, <2>4
<1> QED
  BY <1>4, <1>6, <1>7 DEF Onboarding

LEMMA OffboardingStep ==
    ASSUME StructInv, NEW a \in Admins, Step(a)
    PROVE  Offboarding'
<1>1. /\ \A b \in Admins : Known(b, req[b])
      /\ Offboarding /\ logged \in [Orgs -> BOOLEAN]
      /\ org \in [Orgs -> {"never", "bare", "live", "gone"}]
  BY DEF StructInv, TypeInv, TypeOK
<1>2. /\ \A b \in Admins \ {a} : req'[b] = req[b]
      /\ Known(a, req'[a]) /\ (req'[a].pc # "idle" => Same(req'[a], req[a]))
  BY StepReq DEF Others, StructInv
<1>3. \/ org' = org
      \/ \E p \in Orgs : org[p] = "never" /\ org' = [org EXCEPT ![p] = "bare"]
      \/ \E p \in Orgs : Live(p) /\ org' = [org EXCEPT ![p] = "live"]
      \/ \E p \in Orgs : org' = [org EXCEPT ![p] = "gone"]
  BY OrgStep DEF DropOrg
<1>4. ASSUME NEW o \in Orgs, org[o] = "gone" \/ (Live(o) /\ logged[o])
      PROVE  org'[o] = "gone" \/ (org'[o] \in {"bare", "live"} /\ logged'[o])
  <2>1. org[o] = "gone" => org'[o] = "gone"
    BY <1>1, <1>3 DEF Live
  <2>2. Live(o) => org'[o] \in {"bare", "live", "gone"}
    BY <1>1, <1>3 DEF Live
  <2>3. \/ logged'[o] = logged[o] \/ logged'[o] = Live(o) \/ org'[o] = "gone"
    BY LoggedStep
  <2> QED
    BY <1>4, <2>1, <2>2, <2>3
<1>5. ASSUME NEW b \in Admins, req'[b].do = "offboard", req'[b].pc \in {"members", "audit", "logins"}
      PROVE  org'[req'[b].org] = "gone" \/ (org'[req'[b].org] \in {"bare", "live"} /\ logged'[req'[b].org])
  <2>1. req[b].do = "offboard" /\ req'[b].org = req[b].org /\ req[b].org \in Orgs
    <3>1. req[b].do = "offboard" /\ req'[b].org = req[b].org
      BY <1>2, <1>5 DEF Same
    <3> QED
      BY <1>1, <3>1 DEF Known
  <2>2. CASE req[b].pc \in {"members", "audit", "logins"}
    BY <1>1, <1>4, <2>1, <2>2 DEF Offboarding
  <2>3. CASE b = a /\ req'[a].pc = "members"
    <3>1. Live(req[a].org) /\ logged[req[a].org] /\ UNCHANGED <<org, logged>>
      BY <2>3, ComesFrom DEF StructInv
    <3> QED
      BY <2>1, <2>3, <3>1 DEF Live
  <2>4. CASE b = a /\ req'[a].pc \in {"audit", "logins"}
    <3>1. req[a].pc \in {"members", "audit", "logins"}
      BY <2>1, <2>4, ComesFrom DEF StructInv
    <3> QED
      BY <2>2, <2>4, <3>1
  <2> QED
    BY <1>2, <1>5, <2>2, <2>3, <2>4
<1> QED
  BY <1>5 DEF Offboarding, Live

\* What changes no client, no row and no request's client keeps all three.
LEMMA StructNext == StructInv /\ [Next]_vars => StructInv'
<1> SUFFICES ASSUME StructInv, [Next]_vars PROVE StructInv'
  OBVIOUS
<1>1. TypeInv' /\ TypeInv /\ Members /\ Onboarding /\ Offboarding
  BY TypeNext DEF StructInv
<1>2. ASSUME NEW a \in Admins, Step(a) PROVE StructInv'
  BY <1>1, <1>2, MembersStep, OnboardingStep, OffboardingStep DEF StructInv
<1>3. ASSUME NEW a \in Admins, Begin(a) PROVE StructInv'
  <2>1. /\ \A b \in Admins \ {a} : req'[b] = req[b]
        /\ Known(a, req'[a]) /\ UNCHANGED <<org, profile, logged>>
        /\ req'[a].pc \in FirstSteps
        /\ req'[a].pc = "link" => org[req'[a].org] \in {"live", "gone"}
        /\ req'[a].pc = "insert" => org[req'[a].org] = "never"
        /\ req'[a].do = "onboard" =>
             req'[a].pc = "insert" /\ \A b \in Admins : ~(req[b].do = "onboard" /\ req[b].org = req'[a].org)
        /\ req'[a].do = "offboard" => req'[a].pc = "check"
    BY <1>1, <1>3, BeginReq DEF Others, rows
  <2>2. Members'
    BY <1>1, <2>1 DEF Members
  <2>3. Onboarding'
    BY <1>1, <2>1 DEF Onboarding, Building, FirstSteps
  <2>4. Offboarding'
    BY <1>1, <2>1 DEF Offboarding, Live
  <2> QED
    BY <1>1, <2>2, <2>3, <2>4 DEF StructInv
<1>4. ASSUME UNCHANGED <<org, profile, logged, req>> PROVE StructInv'
  BY <1>1, <1>4 DEF StructInv, Members, Onboarding, Building, Offboarding, Live
<1>5. ASSUME NEW u \in Users, Accept(u) PROVE StructInv'
  BY <1>4, <1>5 DEF Accept
<1>6. ASSUME NEW o \in Orgs, DeleteDoc(o) PROVE StructInv'
  BY <1>4, <1>6 DEF DeleteDoc, rows
<1>7. ASSUME UNCHANGED vars PROVE StructInv'
  BY <1>4, <1>7 DEF vars
<1> QED
  BY <1>2, <1>3, <1>5, <1>6, <1>7 DEF Next

LEMMA StructInit == Init => StructInv
<1> SUFFICES ASSUME Init PROVE StructInv
  OBVIOUS
<1>1. \A a \in Admins : req[a] = Idle
  BY DEF Init
<1>2. Onboarding /\ Offboarding
  BY <1>1 DEF Onboarding, Building, Offboarding, Idle
<1>3. \A u \in Users : profile[u] = IF u \in Admins THEN NoOrg
                       ELSE IF \E o \in DOMAIN OwnerOf : OwnerOf[o] = u
                            THEN CHOOSE o \in DOMAIN OwnerOf : OwnerOf[o] = u ELSE Nobody
  BY DEF Init
<1>4. \A u \in Users : profile[u] \in DOMAIN OwnerOf \cup {NoOrg, Nobody}
  BY <1>3
<1>5. \A u \in Users : profile[u] \in Orgs => org[profile[u]] = "live"
  BY <1>4, AdminsAssumption DEF Init
<1>6. \A a \in Admins : profile[a] = NoOrg
  BY <1>3, AdminsAssumption
<1> QED
  BY <1>2, <1>5, <1>6, TypeInit DEF StructInv, Members

LEMMA StructAlways == Spec => []StructInv
  BY StructInit, StructNext, PTL DEF Spec

\* No client is deleted that was never handed its data, the deletes of a failed onboarding
\* aside: the check of the audit log holds until the delete, whatever the other admins do
\* (admin.ts, POST /orgs/:orgId/offboard).
THEOREM ClientsAreExportedFirst == Spec => ExportComesFirst
<1>1. ASSUME StructInv, [Next]_vars, NEW o \in Orgs, Live(o), org'[o] = "gone"
      PROVE  logged[o] \/ InHand(o)
  <2>1. org' # org /\ org \in [Orgs -> {"never", "bare", "live", "gone"}]
    BY <1>1 DEF Live, StructInv, TypeInv, TypeOK
  <2>2. PICK a \in Admins : Step(a)
    <3>1. UNCHANGED rows => org' = org
      BY DEF rows
    <3>2. \A a \in Admins : Begin(a) => UNCHANGED rows
      BY <1>1, BeginReq DEF StructInv
    <3> QED
      BY <1>1, <2>1, <3>1, <3>2 DEF Next, Accept, DeleteDoc, vars
  <2>3. /\ req[a].org = o
        /\ \/ req[a].do = "onboard" /\ req[a].pc = "undo"
           \/ req[a].do = "offboard" /\ req[a].pc = "logins"
    BY <1>1, <2>1, <2>2, OrgStep DEF DropOrg, Live
  <2>4. CASE req[a].pc = "undo"
    BY <2>3, <2>4 DEF InHand
  <2>5. CASE req[a].do = "offboard" /\ req[a].pc = "logins"
    BY <1>1, <2>3, <2>5 DEF StructInv, Offboarding, Live
  <2> QED
    BY <2>3, <2>4, <2>5
<1>2. StructInv /\ [Next]_vars =>
        [\A o \in Orgs : Live(o) /\ org'[o] = "gone" => logged[o] \/ InHand(o)]_vars
  BY <1>1
<1> QED
  BY <1>2, StructAlways, PTL DEF Spec, ExportComesFirst

-----------------------------------------------------------------------------
(* The flag of an admin.                                                   *)

\* An admin's flag is changed by nothing but the requests about it, and nobody invites an admin.
LEMMA FlagStep ==
    ASSUME StructInv, NEW a \in Admins, Step(a), NEW b \in Admins, b \in logins'
    PROVE  /\ b \in logins
           /\ ~(UpdateAdmin(a) \/ RestoreOwn(a)) => isAdmin'[b] = isAdmin[b]
<1>1. /\ RowTypes /\ req[a] \in Requests /\ Known(a, req[a]) /\ b \in Users /\ Members
      /\ NoOrg \notin Orgs /\ Nobody \notin Orgs
  BY TypesSplit, AdminsAssumption DEF StructInv, TypeInv, TypeOK
<1>2. ASSUME NEW v \in Users, DropLogin(v) \/ KeepLogin
      PROVE  b \in logins /\ isAdmin'[b] = isAdmin[b]
  <2>1. CASE DropLogin(v)
    BY <1>1, <2>1, LoginGone
  <2>2. CASE KeepLogin
    BY <2>2 DEF KeepLogin, rows
  <2> QED
    BY <1>2, <2>1, <2>2
<1>3. CASE Rollback(a) \/ DeleteUser(a)
  <2>1. req[a].user \in Users
    BY <1>1, <1>3 DEF Rollback, DeleteUser, At, Known
  <2> QED
    BY <1>2, <1>3, <2>1 DEF Rollback, DeleteUser
<1>4. CASE DeleteLogins(a)
  <2>1. PICK v \in req[a].seen : DropLogin(v) \/ KeepLogin
    BY <1>4 DEF DeleteLogins
  <2>2. v \in Users
    BY <1>1 DEF Requests
  <2> QED
    BY <1>2, <2>1, <2>2
<1>5. CASE UndoOrg(a) \/ DeleteOrg(a)
  <2>1. /\ req[a].org \in Orgs /\ (DropOrg(req[a].org) \/ UNCHANGED rows)
    BY <1>1, <1>5 DEF UndoOrg, DeleteOrg, At, Known
  <2>2. profile[b] # req[a].org
    BY <1>1, <2>1 DEF Members
  <2>3. CASE DropOrg(req[a].org)
    <3>1. UNCHANGED logins /\ isAdmin'[b] = (isAdmin[b] /\ profile[b] # req[a].org)
      BY <1>1, <2>1, <2>3, OrgGone
    <3>2. isAdmin[b] \in BOOLEAN
      BY <1>1 DEF RowTypes
    <3> QED
      BY <2>2, <3>1, <3>2
  <2>4. CASE UNCHANGED rows
    BY <2>4 DEF rows
  <2> QED
    BY <2>1, <2>3, <2>4
<1>6. CASE Invite(a)
  <2>1. logins' \in {logins, logins \cup {req[a].user}} /\ UNCHANGED isAdmin
    BY <1>6 DEF Invite
  <2>2. req[a].user \notin Admins
    BY <1>1, <1>6 DEF Invite, At, Known
  <2> QED
    BY <2>1, <2>2
<1>7. CASE UpdateAdmin(a) \/ RestoreOwn(a)
  BY <1>7 DEF UpdateAdmin, RestoreOwn
<1>8. CASE \/ InsertProfile(a) \/ InsertMember(a) \/ ReadOwners(a) \/ UpdateRole(a) \/ Audit(a)
           \/ InsertOrg(a) \/ InsertAccount(a)
  BY <1>8 DEF InsertProfile, InsertMember, ReadOwners, UpdateRole, Audit, InsertOrg, InsertAccount, rows
<1>9. CASE \/ ExportRows(a) \/ CheckExported(a) \/ ReadMembers(a) \/ CountDocs(a) \/ InsertDoc(a)
           \/ ResolveFlag(a)
  BY <1>9 DEF ExportRows, CheckExported, ReadMembers, CountDocs, InsertDoc, ResolveFlag, rows
<1> QED
  BY <1>3, <1>4, <1>5, <1>6, <1>7, <1>8, <1>9 DEF Step

LEMMA OwnHandStep ==
    ASSUME StructInv, NotByOwnHand, NEW a \in Admins, Step(a)
    PROVE  NotByOwnHand'
<1> SUFFICES ASSUME NEW b \in Admins, b \in logins', ~isAdmin'[b]
             PROVE  At(b, {"grant"}, "restore")' \/ b \in strayed' \/ b \in revoked'
  BY DEF NotByOwnHand
<1>1. /\ RowTypes /\ req[a] \in Requests /\ Known(a, req[a]) /\ b \in Users /\ a \in Users
  BY TypesSplit, AdminsAssumption DEF StructInv, TypeInv, TypeOK
<1>2. revoked \subseteq revoked' /\ strayed \subseteq strayed'
  BY HistoryStep DEF StructInv
<1>3. \A c \in Admins \ {a} : req'[c] = req[c]
  BY StepReq DEF StructInv, Others
<1>4. b \in logins
  BY FlagStep
<1>5. CASE isAdmin'[b] = isAdmin[b] /\ ~(b = a /\ RestoreOwn(a))
  <2>1. At(b, {"grant"}, "restore") \/ b \in strayed \/ b \in revoked
    BY <1>4, <1>5 DEF NotByOwnHand
  <2>2. ASSUME At(b, {"grant"}, "restore") PROVE b # a
    <3>1. SUFFICES ASSUME b = a PROVE FALSE
      OBVIOUS
    <3>2. req[a].do = "grant" /\ req[a].pc = "restore" /\ ~RestoreOwn(a)
      BY <1>5, <2>2, <3>1 DEF At
    <3> QED
      BY <3>2 DEF Step, Invite, InsertProfile, InsertMember, Rollback, ReadOwners, UpdateRole, Audit,
         DeleteUser, UpdateAdmin, InsertOrg, InsertAccount, UndoOrg, ExportRows,
         CheckExported, ReadMembers, DeleteLogins, DeleteOrg, CountDocs, InsertDoc, ResolveFlag, At
  <2> QED
    BY <1>2, <1>3, <2>1, <2>2 DEF At
<1>6. CASE RestoreOwn(a) /\ b = a
  <2>1. isAdmin' = [isAdmin EXCEPT ![a] = TRUE] \/ a \in strayed'
    BY <1>6 DEF RestoreOwn
  <2> QED
    BY <1>1, <1>6, <2>1 DEF RowTypes
<1>7. CASE RestoreOwn(a) /\ b # a
  <2>1. isAdmin' = [isAdmin EXCEPT ![a] = TRUE] \/ isAdmin' = isAdmin
    BY <1>7 DEF RestoreOwn
  <2>2. isAdmin'[b] = isAdmin[b]
    BY <1>1, <1>7, <2>1 DEF RowTypes
  <2> QED
    BY <1>5, <1>7, <2>2
<1>8. CASE UpdateAdmin(a) /\ isAdmin'[b] # isAdmin[b]
  <2> DEFINE u == req[a].user
  <2>1. u \in Users /\ req[a].do = "grant" /\ req[a].as \in {"owner", "none"}
    BY <1>1, <1>8 DEF UpdateAdmin, At, Known, Requests, Roles
  <2>2. /\ isAdmin' = [isAdmin EXCEPT ![u] = (req[a].as = "owner")]
        /\ revoked' = IF u = a \/ u \notin Admins \/ isAdmin'[u] THEN revoked ELSE revoked \cup {u}
        /\ Go(a, IF Own(a) THEN "restore" ELSE "audit") \/ u \in strayed'
    BY <1>8 DEF UpdateAdmin
  <2>3. b = u /\ req[a].as = "none"
    BY <1>1, <1>8, <2>1, <2>2 DEF RowTypes
  <2>4. CASE b # a
    BY <2>2, <2>3, <2>4
  <2>5. CASE b = a /\ Go(a, "restore")
    <3>1. req'[a].pc = "restore" /\ req'[a].do = req[a].do
      BY <2>5, GoesOn DEF StructInv, LaterSteps, Same
    <3> QED
      BY <2>1, <2>5, <3>1 DEF At
  <2> QED
    BY <2>2, <2>3, <2>4, <2>5 DEF Own
<1> QED
  BY <1>5, <1>6, <1>7, <1>8, FlagStep

\* Nobody loses the panel by her own hand: while she is signed up, an admin whose flag is not
\* set is about to have it set again, or another took it, or a call failed half way (admin.ts,
\* POST /platform-admins takes the caller's own flag first and then gives it back).
THEOREM NobodyLocksHerselfOut == Spec => []NotByOwnHand
<1>1. Init => NotByOwnHand
  BY AdminsAssumption DEF Init, NotByOwnHand
<1>2. StructInv /\ NotByOwnHand /\ [Next]_vars => NotByOwnHand'
  <2> SUFFICES ASSUME StructInv, NotByOwnHand, [Next]_vars PROVE NotByOwnHand'
    OBVIOUS
  <2>1. ASSUME NEW a \in Admins, Begin(a) PROVE NotByOwnHand'
    <3>1. /\ UNCHANGED <<logins, isAdmin, strayed, revoked>> /\ req[a] = Idle
          /\ \A b \in Admins \ {a} : req'[b] = req[b]
      BY <2>1, BeginReq DEF StructInv, Others, rows
    <3> QED
      BY <3>1 DEF NotByOwnHand, At, Idle
  <2>2. ASSUME UNCHANGED <<logins, isAdmin, strayed, revoked, req>> PROVE NotByOwnHand'
    BY <2>2 DEF NotByOwnHand, At
  <2>3. ASSUME NEW u \in Users, Accept(u) PROVE NotByOwnHand'
    BY <2>2, <2>3 DEF Accept
  <2>4. ASSUME NEW o \in Orgs, DeleteDoc(o) PROVE NotByOwnHand'
    BY <2>2, <2>4 DEF DeleteDoc, rows
  <2>5. ASSUME UNCHANGED vars PROVE NotByOwnHand'
    BY <2>2, <2>5 DEF vars
  <2> QED
    BY <2>1, <2>3, <2>4, <2>5, OwnHandStep DEF Next
<1> QED
  BY <1>1, <1>2, StructAlways, PTL DEF Spec

-----------------------------------------------------------------------------
(* Documents past the limit.                                               *)

LEMMA UploadsAreFinite ==
    /\ \A o \in Orgs : IsFiniteSet(Uploading(o)) /\ Cardinality(Uploading(o)) \in Nat
                       /\ Cardinality(Uploading(o)) <= Cardinality(Admins)
    /\ Cardinality(Admins) \in Nat
<1>1. \A o \in Orgs : Uploading(o) \subseteq Admins
  BY DEF Uploading
<1> QED
  BY <1>1, AdminsAssumption, FS_Subset, FS_CardinalityType

\* Who is past the count, after a step.
LEMMA UploadingStep ==
    ASSUME TypeInv, NEW a \in Admins, Step(a), NEW o \in Orgs
    PROVE  /\ ~CountDocs(a) => Uploading(o)' = Uploading(o) \ {a}
           /\ CountDocs(a) => Uploading(o)' \in {Uploading(o) \ {a}, Uploading(o) \cup {a}}
           /\ req'[a].pc # "insert" \/ req[a].org # o => Uploading(o)' = Uploading(o) \ {a}
<1>1. /\ \A b \in Admins \ {a} : req'[b] = req[b]
      /\ req'[a].pc # "idle" => Same(req'[a], req[a])
  BY StepReq DEF Others
<1>2. req'[a].pc = "insert" => CountDocs(a)
  BY ComesFrom
<1> QED
  BY <1>1, <1>2 DEF Uploading, Same

LEMMA ReservedStep ==
    ASSUME TypeInv, Reserved, NEW a \in Admins, Step(a)
    PROVE  Reserved'
<1> SUFFICES ASSUME NEW o \in Orgs
             PROVE  docs'[o] + Cardinality(Uploading(o)') < KbLimit + Cardinality(Admins) + budget'.faults
  BY DEF Reserved
<1> DEFINE before == Uploading(o)
           after == Uploading(o)'
           n == Cardinality(before)
           m == Cardinality(after)
           all == Cardinality(Admins)
<1>1. /\ docs \in [Orgs -> Nat] /\ req[a] \in Requests /\ Known(a, req[a])
      /\ budget \in [requests : 0..MaxRequests, faults : 0..MaxFaults]
  BY DEF TypeInv, TypeOK
<1>2. /\ budget' = budget \/ (budget.faults < MaxFaults /\ budget' = [budget EXCEPT !.faults = @ + 1])
      /\ budget'.faults \in Nat /\ budget.faults <= budget'.faults
      /\ budget.faults \in Nat
  BY <1>1, BudgetStep
<1>3. IsFiniteSet(before) /\ n \in Nat /\ n <= all /\ all \in Nat /\ KbLimit \in Nat
  BY UploadsAreFinite, PanelBounds
<1>4. docs[o] + n < KbLimit + all + budget.faults
  BY DEF Reserved
<1>5. after \subseteq Admins /\ m \in Nat /\ m <= all
  <2>1. after \subseteq Admins
    BY DEF Uploading
  <2> HIDE DEF after
  <2> QED
    BY <2>1, AdminsAssumption, FS_Subset, FS_CardinalityType
<1>6. after = before \ {a} => m = IF a \in before THEN n - 1 ELSE n
  <2> HIDE DEF before, after
  <2> QED
    BY <1>3, FS_RemoveElement DEF n, m
<1>7. after = before \cup {a} => m <= n + 1
  <2> HIDE DEF before, after
  <2>1. Cardinality(before \cup {a}) = IF a \in before THEN n ELSE n + 1
    BY <1>3, FS_AddElement DEF n
  <2> QED
    BY <1>3, <2>1 DEF n, m
<1>8. /\ ~CountDocs(a) => after = before \ {a}
      /\ CountDocs(a) => after \in {before \ {a}, before \cup {a}}
      /\ req'[a].pc # "insert" \/ req[a].org # o => after = before \ {a}
  BY UploadingStep
<1>9. a \in before <=> req[a].do = "kb" /\ req[a].pc = "insert" /\ req[a].org = o
  BY DEF Uploading
<1>10. docs'[o] \in Nat
  BY TablesStep
<1> HIDE DEF before, after, n, m, all
<1>11. CASE CountDocs(a)
  <2>1. docs' = docs
    BY <1>11 DEF CountDocs
  <2>2. CASE after = before \ {a}
    BY <1>1, <1>2, <1>3, <1>4, <1>6, <2>1, <2>2 DEF m, after, all
  <2>3. CASE after = before \cup {a} /\ budget'.faults = budget.faults + 1
    BY <1>1, <1>2, <1>3, <1>4, <1>5, <1>7, <2>1, <2>3 DEF m, after, all
  <2>4. CASE after # before \ {a} /\ Works
    <3>1. req'[a].pc = "insert" /\ req[a].org = o
      BY <1>8, <2>4
    <3>2. ~End(a)
      BY <3>1, Ends
    <3>3. Works \/ budget'.faults = budget.faults + 1
      BY <1>2, <2>4
    <3>4. docs[o] < KbLimit \/ Fails
      BY <1>1, <1>3, <1>11, <3>1, <3>2 DEF CountDocs, AtLimit
    <3>5. ~Fails
      BY <1>1, <1>2, <2>4 DEF Fails, Works
    <3> QED
      BY <1>1, <1>2, <1>3, <1>5, <2>1, <3>4, <3>5 DEF m, after, all
  <2>5. Works \/ budget'.faults = budget.faults + 1
    BY <1>1, <1>2 DEF Works
  <2> QED
    BY <1>8, <1>11, <2>2, <2>3, <2>4, <2>5
<1>12. CASE InsertDoc(a) /\ docs' = [docs EXCEPT ![req[a].org] = @ + 1]
  <2>1. after = before \ {a} /\ (req[a].org = o => a \in before)
    <3>1. ~CountDocs(a)
      BY <1>12 DEF InsertDoc, CountDocs, At
    <3> QED
      BY <1>8, <1>9, <1>12, <3>1 DEF InsertDoc, At
  <2>2. docs'[o] = IF req[a].org = o THEN docs[o] + 1 ELSE docs[o]
    BY <1>1, <1>12
  <2> QED
    BY <1>1, <1>2, <1>3, <1>4, <1>6, <2>1, <2>2 DEF m, after, all
<1>13. CASE ~CountDocs(a) /\ docs'[o] <= docs[o]
  BY <1>1, <1>2, <1>3, <1>4, <1>6, <1>8, <1>10, <1>13 DEF m, after, all
<1>14. CASE UndoOrg(a) \/ DeleteOrg(a)
  <2>1. docs' = docs \/ docs' = [docs EXCEPT ![req[a].org] = 0]
    BY <1>14 DEF UndoOrg, DeleteOrg, DropOrg
  <2>2. docs'[o] <= docs[o]
    BY <1>1, <2>1
  <2>3. ~CountDocs(a)
    BY <1>14 DEF UndoOrg, DeleteOrg, CountDocs, At
  <2> QED
    BY <1>13, <2>2, <2>3
<1>15. CASE docs' = docs /\ ~CountDocs(a)
  BY <1>1, <1>13, <1>15
<1>16. CASE InsertDoc(a) /\ docs' # [docs EXCEPT ![req[a].org] = @ + 1]
  BY <1>15, <1>16 DEF InsertDoc, CountDocs, At
<1>17. CASE ~(CountDocs(a) \/ InsertDoc(a) \/ UndoOrg(a) \/ DeleteOrg(a))
  <2>1. docs' = docs
    BY <1>17 DEF Step, Invite, InsertProfile, InsertMember, Rollback, ReadOwners, UpdateRole, Audit,
       DeleteUser, UpdateAdmin, RestoreOwn, InsertOrg, InsertAccount, ExportRows,
       CheckExported, ReadMembers, DeleteLogins, ResolveFlag
  <2> QED
    BY <1>15, <1>17, <2>1
<1> QED
  BY <1>11, <1>12, <1>14, <1>16, <1>17

\* Uploads that counted before any had inserted go past the limit together, and no further:
\* by one for each admin and one for each count that failed (admin.ts, POST
\* /orgs/:orgId/kb, which counts and then inserts).
THEOREM OverrunIsBounded == Spec => []KbOverrun
<1>1. Init => Reserved
  <2> SUFFICES ASSUME Init, NEW o \in Orgs
               PROVE  docs[o] + Cardinality(Uploading(o)) < KbLimit + Cardinality(Admins) + budget.faults
    BY DEF Reserved
  <2>1. docs[o] = 0 /\ budget.faults = 0 /\ \A a \in Admins : req[a] = Idle
    BY DEF Init
  <2> QED
    BY <2>1, UploadsAreFinite, PanelBounds
<1>2. TypeInv /\ Reserved /\ [Next]_vars => Reserved'
  <2> SUFFICES ASSUME TypeInv, Reserved, [Next]_vars PROVE Reserved'
    OBVIOUS
  <2>1. ASSUME NEW a \in Admins, Begin(a) PROVE Reserved'
    <3>1. /\ UNCHANGED docs /\ req[a] = Idle /\ budget'.faults = budget.faults
          /\ \A b \in Admins \ {a} : req'[b] = req[b]
          /\ req'[a].do = "kb" => req'[a].pc = "count"
      BY <2>1, BeginReq DEF Others, TypeInv, TypeOK
    <3>2. \A o \in Orgs : Uploading(o)' = Uploading(o)
      BY <3>1 DEF Uploading, Idle
    <3> QED
      BY <3>1, <3>2 DEF Reserved
  <2>2. ASSUME UNCHANGED <<docs, req, budget>> PROVE Reserved'
    BY <2>2 DEF Reserved, Uploading
  <2>3. ASSUME NEW o \in Orgs, DeleteDoc(o) PROVE Reserved'
    <3>1. /\ docs \in [Orgs -> Nat] /\ docs[o] > 0 /\ docs' = [docs EXCEPT ![o] = @ - 1]
          /\ UNCHANGED <<req, budget>> /\ budget.faults \in Nat
      BY <2>3 DEF DeleteDoc, TypeInv, TypeOK
    <3>2. ASSUME NEW p \in Orgs
          PROVE  docs'[p] + Cardinality(Uploading(p)') < KbLimit + Cardinality(Admins) + budget'.faults
      <4>1. docs'[p] <= docs[p] /\ docs'[p] \in Nat /\ docs[p] \in Nat
        BY <3>1
      <4>2. Uploading(p)' = Uploading(p)
        BY <3>1 DEF Uploading
      <4>3. docs[p] + Cardinality(Uploading(p)) < KbLimit + Cardinality(Admins) + budget.faults
        BY DEF Reserved
      <4> QED
        BY <3>1, <4>1, <4>2, <4>3, UploadsAreFinite, PanelBounds
    <3> QED
      BY <3>2 DEF Reserved
  <2>4. ASSUME NEW u \in Users, Accept(u) PROVE Reserved'
    BY <2>2, <2>4 DEF Accept
  <2>5. ASSUME UNCHANGED vars PROVE Reserved'
    BY <2>2, <2>5 DEF vars
  <2> QED
    BY <2>1, <2>3, <2>4, <2>5, ReservedStep DEF Next
<1>3. TypeInv /\ Reserved => KbOverrun
  <2> SUFFICES ASSUME TypeInv, Reserved, NEW o \in Orgs
               PROVE  docs[o] < KbLimit + Cardinality(Admins) + budget.faults
    BY DEF KbOverrun
  <2>1. docs[o] \in Nat /\ budget.faults \in Nat
    BY DEF TypeInv, TypeOK
  <2>2. docs[o] + Cardinality(Uploading(o)) < KbLimit + Cardinality(Admins) + budget.faults
    BY DEF Reserved
  <2> QED
    BY <2>1, <2>2, UploadsAreFinite, PanelBounds
<1> QED
  BY <1>1, <1>2, <1>3, TypeInit, TypeNext, PTL DEF Spec

-----------------------------------------------------------------------------
(* Logins to nothing, and clients without a number.                        *)

\* Why a login, or a client without a number, is nobody's mistake.
LoginSettled(u) == Homed(u) \/ u \in strayed \/ \E b \in Admins : HeldBy(b, u)
BareSettled(o) == o \in strayed \/ \E b \in Admins : req[b].org = o /\ req[b].pc \in {"account", "undo"}

\* A login that a step leaves alone, by the request that makes it.
LEMMA LeftAlone ==
    ASSUME StructInv, Settled, NEW a \in Admins, Step(a),
           NEW u \in Users, u \in logins, ~HeldBy(a, u), profile'[u] = profile[u],
           \A p \in Orgs : profile[u] = p /\ role[u][p] # "none" => role'[u][p] # "none"
    PROVE  LoginSettled(u)'
<1>1. Homed(u) \/ u \in strayed \/ \E b \in Admins \ {a} : HeldBy(b, u)
  BY DEF Settled
<1>2. strayed \subseteq strayed'
  BY HistoryStep DEF StructInv
<1>3. \A b \in Admins \ {a} : req'[b] = req[b]
  BY StepReq DEF StructInv, Others
<1>4. CASE Homed(u)
  BY <1>4 DEF Homed, LoginSettled
<1>5. CASE \E b \in Admins \ {a} : HeldBy(b, u)
  BY <1>3, <1>5 DEF HeldBy, LoginSettled
<1> QED
  BY <1>1, <1>2, <1>4, <1>5 DEF LoginSettled

\* A client that a step leaves alone.
LEMMA BareStays ==
    ASSUME StructInv, Settled, NEW a \in Admins, Step(a), NEW o \in Orgs, org[o] = "bare",
           req[a].org # o \/ req[a].pc \notin {"account", "undo"}
    PROVE  BareSettled(o)'
<1>1. strayed \subseteq strayed'
  BY HistoryStep DEF StructInv
<1>2. \A b \in Admins \ {a} : req'[b] = req[b]
  BY StepReq DEF StructInv, Others
<1>3. o \in strayed \/ \E b \in Admins \ {a} : req[b].org = o /\ req[b].pc \in {"account", "undo"}
  BY DEF Settled
<1> QED
  BY <1>1, <1>2, <1>3 DEF BareSettled

LEMMA BareStep ==
    ASSUME StructInv, Settled, NEW a \in Admins, Step(a), NEW o \in Orgs, org'[o] = "bare"
    PROVE  BareSettled(o)'
<1>1. /\ Known(a, req[a]) /\ req[a] \in Requests
      /\ org \in [Orgs -> {"never", "bare", "live", "gone"}]
  BY DEF StructInv, TypeInv, TypeOK
<1>2. strayed \subseteq strayed'
  BY HistoryStep DEF StructInv
<1>3. CASE org[o] = "bare" /\ (req[a].org # o \/ req[a].pc \notin {"account", "undo"})
  BY <1>3, BareStays
<1>4. CASE org[o] # "bare"
  <2>1. req[a].do = "onboard" /\ req[a].pc = "insert" /\ req[a].org = o
    BY <1>1, <1>4, OrgStep DEF DropOrg
  <2>2. CASE InsertOrg(a)
    <3>1. o \in strayed' \/ Go(a, "account")
      BY <1>4, <2>1, <2>2 DEF InsertOrg
    <3>2. ASSUME Go(a, "account") PROVE req'[a].pc = "account" /\ req'[a].org = o
      BY <2>1, <3>2, GoesOn DEF LaterSteps, Same, StructInv
    <3> QED
      BY <3>1, <3>2 DEF BareSettled
  <2>3. InsertOrg(a)
    BY <2>1 DEF Step, Invite, InsertProfile, InsertMember, Rollback, ReadOwners, UpdateRole, Audit,
       DeleteUser, UpdateAdmin, RestoreOwn, InsertAccount, UndoOrg, ExportRows,
       CheckExported, ReadMembers, DeleteLogins, DeleteOrg, CountDocs, InsertDoc, ResolveFlag, At
  <2> QED
    BY <2>2, <2>3
<1>5. CASE org[o] = "bare" /\ req[a].org = o /\ req[a].pc \in {"account", "undo"}
  <2>1. InsertAccount(a) \/ UndoOrg(a)
    BY <1>1, <1>5 DEF Step, Invite, InsertProfile, InsertMember, Rollback, ReadOwners, UpdateRole, Audit,
       DeleteUser, UpdateAdmin, RestoreOwn, InsertOrg, ExportRows,
       CheckExported, ReadMembers, DeleteLogins, DeleteOrg, CountDocs, InsertDoc, ResolveFlag, At
  <2>2. ASSUME InsertAccount(a) PROVE req'[a].pc = "undo" /\ req'[a].org = o
    <3>1. Go(a, "undo")
      BY <1>1, <1>5, <2>2 DEF InsertAccount
    <3> QED
      BY <1>5, <3>1, GoesOn DEF LaterSteps, Same, StructInv
  <2>3. ASSUME UndoOrg(a) PROVE o \in strayed'
    BY <1>1, <1>5, <2>3 DEF UndoOrg, DropOrg
  <2> QED
    BY <2>1, <2>2, <2>3 DEF BareSettled
<1> QED
  BY <1>3, <1>4, <1>5

LEMMA LoginStep ==
    ASSUME StructInv, Settled, NEW a \in Admins, Step(a), NEW u \in Users, u \in logins'
    PROVE  LoginSettled(u)'
<1> DEFINE Goal == LoginSettled(u)'
           w == req[a].user
           o == req[a].org
<1> HIDE DEF Goal
<1>1. /\ RowTypes /\ req[a] \in Requests /\ Known(a, req[a]) /\ Members /\ Onboarding
      /\ NoOrg \notin Orgs /\ Nobody \notin Orgs
  BY TypesSplit, AdminsAssumption DEF StructInv, TypeInv, TypeOK
<1>2. ASSUME u \in strayed' \/ HeldBy(a, u)' \/ Homed(u)' PROVE Goal
  BY <1>2 DEF Goal, LoginSettled
<1>3. ASSUME u \in logins, ~HeldBy(a, u), profile'[u] = profile[u],
             \A p \in Orgs : profile[u] = p /\ role[u][p] # "none" => role'[u][p] # "none"
      PROVE  Goal
  BY <1>3, LeftAlone DEF Goal
<1>4. ASSUME NEW v \in Users, DropLogin(v), ~HeldBy(a, u) \/ u = v PROVE Goal
  BY <1>1, <1>3, <1>4, LoginGone
<1>5. ASSUME UNCHANGED <<logins, profile, role>>, ~HeldBy(a, u) PROVE Goal
  BY <1>3, <1>5
<1>6. ASSUME NEW pc \in LaterSteps, Go(a, pc) PROVE req'[a].pc = pc /\ req'[a].user = w /\ req'[a].org = o
  BY <1>6, GoesOn DEF StructInv, Same
<1>7. HeldBy(a, u) => u = w /\ req[a].pc \in {"profile", "rollback", "member"}
  BY DEF HeldBy
<1>8. ASSUME Invite(a) PROVE Goal
  <2>1. /\ UNCHANGED <<profile, role>> /\ req[a].pc = "link"
        /\ logins' = logins \/ (logins' = logins \cup {w} /\ Go(a, "profile"))
    BY <1>8 DEF Invite, At
  <2>2. CASE u \in logins
    BY <1>3, <1>7, <2>1, <2>2
  <2>3. CASE u \notin logins
    <3>1. u = w /\ Go(a, "profile")
      BY <2>1, <2>3
    <3>2. req'[a].pc = "profile" /\ req'[a].user = w
      BY <1>6, <3>1 DEF LaterSteps
    <3> QED
      BY <1>2, <3>1, <3>2 DEF HeldBy
  <2> QED
    BY <2>2, <2>3
\* After an error the login is taken back, or left to the admin's list of mistakes.
<1>9. ASSUME NEW next, AfterError(a, next), u = w PROVE Goal
  <2>1. Go(a, "rollback") \/ u \in strayed'
    BY <1>9 DEF AfterError, Undo
  <2>2. ASSUME Go(a, "rollback") PROVE req'[a].pc = "rollback" /\ req'[a].user = w
    BY <1>6, <2>2 DEF LaterSteps
  <2> QED
    BY <1>2, <1>9, <2>1, <2>2 DEF HeldBy
<1>10. ASSUME InsertProfile(a) PROVE Goal
  <2>1. /\ UNCHANGED <<logins, role>> /\ o \in Orgs /\ w \in Users
        /\ profile' = profile \/ profile' = [profile EXCEPT ![w] = o]
        /\ AfterError(a, "member") \/ (Go(a, "member") /\ profile' = [profile EXCEPT ![w] = o])
    BY <1>1, <1>10 DEF InsertProfile, At, Known
  <2>2. CASE u # w
    BY <1>1, <1>3, <1>7, <2>1, <2>2 DEF RowTypes
  <2>3. CASE u = w /\ ~AfterError(a, "member")
    <3>1. Go(a, "member") /\ profile'[u] = o
      BY <1>1, <2>1, <2>3 DEF RowTypes
    <3>2. req'[a].pc = "member" /\ req'[a].user = w /\ req'[a].org = o
      BY <1>6, <3>1 DEF LaterSteps
    <3> QED
      BY <1>2, <2>3, <3>1, <3>2 DEF HeldBy
  <2> QED
    BY <1>9, <2>2, <2>3
<1>11. ASSUME InsertMember(a) PROVE Goal
  <2>1. /\ UNCHANGED <<logins, profile>> /\ o \in Orgs /\ w \in Users /\ req[a].pc = "member"
        /\ req[a].as \in Roles /\ req[a].as # "none"
        /\ role' = role \/ role' = [role EXCEPT ![w][o] = req[a].as]
        /\ AfterError(a, "audit") \/ role' = [role EXCEPT ![w][o] = req[a].as]
    BY <1>1, <1>11 DEF InsertMember, At, Known, Requests
  <2>2. ASSUME role' = [role EXCEPT ![w][o] = req[a].as]
        PROVE  /\ role'[w][o] # "none"
               /\ \A v \in Users, p \in Orgs : v # w \/ p # o => role'[v][p] = role[v][p]
    <3> DEFINE as == req[a].as
    <3>1. as \in Roles /\ as # "none" /\ o \in Orgs /\ w \in Users /\ role' = [role EXCEPT ![w][o] = as]
      BY <2>1, <2>2
    <3>2. role \in [Users -> [Orgs -> Roles]]
      BY <1>1 DEF RowTypes
    <3> HIDE DEF as, w, o
    <3> QED
      BY <3>1, <3>2
  <2>3. \A p \in Orgs : role[u][p] # "none" => role'[u][p] # "none"
    BY <2>1, <2>2
  <2>4. CASE u # w \/ profile[u] # o
    <3>1. ~HeldBy(a, u)
      BY <2>1, <2>4 DEF HeldBy
    <3> QED
      BY <1>3, <2>1, <2>3, <3>1
  <2>5. CASE u = w /\ profile[u] = o /\ ~AfterError(a, "audit")
    BY <1>2, <2>1, <2>2, <2>5 DEF Homed
  <2> QED
    BY <1>9, <2>4, <2>5
<1>12. ASSUME Rollback(a) PROVE Goal
  <2>1. /\ w \in Users
        /\ DropLogin(w) \/ (UNCHANGED <<logins, profile, role>> /\ w \in strayed')
    BY <1>1, <1>12 DEF Rollback, KeepLogin, rows, At, Known
  <2>2. CASE DropLogin(w)
    BY <1>4, <1>7, <2>1, <2>2
  <2>3. CASE UNCHANGED <<logins, profile, role>> /\ w \in strayed'
    BY <1>2, <1>5, <1>7, <2>3
  <2> QED
    BY <2>1, <2>2, <2>3
<1>13. ASSUME DeleteUser(a) PROVE Goal
  <2>1. /\ w \in Users /\ req[a].pc = "delete"
        /\ DropLogin(w) \/ UNCHANGED <<logins, profile, role>>
    BY <1>1, <1>13 DEF DeleteUser, KeepLogin, rows, At, Known
  <2> QED
    BY <1>4, <1>5, <1>7, <2>1
<1>14. ASSUME DeleteLogins(a) PROVE Goal
  <2>1. PICK v \in req[a].seen : DropLogin(v) \/ UNCHANGED <<logins, profile, role>>
    BY <1>14 DEF DeleteLogins, KeepLogin, rows
  <2>2. v \in Users /\ req[a].pc = "logins"
    BY <1>1, <1>14 DEF Requests, DeleteLogins, At
  <2> QED
    BY <1>4, <1>5, <1>7, <2>1, <2>2
<1>15. ASSUME UpdateRole(a) PROVE Goal
  <2>1. /\ UNCHANGED <<logins, profile>> /\ o \in Orgs /\ w \in Users /\ req[a].pc = "update"
        /\ req[a].as \in Roles /\ req[a].as # "none"
        /\ role' = role \/ role' = [role EXCEPT ![w][o] = req[a].as]
    BY <1>1, <1>15 DEF UpdateRole, At, Known, Requests
  <2>2. \A p \in Orgs : role[u][p] # "none" => role'[u][p] # "none"
    <3>1. CASE role' = role
      BY <3>1
    <3>2. CASE role' = [role EXCEPT ![w][o] = req[a].as]
      <4> DEFINE as == req[a].as
      <4>1. as \in Roles /\ as # "none" /\ o \in Orgs /\ w \in Users /\ role' = [role EXCEPT ![w][o] = as]
        BY <2>1, <3>2
      <4>3. role \in [Users -> [Orgs -> Roles]]
        BY <1>1 DEF RowTypes
      <4> HIDE DEF as, w, o
      <4>2. /\ role'[w][o] = as
            /\ \A v \in Users, p \in Orgs : v # w \/ p # o => role'[v][p] = role[v][p]
        BY <4>1, <4>3
      <4> QED
        BY <4>1, <4>2
    <3> QED
      BY <2>1, <3>1, <3>2
  <2> QED
    BY <1>3, <1>7, <2>1, <2>2
\* A client that goes: nobody is left in one that was never finished, and a failure is owned
\* up to by whoever deletes a finished one.
<1>16. ASSUME UndoOrg(a) \/ DeleteOrg(a) PROVE Goal
  <2>1. /\ o \in Orgs /\ req[a].pc \in {"undo", "logins"}
        /\ DropOrg(o) \/ UNCHANGED <<logins, profile, role>>
    BY <1>1, <1>16 DEF UndoOrg, DeleteOrg, At, Known, rows
  <2>2. CASE UNCHANGED <<logins, profile, role>>
    BY <1>5, <1>7, <2>1, <2>2
  <2>3. CASE DropOrg(o) /\ profile[u] # o
    <3>1. /\ UNCHANGED logins /\ profile'[u] = profile[u]
          /\ \A p \in Orgs : p # o => role'[u][p] = role[u][p]
      BY <1>1, <2>1, <2>3, OrgGone
    <3> QED
      BY <1>3, <1>7, <2>1, <2>3, <3>1
  <2>4. CASE DropOrg(o) /\ ~UNCHANGED <<logins, profile, role>> /\ profile[u] = o
    <3>1. org[o] = "live"
      BY <1>1, <2>1, <2>4 DEF Members
    <3>2. req[a].pc # "undo"
      BY <1>1, <3>1 DEF Onboarding
    <3>3. strayed' = strayed \cup {v \in Users : profile[v] = o}
      BY <1>16, <2>4, <3>2 DEF UndoOrg, DeleteOrg, At, rows
    <3> QED
      BY <1>2, <2>4, <3>3
  <2> QED
    BY <2>1, <2>2, <2>3, <2>4
<1>17. ASSUME \/ ReadOwners(a) \/ Audit(a) \/ UpdateAdmin(a) \/ RestoreOwn(a) \/ InsertOrg(a) \/ InsertAccount(a)
       PROVE  Goal
  <2>1. UNCHANGED <<logins, profile, role>> /\ req[a].pc \notin {"profile", "rollback", "member"}
    BY <1>17 DEF ReadOwners, Audit, UpdateAdmin, RestoreOwn, InsertOrg, InsertAccount, rows, At
  <2> QED
    BY <1>5, <1>7, <2>1
<1>18. ASSUME \/ ExportRows(a) \/ CheckExported(a) \/ ReadMembers(a) \/ CountDocs(a) \/ InsertDoc(a)
              \/ ResolveFlag(a)
       PROVE  Goal
  <2>1. UNCHANGED <<logins, profile, role>> /\ req[a].pc \notin {"profile", "rollback", "member"}
    BY <1>18 DEF ExportRows, CheckExported, ReadMembers, CountDocs, InsertDoc, ResolveFlag, rows, At
  <2> QED
    BY <1>5, <1>7, <2>1
<1> QED
  BY <1>8, <1>10, <1>11, <1>12, <1>13, <1>14, <1>15, <1>16, <1>17, <1>18 DEF Step, Goal

LEMMA SettledNext == StructInv /\ Settled /\ [Next]_vars => Settled'
<1> SUFFICES ASSUME StructInv, Settled, [Next]_vars PROVE Settled'
  OBVIOUS
<1>1. ASSUME NEW a \in Admins, Step(a) PROVE Settled'
  <2>1. logins' \subseteq Users
    BY TypeNext DEF StructInv, TypeInv, TypeOK
  <2>2. \A u \in logins' : LoginSettled(u)'
    BY <1>1, <2>1, LoginStep
  <2>3. \A o \in Orgs : org'[o] = "bare" => BareSettled(o)'
    BY <1>1, BareStep
  <2> QED
    BY <2>2, <2>3 DEF Settled, LoginSettled, BareSettled
<1>2. ASSUME NEW a \in Admins, Begin(a) PROVE Settled'
  <2>1. /\ UNCHANGED <<org, logins, profile, role, strayed>> /\ req[a] = Idle
        /\ \A b \in Admins \ {a} : req'[b] = req[b]
    BY <1>2, BeginReq DEF StructInv, Others, rows
  <2>2. \A u \in Users : ~HeldBy(a, u)
    BY <2>1 DEF HeldBy, Idle
  <2>3. logins \subseteq Users /\ req[a].pc \notin {"account", "undo"}
    BY <2>1 DEF StructInv, TypeInv, TypeOK, Idle
  <2>4. \A u \in logins : LoginSettled(u)'
    <3> SUFFICES ASSUME NEW u \in logins PROVE LoginSettled(u)'
      OBVIOUS
    <3>1. Homed(u) \/ u \in strayed \/ \E b \in Admins \ {a} : HeldBy(b, u)
      BY <2>2, <2>3 DEF Settled
    <3>2. Homed(u) => Homed(u)'
      BY <2>1 DEF Homed
    <3>3. \A b \in Admins \ {a} : HeldBy(b, u) => HeldBy(b, u)'
      BY <2>1 DEF HeldBy
    <3> QED
      BY <2>1, <3>1, <3>2, <3>3 DEF LoginSettled
  <2>5. \A o \in Orgs : org'[o] = "bare" => BareSettled(o)'
    BY <2>1, <2>3 DEF Settled, BareSettled
  <2> QED
    BY <2>1, <2>4, <2>5 DEF Settled, LoginSettled, BareSettled
<1>3. ASSUME UNCHANGED <<org, logins, profile, role, req, strayed>> PROVE Settled'
  BY <1>3 DEF Settled, Homed, HeldBy
<1>4. ASSUME NEW u \in Users, Accept(u) PROVE Settled'
  BY <1>3, <1>4 DEF Accept
<1>5. ASSUME NEW o \in Orgs, DeleteDoc(o) PROVE Settled'
  BY <1>3, <1>5 DEF DeleteDoc, rows
<1>6. ASSUME UNCHANGED vars PROVE Settled'
  BY <1>3, <1>6 DEF vars
<1> QED
  BY <1>1, <1>2, <1>4, <1>5, <1>6 DEF Next

\* Nobody can sign in to nothing, and no client is without a number, but while a handler is at
\* it and after a failure that the code does not make good: the routes for users and for
\* onboarding write three places in turn and undo the first when the second fails (admin.ts,
\* POST /orgs and /orgs/:orgId/users), whatever the other admins delete meanwhile.
THEOREM NobodyIsLeftHalfMade == Spec => []NothingHalfMade
<1>1. Init => Settled
  <2> SUFFICES ASSUME Init PROVE Settled
    OBVIOUS
  <2>1. TypeInv /\ logins = {u \in Users : profile[u] # Nobody}
    BY TypeInit DEF Init
  <2>2. ASSUME NEW u \in Users, profile[u] # Nobody PROVE Homed(u)
    <3>1. profile[u] \in Orgs \cup {NoOrg}
      BY <2>1, <2>2 DEF TypeInv, TypeOK
    <3>2. \A o \in Orgs : profile[u] = o => role[u][o] = "owner"
      BY DEF Init
    <3> QED
      BY <3>1, <3>2 DEF Homed
  <2>3. \A o \in Orgs : org[o] # "bare"
    BY DEF Init
  <2> QED
    BY <2>1, <2>2, <2>3 DEF Settled
<1>2. Settled => NothingHalfMade
  BY DEF Settled, NothingHalfMade, InHand, HeldBy
<1> QED
  BY <1>1, <1>2, StructAlways, SettledNext, PTL DEF Spec

-----------------------------------------------------------------------------
(* The traffic light (ClientHealth).                                       *)

\* No row of ours, or none that could be read, has anything against the client.
LEMMA QuietIs ==
    /\ Quiet \in Data /\ Quiet.capped = FALSE /\ Quiet.paused = FALSE /\ Quiet.heard = FALSE
    /\ Quiet.answered = FALSE /\ Quiet.lapsed = FALSE /\ Quiet.failed = FALSE /\ Quiet.flags = FALSE
<1> DEFINE d == CHOOSE d \in Data : TRUE
<1>1. [capped |-> FALSE, paused |-> FALSE, heard |-> FALSE, answered |-> FALSE,
       lapsed |-> FALSE, failed |-> FALSE, flags |-> FALSE] \in Data
  BY DEF Data
<1>2. d \in Data
  BY <1>1
<1> HIDE DEF d
<1>3. DOMAIN d = {"capped", "paused", "heard", "answered", "lapsed", "failed", "flags"}
  BY <1>2 DEF Data
<1>4. Quiet = [f \in {"capped", "paused", "heard", "answered", "lapsed", "failed", "flags"} |-> FALSE]
  BY <1>3 DEF Quiet, d
<1> QED
  BY <1>4 DEF Data

\* What Meta's answers about one number tell of it.
LEMMA NumberTells ==
    ASSUME NEW w \in Worlds, NEW n, n = NumberHealth(w)
    PROVE  /\ "refused" \in {w.answer.token, w.answer.subscribed} => RedNumber(n)
           /\ ~RedNumber(n) /\ Unknown \notin {n.token.valid, n.subscribed} => Sound(w)
           /\ ~Sound(w) /\ Heard(w) => RedNumber(n)
           /\ w.answer.token = "nothing" /\ w.answer.subscribed = "nothing" => ~RedNumber(n)
           /\ ~RedNumber(n) /\ Unknown \notin {n.token.valid, n.subscribed} /\ ~AmberNumber(n)
                => w.expires # "soon"
<1>1. /\ w.token \in {Yes, No} /\ w.subscribed \in {Yes, No}
      /\ w.answer.token \in Answers /\ w.answer.subscribed \in Answers
  BY DEF Worlds
<1>2. /\ n.token.valid = Read(w.answer.token, w.token)
      /\ n.token.expires = (IF w.answer.token = "body" THEN w.expires ELSE "never")
      /\ n.subscribed = Read(w.answer.subscribed, w.subscribed)
  BY DEF NumberHealth, TokenStatus, SubscriptionStatus
<1>3. ASSUME NEW answer \in Answers, NEW fact \in {Yes, No}
      PROVE  /\ answer = "body" => Read(answer, fact) = fact
             /\ answer = "refused" => Read(answer, fact) = No
             /\ answer = "nothing" => Read(answer, fact) = Unknown
  BY DEF Answers, Read
<1>4. Yes # No /\ No # Unknown /\ Yes # Unknown
  BY DEF Yes, No, Unknown
<1> QED
  BY <1>1, <1>2, <1>3, <1>4 DEF RedNumber, AmberNumber, Sound, Heard, Answers

\* What a light says, by its own rows and by the numbers it was shown.
Red(data, numbers, empty) == empty \/ RedData(data) \/ \E n \in numbers : RedNumber(n)
Amber(data, numbers) == AmberData(data) \/ \E n \in numbers : AmberNumber(n)
Partial(numbers) == \E n \in numbers : Unknown \in {n.token.valid, n.subscribed}
Says(light, data, open, numbers, empty) ==
    /\ light.level = "red" <=> Red(data, numbers, empty)
    /\ light.level = "green" <=> ~Red(data, numbers, empty) /\ ~Amber(data, numbers)
    /\ light.level \in {"red", "amber", "green"}
    /\ light.partial <=> ~open \/ Partial(numbers)

\* The light of a client, whatever its numbers.
LEMMA LightIs ==
    ASSUME NEW rollup, NEW db, NEW open, NEW answered, NEW meta, NEW balance, NEW numbers,
           numbers = IF open THEN OpenRow(answered, meta) ELSE {}
    PROVE  Says(Light(rollup, db, open, answered, meta, balance), Load(rollup, db), open,
                numbers, balance = "empty")
<1> DEFINE data == Load(rollup, db)
           light == Light(rollup, db, open, answered, meta, balance)
           empty == balance = "empty"
           red == Red(data, numbers, empty)
           amber == Amber(data, numbers)
           partial == ~open \/ Partial(numbers)
<1>1. light = [level |-> IF red THEN "red" ELSE IF amber THEN "amber" ELSE "green",
               partial |-> partial]
  BY DEF Light, Health, Red, Amber, Partial
<1> HIDE DEF red, amber, partial, light
<1>2. light.level = (IF red THEN "red" ELSE IF amber THEN "amber" ELSE "green") /\ light.partial = partial
  BY <1>1
<1>3. /\ light.level = "red" <=> red
      /\ light.level = "green" <=> ~red /\ ~amber
      /\ light.level \in {"red", "amber", "green"}
      /\ light.partial <=> partial
  BY <1>2
<1> QED
  BY <1>3 DEF red, amber, partial, light, Says

\* Of a client whose rows, wallet and numbers could all be read: green that claims to be checked is
\* one whose every number works, with nothing of our own against it; a number that Meta refuses to
\* talk about is red, and silence is not (health.ts, health; admin.ts, numberHealth and its reads).
THEOREM EveryNumberCounts ==
    ASSUME NEW db \in Data, NEW W \in SUBSET Worlds, NEW light,
           light = Light(TRUE, db, TRUE, TRUE, {NumberHealth(w) : w \in W}, "left")
    PROVE  /\ light.level = "green" /\ ~light.partial =>
                /\ \A w \in W : Sound(w) /\ w.expires # "soon"
                /\ ~db.capped /\ ~db.paused /\ ~db.failed /\ ~db.flags /\ (db.heard => db.answered)
           /\ (\E w \in W : "refused" \in {w.answer.token, w.answer.subscribed}) => light.level = "red"
           /\ (\E w \in W : ~Sound(w) /\ Heard(w)) => light.level = "red"
           /\ light.level = "red" /\ ~RedData(db) =>
                \E w \in W : w.answer.token # "nothing" \/ w.answer.subscribed # "nothing"
<1> DEFINE meta == {NumberHealth(w) : w \in W}
<1>1. \A w \in W : NumberHealth(w) \in meta
  OBVIOUS
<1>2. \A n \in meta : \E w \in W : n = NumberHealth(w)
  OBVIOUS
<1>3. Load(TRUE, db) = db /\ OpenRow(TRUE, meta) = meta
  BY DEF Load, OpenRow
<1>4. light = Light(TRUE, db, TRUE, TRUE, meta, "left")
  OBVIOUS
<1> HIDE DEF meta
<1>5. /\ light.level = "red" <=> RedData(db) \/ \E n \in meta : RedNumber(n)
      /\ light.level = "green" <=> /\ ~RedData(db) /\ ~AmberData(db)
                                   /\ \A n \in meta : ~RedNumber(n) /\ ~AmberNumber(n)
      /\ light.partial <=> \E n \in meta : Unknown \in {n.token.valid, n.subscribed}
  <2>1. meta = IF TRUE THEN OpenRow(TRUE, meta) ELSE {}
    BY <1>3
  <2>2. Says(Light(TRUE, db, TRUE, TRUE, meta, "left"), Load(TRUE, db), TRUE, meta, "left" = "empty")
    BY <2>1, LightIs
  <2> QED
    BY <1>3, <1>4, <2>2 DEF Says, Red, Amber, Partial
<1>6. ASSUME light.level = "green", ~light.partial
      PROVE  /\ \A w \in W : Sound(w) /\ w.expires # "soon"
             /\ ~db.capped /\ ~db.paused /\ ~db.failed /\ ~db.flags /\ (db.heard => db.answered)
  <2>1. ~RedData(db) /\ ~AmberData(db)
    BY <1>5, <1>6
  <2>2. ASSUME NEW w \in W PROVE Sound(w) /\ w.expires # "soon"
    BY <1>1, <1>5, <1>6, NumberTells
  <2> QED
    BY <2>1, <2>2 DEF RedData, AmberData
<1>7. ASSUME NEW w \in W, "refused" \in {w.answer.token, w.answer.subscribed} \/ (~Sound(w) /\ Heard(w))
      PROVE  light.level = "red"
  BY <1>1, <1>5, <1>7, NumberTells
<1>8. ASSUME light.level = "red", ~RedData(db)
      PROVE  \E w \in W : w.answer.token # "nothing" \/ w.answer.subscribed # "nothing"
  BY <1>2, <1>5, <1>8, NumberTells
<1> QED
  BY <1>6, <1>7, <1>8

\* What the light says of an opened row when the check of its numbers failed as a whole, or there
\* are none: the colour is that of our own rows, as checked as if Meta had been asked, and of a
\* client whose rows could not be read either it is green.  health.ts:15-16 and 131-133 say that
\* green is never called of what was not checked (Admin.tsx, load and openRow; health.ts).
THEOREM NothingReadLooksChecked ==
    ASSUME NEW rollup \in BOOLEAN, NEW db \in Data, NEW answered \in BOOLEAN, NEW meta,
           NEW balance \in Balances, ~answered \/ meta = {}, NEW light,
           light = Light(rollup, db, TRUE, answered, meta, balance)
    PROVE  /\ ~light.partial
           /\ light.level = "red" <=> balance = "empty" \/ (rollup /\ RedData(db))
           /\ ~rollup /\ balance # "empty" => light.level = "green"
<1>1. {} = IF TRUE THEN OpenRow(answered, meta) ELSE {}
  BY DEF OpenRow
<1>2. Says(light, Load(rollup, db), TRUE, {}, balance = "empty")
  <2>1. Says(Light(rollup, db, TRUE, answered, meta, balance), Load(rollup, db), TRUE, {},
             balance = "empty")
    BY <1>1, LightIs
  <2> QED
    BY <2>1
<1>3. Load(TRUE, db) = db /\ Load(FALSE, db) = Quiet
  BY DEF Load
<1>4. ~RedData(Quiet) /\ ~AmberData(Quiet)
  BY QuietIs DEF RedData, AmberData
<1> QED
  BY <1>2, <1>3, <1>4 DEF Says, Red, Amber, Partial
=============================================================================
