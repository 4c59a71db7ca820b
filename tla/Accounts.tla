------------------------------ MODULE Accounts ------------------------------
(***************************************************************************)
(* The roster of users and what it lets them do: tokens                    *)
(* (api/routes/auth.py, core/security.py), the checks on requests and on   *)
(* operators' sockets (api/deps.py, ws/auth.py), and the administrators'   *)
(* changes to roster and budget settings (api/routes/admin.py).            *)
(*                                                                         *)
(* A request reads, checks and commits at awaits of its own; requests      *)
(* interleave between them, under READ COMMITTED.  A row already loaded in *)
(* a request is not read again, and a commit writes the columns whose      *)
(* value differs from the one loaded.                                      *)
(***************************************************************************)
EXTENDS Integers, FiniteSets

CONSTANTS
    Users,       \* everybody who has or may get an account
    Requests,    \* requests in progress at a time
    Budgets,     \* values of each of the two budget settings
    AccessTTL,   \* jwt_access_token_ttl_minutes
    RefreshTTL,  \* jwt_refresh_token_ttl_days
    MaxOps,      \* bound: requests that pass their checks, and sockets
    MaxClock     \* bound: the clock

ASSUME AccountsAssumption ==
    /\ IsFiniteSet(Users)
    /\ AccessTTL \in Nat /\ RefreshTTL \in Nat /\ MaxOps \in Nat /\ MaxClock \in Nat

VARIABLES
    acNow,      \* the clock
    acUsers,    \* the users table: [known, active, role]
    acSettings, \* system_config: the budget and the alert threshold, 0 for no row
    acTokens,   \* tokens issued: [user, type, exp, asked]
    acSockets,  \* operators' sockets that were let in: [user, asked]
    acReq,      \* each request: how far it is and what it has read
    acOps,      \* requests so far
    acSince,    \* history: since when a user is inactive, since when no admin
    acLast,     \* history: who committed the last change, checked when, to which settings
    acOverlap,  \* history: a commit fell between another change's check and its commit
    acSelfOff   \* history: an admin made the own account inactive

acVars == <<acNow, acUsers, acSettings, acTokens, acSockets, acReq, acOps, acSince,
            acLast, acOverlap, acSelfOff>>

Roles == {"admin", "operator"}
Keep == "keep"  \* a field the payload leaves out
NotSince == -1
NotYet == 0     \* a setting without a row
Account == [status : {"unknown", "active", "inactive"}, role : Roles]

\* The changes an administrator may ask for.
RosterOps ==
    [kind : {"update"}, user : Users, role : Roles \cup {Keep},
     status : {"active", "inactive", Keep}]
    \cup [kind : {"deactivate"}, user : Users]
    \cup [kind : {"create"}, user : Users, role : Roles]
BudgetOps == [kind : {"budget"}, budget : Budgets, threshold : Budgets]

Idle == [at |-> "idle"]
Active(u) == acUsers[u].status = "active"
ActiveAdmin(u) == Active(u) /\ acUsers[u].role = "admin"
Valid(u, type) == {t \in acTokens : t.user = u /\ t.type = type /\ acNow <= t.exp}
Changing(r) == acReq[r].at \in {"admitted", "guarding", "loaded"}

ACTypeOK ==
    /\ acNow \in 0..MaxClock /\ acOps \in 0..MaxOps
    /\ acUsers \in [Users -> Account]
    /\ acSettings \in [budget : Budgets \cup {NotYet}, threshold : Budgets \cup {NotYet}]
    /\ acTokens \subseteq [user : Users, type : {"access", "refresh"}, exp : Nat, asked : Nat]
    /\ acSockets \subseteq [user : Users, asked : Nat]
    /\ \A r \in Requests :
         /\ acReq[r].at \in {"idle", "admitted", "guarding", "loaded", "issuing"}
         /\ Changing(r) => acReq[r].self.status = "active" /\ acReq[r].self.role = "admin"
    /\ acOverlap \in BOOLEAN /\ acSelfOff \in BOOLEAN

Pair(u, now) == {[user |-> u, type |-> "access", exp |-> now + AccessTTL, asked |-> now],
                 [user |-> u, type |-> "refresh", exp |-> now + RefreshTTL, asked |-> now]}

\* Some roster with an administrator in it; everybody active is logged in.
ACInit ==
    /\ acNow = 0
    /\ acUsers \in [Users -> Account] /\ \E u \in Users : ActiveAdmin(u)
    /\ acSettings = [budget |-> NotYet, threshold |-> NotYet]
    /\ acTokens = UNION {Pair(u, 0) : u \in {v \in Users : Active(v)}}
    /\ acSockets = {}
    /\ acReq = [r \in Requests |-> Idle]
    /\ acOps = 0
    /\ acSince = [u \in Users |-> [off |-> IF Active(u) THEN NotSince ELSE 0,
                                   plain |-> IF acUsers[u].role = "admin" THEN NotSince ELSE 0]]
    /\ acLast = [actors |-> {}, budget |-> NotYet, threshold |-> NotYet]
    /\ acOverlap = FALSE /\ acSelfOff = FALSE

ACTick ==
    /\ acNow < MaxClock
    /\ acNow' = acNow + 1
    /\ UNCHANGED <<acUsers, acSettings, acTokens, acSockets, acReq, acOps, acSince,
                   acLast, acOverlap, acSelfOff>>

-----------------------------------------------------------------------------
(* Tokens and sockets.                                                     *)

Counted == acOps < MaxOps /\ acOps' = acOps + 1

Issuing(r, u) ==
    /\ acReq[r] = Idle /\ Counted
    /\ acReq' = [acReq EXCEPT ![r] = [at |-> "issuing", user |-> u, asked |-> acNow]]
    /\ UNCHANGED <<acNow, acUsers, acSettings, acTokens, acSockets, acSince, acLast,
                   acOverlap, acSelfOff>>

\* The password is right and the account is active; otherwise 401.
ACLogin(r, u) == Active(u) /\ Issuing(r, u)

\* Mutant: a refresh token is enough.
ACRefreshUnchecked(r, u) == Valid(u, "refresh") # {} /\ Issuing(r, u)

\* The refresh token is valid and its user still active; it is not used up.
ACRefresh(r, u) == Valid(u, "refresh") # {} /\ Active(u) /\ Issuing(r, u)

\* After the commit both tokens are issued, without another look at the user.
ACIssue(r) ==
    LET req == acReq[r]
    IN  /\ req.at = "issuing"
        /\ acTokens' = acTokens \cup {[t EXCEPT !.asked = req.asked] : t \in Pair(req.user, acNow)}
        /\ acReq' = [acReq EXCEPT ![r] = Idle]
        /\ UNCHANGED <<acNow, acUsers, acSettings, acSockets, acOps, acSince, acLast,
                       acOverlap, acSelfOff>>

\* An operator's socket is let in; it is not checked again.
ACConnect(u) ==
    /\ Valid(u, "access") # {} /\ Active(u) /\ Counted
    /\ acSockets' = acSockets \cup {[user |-> u, asked |-> acNow]}
    /\ UNCHANGED <<acNow, acUsers, acSettings, acTokens, acReq, acSince, acLast,
                   acOverlap, acSelfOff>>

ACDisconnect ==
    /\ \E socket \in acSockets : acSockets' = acSockets \ {socket}
    /\ UNCHANGED <<acNow, acUsers, acSettings, acTokens, acReq, acOps, acSince, acLast,
                   acOverlap, acSelfOff>>

-----------------------------------------------------------------------------
(* Administration.                                                         *)

\* The token is valid, its user active and, by the table, an administrator;
\* nobody deletes the own account.
ACAdmit(r, a, op) ==
    /\ acReq[r] = Idle /\ Counted
    /\ Valid(a, "access") # {} /\ ActiveAdmin(a)
    /\ op.kind = "deactivate" => op.user # a
    /\ acReq' = [acReq EXCEPT ![r] = [at |-> "admitted", op |-> op, user |-> a,
                                      asked |-> acNow, self |-> acUsers[a]]]
    /\ UNCHANGED <<acNow, acUsers, acSettings, acTokens, acSockets, acSince, acLast,
                   acOverlap, acSelfOff>>

Goes(r, at, seen) ==
    acReq' = [acReq EXCEPT ![r] = [at |-> at, op |-> acReq[r].op, user |-> acReq[r].user,
                                   asked |-> acReq[r].asked, self |-> acReq[r].self,
                                   seen |-> seen]]
Refused(r) == acReq' = [acReq EXCEPT ![r] = Idle]

\* The row to change is loaded: refused if it is not there, or for a new user
\* if it is; a demotion of an administrator still has to count.
ACLoad(r) ==
    LET op == acReq[r].op
        row == IF op.user = acReq[r].user THEN acReq[r].self ELSE acUsers[op.user]
        known == acUsers[op.user].status # "unknown"
        demotes == op.kind = "update" /\ op.role = "operator" /\ row.role = "admin"
    IN  /\ acReq[r].at = "admitted"
        /\ \/ op.kind = "budget" /\ Goes(r, "loaded", acSettings.budget)
           \/ op.kind # "budget" /\ known = (op.kind = "create") /\ Refused(r)
           \/ /\ op.kind # "budget" /\ known # (op.kind = "create")
              /\ Goes(r, IF demotes THEN "guarding" ELSE "loaded", row)
        /\ UNCHANGED <<acNow, acUsers, acSettings, acTokens, acSockets, acOps, acSince,
                       acLast, acOverlap, acSelfOff>>

\* Mutant: inactive administrators are counted as well.
AdminCountAll == Cardinality({u \in Users : acUsers[u].role = "admin"})

AdminCount == Cardinality({u \in Users : ActiveAdmin(u)})

\* The only active administrator does not demote itself.
ACGuard(r) ==
    /\ acReq[r].at = "guarding"
    /\ IF AdminCount <= 1 /\ acReq[r].op.user = acReq[r].user THEN Refused(r)
       ELSE Goes(r, "loaded", acReq[r].seen)
    /\ UNCHANGED <<acNow, acUsers, acSettings, acTokens, acSockets, acOps, acSince, acLast,
                   acOverlap, acSelfOff>>

\* What a commit writes of a column: nothing if the value is the one loaded.
Written(loaded, asked, stored) == IF asked = loaded THEN stored ELSE asked
Or(field, loaded) == IF field = Keep THEN loaded ELSE field

Committed(r) ==
    /\ Refused(r)
    /\ acOverlap' = (acOverlap \/ \E q \in Requests \ {r} : Changing(q))

ACCommit(r) ==
    LET req == acReq[r]
        op == req.op
        stored == acUsers[op.user]
        status == CASE op.kind = "create" -> "active"
                    [] op.kind = "deactivate" -> Written(req.seen.status, "inactive", stored.status)
                    [] op.kind = "update" -> Written(req.seen.status, Or(op.status, req.seen.status),
                                                          stored.status)
        role == CASE op.kind = "create" -> op.role
                  [] op.kind = "deactivate" -> stored.role
                  [] op.kind = "update" -> Written(req.seen.role, Or(op.role, req.seen.role), stored.role)
    IN  /\ req.at = "loaded" /\ op.kind # "budget"
        /\ op.kind = "create" => stored.status = "unknown"
        /\ Committed(r)
        /\ acUsers' = [acUsers EXCEPT ![op.user] = [status |-> status, role |-> role]]
        /\ acSince' = [acSince EXCEPT
             ![op.user] = [off |-> IF status = "active" THEN NotSince
                                   ELSE IF Active(op.user) THEN acNow ELSE @.off,
                           plain |-> IF role = "admin" THEN NotSince
                                     ELSE IF stored.role = "admin" THEN acNow ELSE @.plain]]
        /\ acLast' = [acLast EXCEPT !.actors = {[user |-> req.user, asked |-> req.asked]}]
        /\ acSelfOff' = (acSelfOff \/ (op.user = req.user /\ status = "inactive"))
        /\ UNCHANGED <<acNow, acSettings, acTokens, acSockets, acOps>>

\* The unique index refuses the second of two accounts for one address, the
\* primary key the second first row of the settings: rolled back.
ACConflict(r) ==
    LET req == acReq[r]
    IN  /\ req.at = "loaded"
        /\ \/ req.op.kind = "create" /\ acUsers[req.op.user].status # "unknown"
           \/ req.op.kind = "budget" /\ req.seen = NotYet /\ acSettings.budget # NotYet
        /\ Refused(r)
        /\ UNCHANGED <<acNow, acUsers, acSettings, acTokens, acSockets, acOps, acSince,
                       acLast, acOverlap, acSelfOff>>

\* Mutant: a setting that has a row keeps it.
ACCommitBudgetOnce(r) ==
    LET req == acReq[r]
    IN  /\ req.at = "loaded" /\ req.op.kind = "budget"
        /\ req.seen = NotYet => acSettings.budget = NotYet
        /\ Committed(r)
        /\ acSettings' = IF req.seen = NotYet
                         THEN [budget |-> req.op.budget, threshold |-> req.op.threshold]
                         ELSE acSettings
        /\ acLast' = [actors |-> {[user |-> req.user, asked |-> req.asked]},
                      budget |-> req.op.budget, threshold |-> req.op.threshold]
        /\ UNCHANGED <<acNow, acUsers, acTokens, acSockets, acOps, acSince, acSelfOff>>

\* Both settings are written.  The query for the second flushes the first,
\* whose row lock holds back every other such request until the commit: only
\* the first can have been loaded before somebody else's commit.
ACCommitBudget(r) ==
    LET req == acReq[r]
    IN  /\ req.at = "loaded" /\ req.op.kind = "budget"
        /\ req.seen = NotYet => acSettings.budget = NotYet
        /\ Committed(r)
        /\ acSettings' = [budget |-> Written(req.seen, req.op.budget, acSettings.budget),
                          threshold |-> req.op.threshold]
        /\ acLast' = [actors |-> {[user |-> req.user, asked |-> req.asked]},
                      budget |-> req.op.budget, threshold |-> req.op.threshold]
        /\ UNCHANGED <<acNow, acUsers, acTokens, acSockets, acOps, acSince, acSelfOff>>

Changes(r) == ACLoad(r) \/ ACGuard(r) \/ ACCommit(r) \/ ACConflict(r) \/ ACCommitBudget(r)

AccessNext ==
    \/ ACTick
    \/ \E r \in Requests, u \in Users : ACLogin(r, u) \/ ACRefresh(r, u)
    \/ \E r \in Requests : ACIssue(r)
    \/ \E u \in Users : ACConnect(u)
    \/ ACDisconnect

ACNext ==
    \/ AccessNext
    \/ \E r \in Requests, a \in Users, op \in RosterOps \cup BudgetOps : ACAdmit(r, a, op)
    \/ \E r \in Requests : Changes(r)

ACSpec == ACInit /\ [][ACNext]_acVars

-----------------------------------------------------------------------------
(* What must hold.                                                         *)

\* An active administrator remains, unless one made the own account inactive
\* or changes overlapped: neither is caught by the guard.
AdminRemains == acOverlap \/ acSelfOff \/ \E u \in Users : ActiveAdmin(u)

\* The settings stored are those of the request committed last; where changes
\* overlapped the budget, alone, may be an earlier one's.
SettingsAsSubmitted ==
    /\ acSettings.threshold = acLast.threshold
    /\ acOverlap \/ acSettings.budget = acLast.budget

\* What administrators ask for one at a time leaves the system administrable
\* and the settings as asked for.
AdministrationSound == AdminRemains /\ SettingsAsSubmitted

\* Whatever tokens a user still holds, what is issued to, opened by or changed
\* by somebody inactive was checked no later than the deactivation, and what
\* is changed by somebody who is no administrator no later than the demotion.
RevokedAtCheck ==
    \A u \in Users :
        /\ ~Active(u) =>
             /\ \A t \in acTokens \cup acSockets \cup acLast.actors :
                  t.user = u => t.asked <= acSince[u].off
        /\ acUsers[u].role # "admin" =>
             \A t \in acLast.actors : t.user = u => t.asked <= acSince[u].plain
=============================================================================
