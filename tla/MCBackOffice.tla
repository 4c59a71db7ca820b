---------------------------- MODULE MCBackOffice ----------------------------
(***************************************************************************)
(* Small instances of Housekeeping and Accounts in one run.  They share no *)
(* variable; part picks at the start what runs, and with which faults:     *)
(*   rows      one worker, a session that is spoken in, stopped and purged *)
(*   files     an active session, two captions of the same text, two       *)
(*             workers of which one may end                                *)
(*   access    logins, refreshes and sockets beside changes of the roster  *)
(*             that touch the status of users                              *)
(*   roster    two changes of the roster of any kind                       *)
(*   settings  changes of the budget settings                              *)
(***************************************************************************)
EXTENDS Housekeeping, Accounts

CONSTANTS w1, w2, s1, x1, q1, q2, a1, a2, o1

ASSUME BackOfficeAssumption == {w1, w2} \subseteq Workers /\ {a1, a2, o1} \subseteq Users

VARIABLE part

MCVars == <<part, hkVars, acVars>>

MCInit ==
    /\ part \in {"rows", "files", "access", "roster", "settings"}
    /\ HKInit /\ Up(w1) /\ (Up(w2) <=> part = "files")
    /\ ACInit /\ ActiveAdmin(a1)
    /\ acUsers[o1] = [status |-> IF part = "roster" THEN "unknown" ELSE "active",
                      role |-> "operator"]
    /\ part # "roster" => acUsers[a2] = [status |-> "inactive", role |-> "admin"]

Running(p) == part = p /\ UNCHANGED part

Rows(A) ==
    /\ Running("rows") /\ A /\ UNCHANGED acVars
    /\ ~Up(w2)' /\ hkFaults' <= 1
    /\ Cardinality(hkSpeaking') <= 1 /\ \A v \in hkSpeaking' : v.stage = "translating"

Files(A) ==
    /\ Running("files") /\ A /\ UNCHANGED acVars
    /\ Len(hkLog') <= 2 /\ hkNow' <= 2

House(A) == Rows(A) \/ Files(A)

Desk(p, A) == Running(p) /\ A /\ UNCHANGED hkVars

\* Changes of nothing but the status of a user.
StatusOps ==
    {op \in RosterOps : \/ op.kind = "deactivate"
                        \/ op.kind = "update" /\ op.role = Keep /\ op.status # Keep}

MCNext ==
    \/ Rows(RowsNext)
    \/ Files(FilesNext \/ HKTick \/ HKDown(w2) \/ HKRetentionPass(w1))
    \/ \E s \in Sessions : Files(HKIngest(s))
    \/ \E w \in Workers, s \in Sessions, x \in Texts : Files(HKCaption(w, s, x))
    \/ Files(\E v \in hkSpeaking : HKTranslated(v))
    \/ Desk("access", AccessNext \/ \E r \in Requests : Changes(r))
    \/ \E r \in Requests, op \in StatusOps : Desk("access", ACAdmit(r, a1, op))
    \/ \E r \in Requests, a \in Users, op \in RosterOps :
         Desk("roster", ACAdmit(r, a, op) /\ acOps' <= 2)
    \/ \E r \in Requests, op \in BudgetOps : Desk("settings", ACAdmit(r, a1, op))
    \/ \E r \in Requests : Desk("roster", Changes(r)) \/ Desk("settings", Changes(r))

MCSpec ==
    /\ MCInit /\ [][MCNext]_MCVars
    /\ WF_MCVars(House(HKRetentionPass(w1)))
    /\ \A w \in Workers : WF_MCVars(Files(HKEvictRemove(w)))
    /\ \A w \in Workers, x \in Texts : WF_MCVars(Files(HKEvictRead(w, x)))

\* The variables of the two modules stay within their ranges: no translation
\* without its caption, no change under way for somebody who was no active
\* administrator when it was admitted.
BackOfficeTypeOK == HKTypeOK /\ ACTypeOK
=============================================================================
