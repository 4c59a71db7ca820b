-------------------------- MODULE SessionLifecycle --------------------------
(***************************************************************************)
(* The requests that configure, start and stop sessions                    *)
(* (api/routes/sessions.py) against the database, the active-sessions      *)
(* gauge and the kill-switch channel.                                      *)
(*                                                                         *)
(* Each request reads the row, checks the status it read and commits its   *)
(* change by primary key: at READ COMMITTED nothing stops the row from     *)
(* changing between the read and the commit.  The gauge lives in the       *)
(* process and is seeded from the database when it starts, or left at zero *)
(* when that query fails.                                                  *)
(***************************************************************************)
EXTENDS Integers, FiniteSets

CONSTANTS
  Sessions,
  Requests,    \* HTTP requests, each made once
  Kind,        \* "start", "stop" or "update"
  Of,          \* the session a request names
  Overlap,     \* may two requests for one session be in flight at once?
  Faults,      \* what may fail: "db", "redis"
  MaxRestarts  \* bound: restarts of the process

ASSUME RequestsAssumption ==
  /\ IsFiniteSet(Sessions) /\ IsFiniteSet(Requests)
  /\ Kind \in [Requests -> {"start", "stop", "update"}]
  /\ Of \in [Requests -> Sessions]
ASSUME OptionsAssumption ==
  Overlap \in BOOLEAN /\ Faults \subseteq {"db", "redis"} /\ MaxRestarts \in Nat

VARIABLES
  status,    \* sessions.status
  edits,     \* how often an update has been committed
  pc,        \* where each request is
  gauge,     \* active_sessions_gauge
  announced, \* sessions whose kill-switch was published
  finished,  \* history: sessions whose ended_at is set
  restarts,
  missed     \* history: sessions that a failed seed query left uncounted

row == <<status, edits, finished>>
process == <<restarts, missed>>
vars == <<row, pc, gauge, announced, process>>

InFlight(r) == pc[r] \in {"commit", "count", "refresh", "publish"}

Init ==
  /\ status = [s \in Sessions |-> "draft"]
  /\ edits = [s \in Sessions |-> 0]
  /\ finished = {}
  /\ pc = [r \in Requests |-> "new"]
  /\ gauge = 0
  /\ announced = {}
  /\ restarts = 0
  /\ missed = 0

Goto(r, place) == pc' = [pc EXCEPT ![r] = place]

-----------------------------------------------------------------------------

\* Mutant: a session may be started unless it runs.
AllowedAgain(r) == status[Of[r]] = "active" <=> Kind[r] = "stop"

\* The status check of each endpoint.
Allowed(r) == status[Of[r]] = (IF Kind[r] = "stop" THEN "active" ELSE "draft")

\* _get_operator_session and the check; a refused request answers 409.
Read(r) ==
  /\ pc[r] = "new"
  /\ Overlap \/ \A q \in Requests : Of[q] = Of[r] => ~InFlight(q)
  /\ Goto(r, IF Allowed(r) THEN "commit" ELSE "done")
  /\ UNCHANGED <<row, gauge, announced, process>>

\* The assignments become an UPDATE by primary key.
Commit(r) ==
  /\ pc[r] = "commit"
  /\ Goto(r, IF Kind[r] = "update" THEN "refresh" ELSE "count")
  /\ status' = CASE Kind[r] = "start" -> [status EXCEPT ![Of[r]] = "active"]
                 [] Kind[r] = "stop" -> [status EXCEPT ![Of[r]] = "ended"]
                 [] OTHER -> status
  /\ edits' = IF Kind[r] = "update" THEN [edits EXCEPT ![Of[r]] = @ + 1] ELSE edits
  /\ finished' = IF Kind[r] = "stop" THEN finished \cup {Of[r]} ELSE finished
  /\ UNCHANGED <<gauge, announced, process>>

\* Mutant: the failed commit is logged and the request goes on.
CommitFailsOnward(r) ==
  /\ pc[r] = "commit" /\ "db" \in Faults
  /\ Goto(r, "refresh")
  /\ UNCHANGED <<row, gauge, announced, process>>

CommitFails(r) ==
  /\ pc[r] = "commit" /\ "db" \in Faults
  /\ Goto(r, "done")
  /\ UNCHANGED <<row, gauge, announced, process>>

Count(r) ==
  /\ pc[r] = "count"
  /\ gauge' = gauge + (IF Kind[r] = "start" THEN 1 ELSE -1)
  /\ Goto(r, "refresh")
  /\ UNCHANGED <<row, announced, process>>

\* Mutant: every request publishes the kill-switch.
AlwaysPublish(r) == "publish"

AfterRefresh(r) == IF Kind[r] = "stop" THEN "publish" ELSE "done"

\* A refresh that fails answers 500 and skips the kill-switch.
Refresh(r) ==
  /\ pc[r] = "refresh"
  /\ Goto(r, AfterRefresh(r)) \/ ("db" \in Faults /\ Goto(r, "done"))
  /\ UNCHANGED <<row, gauge, announced, process>>

\* A failing publish is logged.
Publish(r) ==
  /\ pc[r] = "publish"
  /\ Goto(r, "done")
  /\ announced' = announced \cup {Of[r]} \/ ("redis" \in Faults /\ UNCHANGED announced)
  /\ UNCHANGED <<row, gauge, process>>

Active == {s \in Sessions : status[s] = "active"}

\* Mutant: the gauge starts at zero.
SeedNothing == 0

\* lifespan: the count of the active rows.
SeedGauge == Cardinality(Active)

\* The process dies with the requests in flight and comes back.  A seed query
\* that fails is logged and leaves the new process's gauge at zero.
Restart ==
  /\ restarts < MaxRestarts
  /\ restarts' = restarts + 1
  /\ pc' = [r \in Requests |-> IF InFlight(r) THEN "done" ELSE pc[r]]
  /\ \/ gauge' = SeedGauge /\ missed' = 0
     \/ "db" \in Faults /\ gauge' = 0 /\ missed' = Cardinality(Active)
  /\ UNCHANGED <<row, announced>>

-----------------------------------------------------------------------------

Serve(r) ==
  Read(r) \/ Commit(r) \/ CommitFails(r) \/ Count(r) \/ Refresh(r) \/ Publish(r)

Next == Restart \/ \E r \in Requests : Serve(r)

Spec == Init /\ [][Next]_vars

-----------------------------------------------------------------------------
(* Properties.                                                             *)

TypeOK ==
  /\ status \in [Sessions -> {"draft", "active", "ended"}]
  /\ edits \in [Sessions -> 0 .. Cardinality(Requests)]
  /\ pc \in [Requests -> {"new", "commit", "count", "refresh", "publish", "done"}]
  /\ \A r \in Requests : pc[r] = "publish" => Kind[r] = "stop"
  /\ gauge \in Int
  /\ announced \subseteq Sessions /\ finished \subseteq Sessions
  /\ restarts \in 0 .. MaxRestarts /\ missed \in 0 .. Cardinality(Sessions)

\* The kill-switch is published only for a session whose end is committed, so
\* a page that reconnects at once finds the session ended.
KillFollowsCommit == announced \subseteq finished

\* metrics.py:33: with one request at a time per session, once no request is
\* between its commit and its count the gauge is the number of active sessions,
\* less those the last start of the process missed because its seed query
\* failed: nothing else that fails or restarts makes it drift, and the next
\* start whose query succeeds makes up for it.
GaugeCountsActive ==
  (\A r \in Requests : pc[r] # "count") => gauge + missed = Cardinality(Active)

\* The promise of the endpoints, kept when the requests for one session do not
\* overlap: see SessionLife.
Life == INSTANCE SessionLife
ImplementsLife == Life!Spec

\* What overlapping requests break, in sessions.py:260: "Transition a session from draft to active."
StartsFromDraft ==
  [][\A s \in Sessions :
       status[s] # "active" /\ status'[s] = "active" => status[s] = "draft"]_vars
=============================================================================
