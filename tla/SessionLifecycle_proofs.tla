----------------------- MODULE SessionLifecycle_proofs -----------------------
(***************************************************************************)
(* What holds of the session endpoints for every set of sessions and       *)
(* requests.                                                               *)
(*                                                                         *)
(* The kill-switch follows the commit whatever overlaps: a request that is *)
(* past its commit has committed.  The promise of SessionLife needs that   *)
(* certain requests for one session do not overlap: two starts, two stops, *)
(* a start and an update; then a request that has read a status commits    *)
(* while the row still has it.  The gauge, which lags behind the rows by   *)
(* the requests that have committed but not yet counted, needs the first   *)
(* two.                                                                    *)
(***************************************************************************)
EXTENDS SessionLifecycle, FiniteSetTheorems, TLAPS

LEMMA Typing ==
  /\ Kind \in [Requests -> {"start", "stop", "update"}]
  /\ Of \in [Requests -> Sessions]
BY RequestsAssumption

-----------------------------------------------------------------------------
(* The kill-switch.                                                        *)

Places == {"new", "commit", "count", "refresh", "publish", "done"}

PcOK == pc \in [Requests -> Places]

\* A stop that has not failed is past its commit only if the end is committed.
StopsCommitted ==
  \A r \in Requests :
    Kind[r] = "stop" /\ pc[r] \in {"count", "refresh", "publish"} => Of[r] \in finished

OnlyStopsPublish == \A r \in Requests : pc[r] = "publish" => Kind[r] = "stop"

KInv == PcOK /\ StopsCommitted /\ OnlyStopsPublish /\ KillFollowsCommit

LEMMA KInvInit == Init => KInv
BY DEF Init, KInv, PcOK, Places, StopsCommitted, OnlyStopsPublish, KillFollowsCommit

LEMMA KInvStep == KInv /\ [Next]_vars => KInv'
<1> SUFFICES ASSUME KInv, [Next]_vars PROVE KInv'
  OBVIOUS
<1> USE DEF KInv, PcOK, Places, StopsCommitted, OnlyStopsPublish, KillFollowsCommit
<1>1. ASSUME NEW r \in Requests, Read(r) PROVE KInv'
  BY <1>1 DEF Read, Goto, row
<1>2. ASSUME NEW r \in Requests, Commit(r) PROVE KInv'
  <2>1. pc' = [pc EXCEPT ![r] = IF Kind[r] = "update" THEN "refresh" ELSE "count"]
    BY <1>2 DEF Commit, Goto
  <2>2. finished' = IF Kind[r] = "stop" THEN finished \cup {Of[r]} ELSE finished
    BY <1>2 DEF Commit
  <2>3. announced' = announced
    BY <1>2 DEF Commit
  <2> QED BY <2>1, <2>2, <2>3
<1>3. ASSUME NEW r \in Requests, CommitFails(r) PROVE KInv'
  BY <1>3 DEF CommitFails, Goto, row
<1>4. ASSUME NEW r \in Requests, Count(r) PROVE KInv'
  BY <1>4 DEF Count, Goto, row
<1>5. ASSUME NEW r \in Requests, Refresh(r) PROVE KInv'
  <2>1. \/ pc' = [pc EXCEPT ![r] = AfterRefresh(r)]
        \/ pc' = [pc EXCEPT ![r] = "done"]
    BY <1>5 DEF Refresh, Goto
  <2>2. pc[r] = "refresh" /\ UNCHANGED <<announced, finished>>
    BY <1>5 DEF Refresh, row
  <2> QED BY <2>1, <2>2 DEF AfterRefresh
<1>6. ASSUME NEW r \in Requests, Publish(r) PROVE KInv'
  BY <1>6 DEF Publish, Goto, row
<1>7. CASE Restart
  BY <1>7 DEF Restart, InFlight, row
<1>8. CASE UNCHANGED vars
  BY <1>8 DEF vars, row
<1> QED
  BY <1>1, <1>2, <1>3, <1>4, <1>5, <1>6, <1>7, <1>8 DEF Next, Serve

\* The kill-switch is published only for sessions whose end is committed, even
\* when requests for a session overlap, commits fail and the process restarts.
THEOREM KillAfterCommit == Spec => []KillFollowsCommit
<1>1. Spec => []KInv
  BY KInvInit, KInvStep, PTL DEF Spec
<1> QED
  BY <1>1, PTL DEF KInv

-----------------------------------------------------------------------------
(* The life of a session, and what must not overlap for it.                *)

\* Two starts, or two stops, of one session.
Twins(q, r) == q # r /\ Of[q] = Of[r] /\ Kind[q] = Kind[r] /\ Kind[r] # "update"

StartAndUpdate(q, r) == Of[q] = Of[r] /\ {Kind[q], Kind[r]} = {"start", "update"}

\* No request reads the row while its twin, or a start while an update and an
\* update while a start, is between its own read and its commit.
TwinsApart == \A q, r \in Requests : Read(r) /\ Twins(q, r) => pc[q] # "commit"
UpdatesApart == \A q, r \in Requests : Read(r) /\ StartAndUpdate(q, r) => pc[q] # "commit"

TypeInv ==
  /\ status \in [Sessions -> {"draft", "active", "ended"}]
  /\ edits \in [Sessions -> Int]
  /\ PcOK

\* What a start or a stop has read is still so when it commits: twins are kept
\* apart, and what one has read the other cannot have read.
TurnsRead == \A r \in Requests : pc[r] = "commit" /\ Kind[r] # "update" => Allowed(r)
TwinsOut == \A q, r \in Requests : Twins(q, r) => ~(pc[q] = "commit" /\ pc[r] = "commit")

RInv == TypeInv /\ TurnsRead /\ TwinsOut

\* The same for an update.
UpdatesRead == \A r \in Requests : pc[r] = "commit" /\ Kind[r] = "update" => Allowed(r)
UpdatesOut ==
  \A q, r \in Requests : StartAndUpdate(q, r) => ~(pc[q] = "commit" /\ pc[r] = "commit")

UInv == UpdatesRead /\ UpdatesOut

LEMMA RInvInit == Init => RInv /\ UInv
BY DEF Init, RInv, TypeInv, PcOK, Places, TurnsRead, TwinsOut, UInv, UpdatesRead, UpdatesOut

LEMMA ReadEffect ==
  ASSUME NEW r \in Requests, Read(r)
  PROVE  /\ pc[r] = "new" /\ UNCHANGED <<status, edits>>
         /\ pc' = [pc EXCEPT ![r] = IF Allowed(r) THEN "commit" ELSE "done"]
BY DEF Read, Goto, row

LEMMA CommitEffect ==
  ASSUME NEW r \in Requests, Commit(r)
  PROVE  /\ pc[r] = "commit" /\ gauge' = gauge /\ missed' = missed
         /\ pc' = [pc EXCEPT ![r] = IF Kind[r] = "update" THEN "refresh" ELSE "count"]
         /\ Kind[r] = "update" => status' = status
         /\ Kind[r] = "start" => status' = [status EXCEPT ![Of[r]] = "active"]
         /\ Kind[r] = "stop" => status' = [status EXCEPT ![Of[r]] = "ended"]
         /\ edits' = IF Kind[r] = "update" THEN [edits EXCEPT ![Of[r]] = @ + 1] ELSE edits
BY DEF Commit, Goto, process

\* Every other step: nobody comes to its commit, and the rows stay.
LEMMA OtherEffect ==
  ASSUME PcOK,
         \/ \E r \in Requests : CommitFails(r) \/ Count(r) \/ Refresh(r) \/ Publish(r)
         \/ Restart
         \/ UNCHANGED vars
  PROVE  /\ PcOK' /\ UNCHANGED <<status, edits>>
         /\ \A q \in Requests : pc'[q] = "commit" => pc[q] = "commit"
<1> USE DEF PcOK, Places
<1>1. ASSUME NEW r \in Requests, CommitFails(r) \/ Count(r) \/ Refresh(r) \/ Publish(r)
      PROVE  /\ UNCHANGED <<status, edits>>
             /\ \E place \in {"refresh", "publish", "done"} : pc' = [pc EXCEPT ![r] = place]
  BY <1>1 DEF CommitFails, Count, Refresh, Publish, Goto, AfterRefresh, row
<1>2. CASE \E r \in Requests : CommitFails(r) \/ Count(r) \/ Refresh(r) \/ Publish(r)
  BY <1>1, <1>2
<1>3. CASE Restart
  BY <1>3 DEF Restart, row
<1>4. CASE UNCHANGED vars
  BY <1>4 DEF vars, row
<1> QED BY <1>2, <1>3, <1>4

LEMMA RInvStep == RInv /\ [Next /\ TwinsApart]_vars => RInv'
<1> SUFFICES ASSUME RInv, [Next /\ TwinsApart]_vars PROVE RInv'
  OBVIOUS
<1> USE Typing DEF RInv, TypeInv, PcOK, Places, TurnsRead, TwinsOut, Allowed, Twins
<1>1. ASSUME NEW r \in Requests, Read(r), TwinsApart PROVE RInv'
  <2>1. /\ UNCHANGED <<status, edits>>
        /\ pc' = [pc EXCEPT ![r] = IF Allowed(r) THEN "commit" ELSE "done"]
    BY <1>1, ReadEffect
  <2>2. \A q \in Requests : Twins(q, r) \/ Twins(r, q) => pc[q] # "commit"
    BY <1>1 DEF TwinsApart
  <2>3. TypeInv'
    BY <2>1
  <2>4. TurnsRead'
    BY <2>1
  <2>5. TwinsOut'
    BY <2>1, <2>2
  <2> QED BY <2>3, <2>4, <2>5
<1>2. ASSUME NEW r \in Requests, Commit(r) PROVE RInv'
  <2>1. /\ pc[r] = "commit"
        /\ pc' = [pc EXCEPT ![r] = IF Kind[r] = "update" THEN "refresh" ELSE "count"]
        /\ Kind[r] = "update" => status' = status
        /\ Kind[r] = "start" => status' = [status EXCEPT ![Of[r]] = "active"]
        /\ Kind[r] = "stop" => status' = [status EXCEPT ![Of[r]] = "ended"]
        /\ edits' = IF Kind[r] = "update" THEN [edits EXCEPT ![Of[r]] = @ + 1] ELSE edits
    BY <1>2, CommitEffect
  <2>2. status' \in [Sessions -> {"draft", "active", "ended"}]
    BY <2>1
  <2>3. edits' \in [Sessions -> Int] /\ PcOK'
    BY <2>1
  <2>4. TurnsRead'
    <3> SUFFICES ASSUME NEW q \in Requests, pc'[q] = "commit", Kind[q] # "update"
                 PROVE  Allowed(q)'
      OBVIOUS
    <3>1. q # r /\ pc[q] = "commit" /\ Allowed(q)
      BY <2>1
    <3>2. Kind[r] # "update" => Of[q] # Of[r]
      BY <2>1, <3>1
    <3>3. status'[Of[q]] = status[Of[q]]
      BY <2>1, <3>2
    <3> QED BY <3>1, <3>3
  <2>5. TwinsOut'
    BY <2>1
  <2> QED BY <2>2, <2>3, <2>4, <2>5
<1>3. CASE \/ \E r \in Requests : CommitFails(r) \/ Count(r) \/ Refresh(r) \/ Publish(r)
           \/ Restart
           \/ UNCHANGED vars
  <2>1. /\ PcOK' /\ UNCHANGED <<status, edits>>
        /\ \A q \in Requests : pc'[q] = "commit" => pc[q] = "commit"
    BY <1>3, OtherEffect
  <2> QED BY <2>1
<1> QED BY <1>1, <1>2, <1>3 DEF Next, Serve

LEMMA UInvStep == RInv /\ UInv /\ [Next /\ UpdatesApart]_vars => UInv'
<1> SUFFICES ASSUME RInv, UInv, [Next /\ UpdatesApart]_vars PROVE UInv'
  OBVIOUS
<1> USE Typing DEF UInv, UpdatesRead, UpdatesOut, Allowed, StartAndUpdate
<1>1. /\ status \in [Sessions -> {"draft", "active", "ended"}] /\ pc \in [Requests -> Places]
      /\ PcOK
  BY DEF RInv, TypeInv, PcOK
<1>2. ASSUME NEW r \in Requests, Read(r), UpdatesApart PROVE UInv'
  <2>1. /\ UNCHANGED <<status, edits>>
        /\ pc' = [pc EXCEPT ![r] = IF Allowed(r) THEN "commit" ELSE "done"]
    BY <1>2, ReadEffect
  <2>2. \A q \in Requests :
          StartAndUpdate(q, r) \/ StartAndUpdate(r, q) => pc[q] # "commit"
    BY <1>2 DEF UpdatesApart
  <2>3. UpdatesRead'
    BY <1>1, <2>1
  <2>4. UpdatesOut'
    BY <1>1, <2>1, <2>2
  <2> QED BY <2>3, <2>4
<1>3. ASSUME NEW r \in Requests, Commit(r) PROVE UInv'
  <2>1. /\ pc[r] = "commit"
        /\ pc' = [pc EXCEPT ![r] = IF Kind[r] = "update" THEN "refresh" ELSE "count"]
        /\ Kind[r] = "update" => status' = status
        /\ Kind[r] = "start" => status' = [status EXCEPT ![Of[r]] = "active"]
        /\ Kind[r] = "stop" => status' = [status EXCEPT ![Of[r]] = "ended"]
    BY <1>3, CommitEffect
  <2>2. Kind[r] = "stop" => status[Of[r]] = "active"
    BY <2>1 DEF RInv, TurnsRead
  <2>3. UpdatesRead'
    <3> SUFFICES ASSUME NEW q \in Requests, pc'[q] = "commit", Kind[q] = "update"
                 PROVE  Allowed(q)'
      OBVIOUS
    <3>1. q # r /\ pc[q] = "commit" /\ status[Of[q]] = "draft"
      BY <1>1, <2>1
    <3>2. Kind[r] # "update" => Of[q] # Of[r]
      BY <2>1, <2>2, <3>1
    <3>3. status'[Of[q]] = status[Of[q]]
      BY <1>1, <2>1, <3>2
    <3> QED BY <3>1, <3>3
  <2>4. UpdatesOut'
    BY <1>1, <2>1
  <2> QED BY <2>3, <2>4
<1>4. CASE \/ \E r \in Requests : CommitFails(r) \/ Count(r) \/ Refresh(r) \/ Publish(r)
           \/ Restart
           \/ UNCHANGED vars
  <2>1. /\ UNCHANGED <<status, edits>>
        /\ \A q \in Requests : pc'[q] = "commit" => pc[q] = "commit"
    BY <1>1, <1>4, OtherEffect
  <2> QED BY <2>1
<1> QED BY <1>2, <1>3, <1>4 DEF Next, Serve

\* One request at a time for each session keeps all of them apart.
LEMMA SerialIsApart ==
  ASSUME ~Overlap
  PROVE  [Next]_vars => [Next /\ TwinsApart]_vars /\ [Next /\ TwinsApart /\ UpdatesApart]_vars
<1>1. TwinsApart /\ UpdatesApart
  BY DEF TwinsApart, UpdatesApart, Twins, StartAndUpdate, Read, InFlight
<1> QED BY <1>1

\* Two starts, or two stops, of one session that read the row before either
\* commits are all that can start a session anew: when none do, a session
\* becomes active from draft only, whatever else overlaps, fails or restarts.
THEOREM StartsOnceUnlessTwins == Init /\ [][Next /\ TwinsApart]_vars => StartsFromDraft
<1>1. RInv /\ [Next /\ TwinsApart]_vars =>
        [\A s \in Sessions :
           status[s] # "active" /\ status'[s] = "active" => status[s] = "draft"]_vars
  <2> SUFFICES ASSUME RInv, [Next /\ TwinsApart]_vars, NEW s \in Sessions,
                      status[s] # "active", status'[s] = "active"
               PROVE  status[s] = "draft"
    OBVIOUS
  <2>1. status \in [Sessions -> {"draft", "active", "ended"}] /\ PcOK
    BY DEF RInv, TypeInv
  <2>2. PICK r \in Requests : Commit(r)
    BY <2>1, ReadEffect, OtherEffect DEF Next, Serve
  <2>3. Kind[r] = "start" /\ s = Of[r] /\ pc[r] = "commit"
    BY <2>1, <2>2, CommitEffect, Typing
  <2> QED BY <2>3 DEF RInv, TurnsRead, Allowed
<1> QED BY <1>1, RInvInit, RInvStep, PTL DEF StartsFromDraft

\* A step in which requests commit what they have read is a step of SessionLife
\* or leaves status and edits alone.
LEMMA LifeStep ==
  TypeInv /\ TurnsRead /\ UpdatesRead /\ [Next]_vars => [Life!Next]_<<status, edits>>
<1> SUFFICES ASSUME TypeInv, TurnsRead, UpdatesRead, [Next]_vars
             PROVE  [Life!Next]_<<status, edits>>
  OBVIOUS
<1>1. ASSUME NEW r \in Requests, Commit(r) PROVE Life!Next
  <2> DEFINE s == Of[r]
  <2>1. s \in Sessions /\ status[s] = IF Kind[r] = "stop" THEN "active" ELSE "draft"
    BY <1>1, Typing, CommitEffect DEF TurnsRead, UpdatesRead, Allowed
  <2>2. CASE Kind[r] = "start"
    <3>1. Life!Start(s)
      BY <1>1, <2>1, <2>2, CommitEffect DEF Life!Start
    <3> QED BY <2>1, <3>1 DEF Life!Next
  <2>3. CASE Kind[r] = "stop"
    <3>1. Life!Stop(s)
      BY <1>1, <2>1, <2>3, CommitEffect DEF Life!Stop
    <3> QED BY <2>1, <3>1 DEF Life!Next
  <2>4. CASE Kind[r] = "update"
    <3>1. Life!Configure(s)
      BY <1>1, <2>1, <2>4, CommitEffect DEF Life!Configure
    <3> QED BY <2>1, <3>1 DEF Life!Next
  <2> QED BY <2>2, <2>3, <2>4, Typing
<1>2. ASSUME ~ \E r \in Requests : Commit(r) PROVE UNCHANGED <<status, edits>>
  BY <1>2, ReadEffect, OtherEffect DEF TypeInv, Next, Serve
<1> QED BY <1>1, <1>2

\* The endpoints implement SessionLife (configured as a draft, started once,
\* ended once) as long as no two starts, no two stops and no start and update of
\* one session overlap; two updates may, and a stop may overlap a start or an
\* update.
THEOREM LifeUnlessTheyMeet ==
  Init /\ [][Next /\ TwinsApart /\ UpdatesApart]_vars => ImplementsLife
<1>1. Init => Life!Init
  BY DEF Init, Life!Init
<1>2. [Next /\ TwinsApart /\ UpdatesApart]_vars =>
        [Next]_vars /\ [Next /\ TwinsApart]_vars /\ [Next /\ UpdatesApart]_vars
  OBVIOUS
<1>3. RInv /\ UInv /\ [Next /\ TwinsApart /\ UpdatesApart]_vars => (RInv /\ UInv)'
  BY <1>2, RInvStep, UInvStep
<1>4. RInv /\ UInv /\ [Next /\ TwinsApart /\ UpdatesApart]_vars
        => [Life!Next]_<<status, edits>>
  BY <1>2, LifeStep DEF RInv, UInv
<1> QED BY <1>1, <1>3, <1>4, RInvInit, PTL DEF ImplementsLife, Life!Spec

\* With one request at a time for each session, the endpoints implement
\* SessionLife.
THEOREM EndpointsImplementLife == ASSUME ~Overlap PROVE Spec => ImplementsLife
<1>1. [Next]_vars => [Next /\ TwinsApart /\ UpdatesApart]_vars
  BY SerialIsApart
<1> QED BY <1>1, LifeUnlessTheyMeet, PTL DEF Spec

-----------------------------------------------------------------------------
(* Types.                                                                  *)

\* Requests that are past their commit, or never reach it.
Past == {r \in Requests : pc[r] \notin {"new", "commit"}}

TInv ==
  /\ KInv
  /\ status \in [Sessions -> {"draft", "active", "ended"}]
  /\ edits \in [Sessions -> Nat] /\ \A s \in Sessions : edits[s] <= Cardinality(Past)
  /\ gauge \in Int /\ finished \subseteq Sessions /\ restarts \in 0 .. MaxRestarts
  /\ missed \in 0 .. Cardinality(Sessions)

LEMMA Finite ==
  ASSUME NEW T \in SUBSET Requests
  PROVE  IsFiniteSet(T) /\ Cardinality(T) \in Nat /\ Cardinality(T) <= Cardinality(Requests)
BY RequestsAssumption, FS_Subset, FS_CardinalityType

LEMMA FiniteSessions ==
  ASSUME NEW T \in SUBSET Sessions
  PROVE  IsFiniteSet(T) /\ Cardinality(T) \in Nat
BY RequestsAssumption, FS_Subset, FS_CardinalityType

\* Requests only move on.
LEMMA PastGrows ==
  ASSUME TInv, Past \subseteq Past', UNCHANGED edits
  PROVE  \A s \in Sessions : edits'[s] <= Cardinality(Past)'
<1>1. Past' \in SUBSET Requests /\ Past \in SUBSET Requests
  BY DEF Past
<1>2. Cardinality(Past) <= Cardinality(Past') /\ Cardinality(Past) \in Nat /\ Cardinality(Past') \in Nat
  BY <1>1, Finite, FS_Subset
<1>3. Cardinality(Past)' = Cardinality(Past')
  OBVIOUS
<1> QED BY <1>2, <1>3 DEF TInv

LEMMA TInvStep == TInv /\ [Next]_vars => TInv'
<1> SUFFICES ASSUME TInv, [Next]_vars PROVE TInv'
  OBVIOUS
<1> USE DEF TInv
<1>1. KInv'
  BY KInvStep
<1>2. PcOK /\ PcOK'
  BY <1>1 DEF KInv
<1>3. ASSUME NEW r \in Requests, Commit(r) PROVE TInv'
  <2>1. /\ pc[r] = "commit"
        /\ pc' = [pc EXCEPT ![r] = IF Kind[r] = "update" THEN "refresh" ELSE "count"]
        /\ UNCHANGED <<gauge, process>> /\ Of[r] \in Sessions
    BY <1>3, Typing DEF Commit, Goto
  <2>2. status' \in [Sessions -> {"draft", "active", "ended"}] /\ finished' \subseteq Sessions
    <3>1. CASE Kind[r] = "start"
      BY <1>3, <2>1, <3>1 DEF Commit
    <3>2. CASE Kind[r] = "stop"
      BY <1>3, <2>1, <3>2 DEF Commit
    <3>3. CASE Kind[r] = "update"
      BY <1>3, <2>1, <3>3 DEF Commit
    <3> QED BY <3>1, <3>2, <3>3, Typing
  <2>3. Past' = Past \cup {r} /\ r \notin Past /\ Past \in SUBSET Requests
    BY <1>2, <2>1 DEF Past, PcOK
  <2>4. Cardinality(Past') = Cardinality(Past) + 1 /\ Cardinality(Past) \in Nat
    BY <2>3, Finite, FS_AddElement
  <2>5. edits' = edits \/ edits' = [edits EXCEPT ![Of[r]] = @ + 1]
    BY <1>3 DEF Commit
  <2>6. edits' \in [Sessions -> Nat] /\ \A s \in Sessions : edits'[s] <= edits[s] + 1
    BY <2>1, <2>5
  <2>7. \A s \in Sessions : edits'[s] <= Cardinality(Past') /\ edits[s] \in Nat
    BY <2>4, <2>6
  <2> QED BY <1>1, <2>1, <2>2, <2>6, <2>7 DEF process
<1>4. ASSUME UNCHANGED <<row, process>>, gauge' \in Int, Past \subseteq Past'
      PROVE  TInv'
  BY <1>1, <1>4, PastGrows DEF row, process
<1>5. ASSUME NEW r \in Requests, Read(r) \/ CommitFails(r) PROVE TInv'
  <2>1. /\ pc[r] \in {"new", "commit"} /\ \E place : pc' = [pc EXCEPT ![r] = place]
        /\ UNCHANGED <<row, gauge, process>>
    BY <1>5 DEF Read, CommitFails, Goto
  <2>2. Past \subseteq Past'
    BY <1>2, <2>1 DEF Past, PcOK
  <2> QED BY <1>4, <2>1, <2>2
<1>6. ASSUME NEW r \in Requests, Count(r) \/ Refresh(r) \/ Publish(r) PROVE TInv'
  <2>1. /\ \E place \in {"refresh", "publish", "done"} : pc' = [pc EXCEPT ![r] = place]
        /\ UNCHANGED <<row, process>>
    BY <1>6 DEF Count, Refresh, Publish, Goto, AfterRefresh
  <2>2. Past \subseteq Past'
    BY <1>2, <2>1 DEF Past, PcOK
  <2>3. gauge' \in Int
    BY <1>6 DEF Count, Refresh, Publish
  <2> QED BY <1>4, <2>1, <2>2, <2>3
<1>7. CASE Restart
  <2>1. /\ pc' = [r \in Requests |-> IF InFlight(r) THEN "done" ELSE pc[r]]
        /\ restarts' = restarts + 1 /\ restarts < MaxRestarts /\ UNCHANGED row
        /\ gauge' \in {0, Cardinality(Active)} /\ missed' \in {0, Cardinality(Active)}
    BY <1>7 DEF Restart, SeedGauge
  <2>2. Past \subseteq Past'
    BY <1>2, <2>1 DEF Past, PcOK
  <2>3. gauge' \in Int /\ missed' \in 0 .. Cardinality(Sessions)
    <3>1. Active \in SUBSET Sessions
      BY DEF Active
    <3>2. /\ Cardinality(Active) \in Nat /\ Cardinality(Sessions) \in Nat
          /\ Cardinality(Active) <= Cardinality(Sessions)
      BY <3>1, FiniteSessions, RequestsAssumption, FS_Subset
    <3> QED BY <2>1, <3>2
  <2>4. restarts' \in 0 .. MaxRestarts
    BY <2>1, OptionsAssumption
  <2> QED BY <1>1, <2>1, <2>2, <2>3, <2>4, PastGrows DEF row
<1>8. CASE UNCHANGED vars
  BY <1>4, <1>8 DEF vars, Past
<1> QED BY <1>3, <1>5, <1>6, <1>7, <1>8 DEF Next, Serve

LEMMA TInvInit == Init => TInv
<1> SUFFICES ASSUME Init PROVE TInv
  OBVIOUS
<1>1. KInv
  BY KInvInit
<1>2. Cardinality(Past) \in Nat
  BY Finite DEF Past
<1>3. Cardinality(Sessions) \in Nat
  BY FiniteSessions
<1> QED BY <1>1, <1>2, <1>3, OptionsAssumption DEF Init, TInv

\* The endpoints keep rows, gauge and requests in their types, however requests
\* overlap and whatever fails; a session's row is edited at most once a request.
THEOREM TypeInvariant == Spec => []TypeOK
<1>1. Spec => []TInv
  BY TInvInit, TInvStep, PTL DEF Spec
<1>2. ASSUME TInv PROVE TypeOK
  <2>1. Past \in SUBSET Requests
    BY DEF Past
  <2>2. Cardinality(Past) \in Nat /\ Cardinality(Past) <= Cardinality(Requests)
    BY <2>1, Finite
  <2>3. Cardinality(Requests) \in Nat
    BY Finite
  <2>4. edits \in [Sessions -> 0 .. Cardinality(Requests)]
    BY <1>2, <2>2, <2>3 DEF TInv
  <2>5. announced \subseteq Sessions
    BY <1>2 DEF TInv, KInv, KillFollowsCommit
  <2> QED BY <1>2, <2>4, <2>5 DEF TInv, KInv, PcOK, Places, OnlyStopsPublish, TypeOK
<1> QED BY <1>1, <1>2, PTL

-----------------------------------------------------------------------------
(* The gauge.                                                              *)

Uncounted(kind) == {r \in Requests : pc[r] = "count" /\ Kind[r] = kind}

\* The gauge lags behind the rows by the requests that have yet to count and by
\* what the seed of this process missed.
GaugeInv ==
  /\ \A r \in Requests : pc[r] = "count" => Kind[r] \in {"start", "stop"}
  /\ gauge \in Int /\ missed \in Nat
  /\ gauge + missed = Cardinality(Active) - Cardinality(Uncounted("start"))
                                          + Cardinality(Uncounted("stop"))

LEMMA UncountedFinite ==
  ASSUME NEW kind
  PROVE  /\ IsFiniteSet(Uncounted(kind)) /\ Cardinality(Uncounted(kind)) \in Nat
         /\ IsFiniteSet(Active) /\ Cardinality(Active) \in Nat
BY Finite, FiniteSessions DEF Uncounted, Active

\* A step that counts nothing and changes no status.
LEMMA GaugeSame ==
  ASSUME GaugeInv, UNCHANGED <<status, gauge, missed>>,
         \A r \in Requests : pc'[r] = "count" <=> pc[r] = "count"
  PROVE  GaugeInv'
<1>1. Active' = Active /\ \A kind \in {"start", "stop"} : Uncounted(kind)' = Uncounted(kind)
  BY DEF Active, Uncounted
<1> QED BY <1>1 DEF GaugeInv

LEMMA GaugeStep ==
  ASSUME RInv, GaugeInv, [Next]_vars
  PROVE  GaugeInv'
<1>1. /\ pc \in [Requests -> Places] /\ status \in [Sessions -> {"draft", "active", "ended"}]
  BY DEF RInv, TypeInv, PcOK
<1>2. ASSUME NEW r \in Requests, Commit(r) PROVE GaugeInv'
  <2> DEFINE s == Of[r]
  <2>1. /\ s \in Sessions /\ pc[r] = "commit" /\ gauge' = gauge /\ missed' = missed
        /\ pc' = [pc EXCEPT ![r] = IF Kind[r] = "update" THEN "refresh" ELSE "count"]
        /\ Kind[r] = "start" => status[s] = "draft"
        /\ Kind[r] = "stop" => status[s] = "active"
    BY <1>2, Typing, CommitEffect DEF RInv, TurnsRead, Allowed, process
  <2>2. CASE Kind[r] = "update"
    <3>1. status' = status
      BY <1>2, <2>2 DEF Commit
    <3> QED BY <1>1, <2>1, <2>2, <3>1, GaugeSame
  <2>3. CASE Kind[r] = "start"
    <3>1. status' = [status EXCEPT ![s] = "active"]
      BY <1>2, <2>3 DEF Commit
    <3>2. Active' = Active \cup {s} /\ s \notin Active
      BY <1>1, <2>1, <2>3, <3>1 DEF Active
    <3>3. /\ Uncounted("start")' = Uncounted("start") \cup {r} /\ r \notin Uncounted("start")
          /\ Uncounted("stop")' = Uncounted("stop")
      BY <1>1, <2>1, <2>3 DEF Uncounted
    <3>4. /\ Cardinality(Active') = Cardinality(Active) + 1
          /\ Cardinality(Uncounted("start")') = Cardinality(Uncounted("start")) + 1
      BY <3>2, <3>3, UncountedFinite, FS_AddElement
    <3>5. \A q \in Requests : pc'[q] = "count" => Kind[q] \in {"start", "stop"}
      BY <1>1, <2>1, <2>3 DEF GaugeInv
    <3>6. gauge' + missed' = Cardinality(Active') - Cardinality(Uncounted("start")')
                                                  + Cardinality(Uncounted("stop")')
      BY <2>1, <3>3, <3>4, UncountedFinite DEF GaugeInv
    <3> QED BY <2>1, <3>5, <3>6 DEF GaugeInv
  <2>4. CASE Kind[r] = "stop"
    <3>1. status' = [status EXCEPT ![s] = "ended"]
      BY <1>2, <2>4 DEF Commit
    <3>2. Active' = Active \ {s} /\ s \in Active
      BY <1>1, <2>1, <2>4, <3>1 DEF Active
    <3>3. /\ Uncounted("stop")' = Uncounted("stop") \cup {r} /\ r \notin Uncounted("stop")
          /\ Uncounted("start")' = Uncounted("start")
      BY <1>1, <2>1, <2>4 DEF Uncounted
    <3>4. /\ Cardinality(Active') = Cardinality(Active) - 1
          /\ Cardinality(Uncounted("stop")') = Cardinality(Uncounted("stop")) + 1
      <4>1. Cardinality(Active') = Cardinality(Active) - 1
        BY <3>2, UncountedFinite, FS_RemoveElement
      <4>2. Cardinality(Uncounted("stop")') = Cardinality(Uncounted("stop")) + 1
        BY <3>3, UncountedFinite, FS_AddElement
      <4> QED BY <4>1, <4>2
    <3>5. \A q \in Requests : pc'[q] = "count" => Kind[q] \in {"start", "stop"}
      BY <1>1, <2>1, <2>4 DEF GaugeInv
    <3>6. gauge' + missed' = Cardinality(Active') - Cardinality(Uncounted("start")')
                                                  + Cardinality(Uncounted("stop")')
      BY <2>1, <3>3, <3>4, UncountedFinite DEF GaugeInv
    <3> QED BY <2>1, <3>5, <3>6 DEF GaugeInv
  <2> QED BY <2>2, <2>3, <2>4, Typing
<1>3. ASSUME NEW r \in Requests, Count(r) PROVE GaugeInv'
  <2>1. /\ pc[r] = "count" /\ pc' = [pc EXCEPT ![r] = "refresh"] /\ status' = status
        /\ gauge' = gauge + (IF Kind[r] = "start" THEN 1 ELSE -1)
        /\ Kind[r] \in {"start", "stop"} /\ missed' = missed
    BY <1>3 DEF Count, Goto, row, GaugeInv, process
  <2>2. Active' = Active
    BY <2>1 DEF Active
  <2>3. \A q \in Requests : pc'[q] = "count" => Kind[q] \in {"start", "stop"}
    BY <1>1, <2>1 DEF GaugeInv
  <2>4. CASE Kind[r] = "start"
    <3>1. /\ Uncounted("start")' = Uncounted("start") \ {r} /\ r \in Uncounted("start")
          /\ Uncounted("stop")' = Uncounted("stop")
      BY <1>1, <2>1, <2>4 DEF Uncounted
    <3>2. Cardinality(Uncounted("start")') = Cardinality(Uncounted("start")) - 1
      BY <3>1, UncountedFinite, FS_RemoveElement
    <3>3. gauge' + missed' = Cardinality(Active') - Cardinality(Uncounted("start")')
                                                  + Cardinality(Uncounted("stop")')
      <4>1. gauge' = gauge + 1 /\ gauge \in Int /\ missed \in Nat /\ missed' = missed
        BY <2>1, <2>4 DEF GaugeInv
      <4>2. gauge + missed = Cardinality(Active) - Cardinality(Uncounted("start"))
                                                + Cardinality(Uncounted("stop"))
        BY DEF GaugeInv
      <4> QED BY <2>2, <3>1, <3>2, <4>1, <4>2, UncountedFinite
    <3> QED BY <2>1, <2>3, <2>4, <3>3 DEF GaugeInv
  <2>5. CASE Kind[r] = "stop"
    <3>1. /\ Uncounted("stop")' = Uncounted("stop") \ {r} /\ r \in Uncounted("stop")
          /\ Uncounted("start")' = Uncounted("start")
      BY <1>1, <2>1, <2>5 DEF Uncounted
    <3>2. Cardinality(Uncounted("stop")') = Cardinality(Uncounted("stop")) - 1
      BY <3>1, UncountedFinite, FS_RemoveElement
    <3>3. gauge' + missed' = Cardinality(Active') - Cardinality(Uncounted("start")')
                                                  + Cardinality(Uncounted("stop")')
      BY <2>1, <2>2, <2>5, <3>1, <3>2, UncountedFinite DEF GaugeInv
    <3> QED BY <2>1, <2>3, <2>5, <3>3 DEF GaugeInv
  <2> QED BY <2>1, <2>4, <2>5
<1>4. ASSUME NEW r \in Requests, Read(r) \/ CommitFails(r) \/ Refresh(r) \/ Publish(r)
      PROVE GaugeInv'
  <2>1. /\ pc[r] \in {"new", "commit", "refresh", "publish"} /\ UNCHANGED <<status, gauge, missed>>
        /\ \E place \in {"commit", "publish", "refresh", "done"} : pc' = [pc EXCEPT ![r] = place]
    BY <1>4 DEF Read, CommitFails, Refresh, Publish, Goto, AfterRefresh, row, process
  <2> QED BY <1>1, <2>1, GaugeSame
<1>5. CASE Restart
  <2>1. /\ pc' = [r \in Requests |-> IF InFlight(r) THEN "done" ELSE pc[r]]
        /\ status' = status
        /\ \/ gauge' = Cardinality(Active) /\ missed' = 0
           \/ gauge' = 0 /\ missed' = Cardinality(Active)
    BY <1>5 DEF Restart, SeedGauge, row
  <2>2. \A r \in Requests : pc'[r] # "count"
    BY <2>1 DEF InFlight
  <2>3. Active' = Active /\ Uncounted("start")' = {} /\ Uncounted("stop")' = {}
    BY <2>1, <2>2 DEF Active, Uncounted
  <2>4. /\ Cardinality(Uncounted("start")') = 0 /\ Cardinality(Uncounted("stop")') = 0
        /\ Cardinality(Active) \in Nat
    BY <2>3, FS_EmptySet, UncountedFinite
  <2> QED BY <2>1, <2>2, <2>3, <2>4 DEF GaugeInv
<1>6. CASE UNCHANGED vars
  BY <1>6, GaugeSame DEF vars, row, process
<1> QED BY <1>2, <1>3, <1>4, <1>5, <1>6 DEF Next, Serve

\* Whenever no request is between its commit and its count, the gauge is the
\* number of active sessions less those a failed seed query missed at the last
\* start of the process, for every set of requests, every other failure and every
\* restart, as long as no two starts or two stops of one session overlap.
THEOREM GaugeCountedUnlessTwins ==
  Init /\ [][Next /\ TwinsApart]_vars => []GaugeCountsActive
<1>1. Init => RInv /\ GaugeInv
  <2> SUFFICES ASSUME Init PROVE GaugeInv
    BY RInvInit
  <2>1. Active = {} /\ Uncounted("start") = {} /\ Uncounted("stop") = {}
    BY DEF Init, Active, Uncounted
  <2> QED BY <2>1, FS_EmptySet DEF Init, GaugeInv
<1>2. RInv /\ GaugeInv /\ [Next /\ TwinsApart]_vars => (RInv /\ GaugeInv)'
  BY RInvStep, GaugeStep
<1>3. RInv /\ GaugeInv => GaugeCountsActive
  <2> SUFFICES ASSUME GaugeInv, \A r \in Requests : pc[r] # "count"
               PROVE  gauge + missed = Cardinality(Active)
    BY DEF GaugeCountsActive
  <2>1. Uncounted("start") = {} /\ Uncounted("stop") = {}
    BY DEF Uncounted
  <2> QED BY <2>1, FS_EmptySet, UncountedFinite DEF GaugeInv
<1> QED BY <1>1, <1>2, <1>3, PTL

\* With one request at a time for each session the gauge never drifts: it is short
\* of the active sessions by what a failed seed query missed, and by nothing else.
THEOREM GaugeIsCounted == ASSUME ~Overlap PROVE Spec => []GaugeCountsActive
<1>1. [Next]_vars => [Next /\ TwinsApart]_vars
  BY SerialIsApart
<1> QED BY <1>1, GaugeCountedUnlessTwins, PTL DEF Spec

=============================================================================
