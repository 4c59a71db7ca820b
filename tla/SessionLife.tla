----------------------------- MODULE SessionLife -----------------------------
(***************************************************************************)
(* What the session endpoints promise: a session is configured as a draft, *)
(* is started once, ends once and stays as it was.                         *)
(***************************************************************************)
EXTENDS Integers

CONSTANT Sessions

VARIABLES
  status,  \* sessions.status
  edits    \* how often the configuration has changed

Init ==
  /\ status = [s \in Sessions |-> "draft"]
  /\ edits = [s \in Sessions |-> 0]

Configure(s) ==
  /\ status[s] = "draft"
  /\ edits' = [edits EXCEPT ![s] = @ + 1]
  /\ UNCHANGED status

Start(s) ==
  /\ status[s] = "draft"
  /\ status' = [status EXCEPT ![s] = "active"]
  /\ UNCHANGED edits

Stop(s) ==
  /\ status[s] = "active"
  /\ status' = [status EXCEPT ![s] = "ended"]
  /\ UNCHANGED edits

Next == \E s \in Sessions : Configure(s) \/ Start(s) \/ Stop(s)

Spec == Init /\ [][Next]_<<status, edits>>
=============================================================================
