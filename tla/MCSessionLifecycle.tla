------------------------ MODULE MCSessionLifecycle ------------------------
(***************************************************************************)
(* Small instances of SessionLifecycle: who asks for what.                 *)
(***************************************************************************)
EXTENDS SessionLifecycle, TLC

CONSTANTS s1, s2, start1, again1, stop1, stop2, update1, start2

\* Two sessions; the first is started twice, updated and stopped.
TwoSessionsKind ==
  start1 :> "start" @@ again1 :> "start" @@ stop1 :> "stop" @@ update1 :> "update"
    @@ start2 :> "start" @@ stop2 :> "stop"
TwoSessionsOf ==
  start1 :> s1 @@ again1 :> s1 @@ stop1 :> s1 @@ update1 :> s1
    @@ start2 :> s2 @@ stop2 :> s2

\* A double click on the start button, and a stop.
DoubleStartKind == start1 :> "start" @@ again1 :> "start" @@ stop1 :> "stop"
DoubleStartOf == start1 :> s1 @@ again1 :> s1 @@ stop1 :> s1
===========================================================================
