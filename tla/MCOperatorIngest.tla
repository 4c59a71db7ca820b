-------------------------- MODULE MCOperatorIngest --------------------------
(***************************************************************************)
(* Small instances of OperatorIngest: which endpoint each connection uses. *)
(***************************************************************************)
EXTENDS OperatorIngest, TLC

CONSTANTS a1, t1, w1

AudioTextPeer == a1 :> "audio" @@ t1 :> "transcript" @@ w1 :> "webrtc"
OneAudio == a1 :> "audio"
=============================================================================
