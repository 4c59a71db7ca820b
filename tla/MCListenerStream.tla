-------------------------- MODULE MCListenerStream --------------------------
(***************************************************************************)
(* Small instances of ListenerStream: pages, addresses and connections.    *)
(***************************************************************************)
EXTENDS ListenerStream, TLC

CONSTANTS k1, k2, k3, c1, c2, ip1, ip2

OnePage == k1 :> ip1
TwoPages == k1 :> ip1 @@ k2 :> ip2
ThreePages == TwoPages @@ k3 :> ip2

\* The connections are interchangeable; symmetry is used without liveness only.
ConnSymmetry == Permutations(Conns)
=============================================================================
