---------------------------- MODULE MCConnectCalls ----------------------------
(* Model checking of ConnectCalls: peers are alike.                         *)
EXTENDS ConnectCalls

Alike == Permutations(Peer)
=============================================================================
