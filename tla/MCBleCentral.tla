--------------------------- MODULE MCBleCentral -----------------------------
(* Instances of BleCentral for TLC.  Peers are alike.                        *)
EXTENDS BleCentral, TLC

Alike == Permutations(Peer)
=============================================================================
