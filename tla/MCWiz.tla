-------------------------------- MODULE MCWiz --------------------------------
(* Instance of Wiz for TLC: a lamp known by its MAC, that can move out of    *)
(* the controller's own /24, a lamp known by its address, and a name that    *)
(* no lamp has.                                                              *)
EXTENDS Wiz

CONSTANTS bed, desk

MCStatic == {desk}
MCMac    == {bed}
MCHomeOf == [n \in {bed, desk} |-> IF n = desk THEN 1 ELSE 2]
=============================================================================
