-------------------------- MODULE MCClientSession --------------------------
(* Small instances of ClientSession for TLC.                               *)
EXTENDS ClientSession, TLC

CONSTANTS a, b, b1, b2

\* Nothing tells users or blends apart.
Twins == Permutations({a, b}) \cup Permutations({b1, b2})
=============================================================================
