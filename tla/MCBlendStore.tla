---------------------------- MODULE MCBlendStore ----------------------------
(* Small instances of BlendStore for TLC.                                  *)
EXTENDS BlendStore, TLC

CONSTANTS u1, u2, p1, p2, v1, v2, q1, q2

\* One video, and a video that comes twice.
MCLists == {<<v1>>, <<v1, v2, v1>>}

\* Nothing tells users, passwords or slots apart.
Twins ==
  Permutations({u1, u2}) \cup Permutations({p1, p2}) \cup Permutations({q1, q2})
=============================================================================
