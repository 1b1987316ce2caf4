----------------------------- MODULE MCChatHub -----------------------------
(* Two connections to room r1 and one to room r2.                          *)
EXTENDS ChatHub, TLC

CONSTANTS c1, c2, c3, r1, r2

MCRoomOf == [c \in Conns |-> IF c = c3 THEN r2 ELSE r1]

\* The connections to r1 are interchangeable.
Peers == Permutations({c1, c2})
=============================================================================
