---------------------------- MODULE MCHomeFeed ----------------------------
(* Small instances of HomeFeed for TLC.                                    *)
EXTENDS HomeFeed

CONSTANTS a, b, v1, v2, v3

\* One has more videos than his slots, and the other none; or each has one.
SomeLists == {(a :> {v1, v2, v3} @@ b :> {}), (a :> {v1} @@ b :> {v2})}
=============================================================================
