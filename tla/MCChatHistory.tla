---------------------------- MODULE MCChatHistory ----------------------------
(* Small instances of ChatHistory for TLC.                                 *)
EXTENDS ChatHistory, TLC

CONSTANTS a, b

Either == Permutations({a, b})
=============================================================================
