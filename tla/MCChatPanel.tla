---------------------------- MODULE MCChatPanel ----------------------------
(* Small instances of ChatPanel for TLC.                                   *)
EXTENDS ChatPanel

CONSTANTS a, c, b1, b2
=============================================================================
