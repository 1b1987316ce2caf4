---------------------------- MODULE MCServerBoot ----------------------------
(* Small instances of ServerBoot for TLC.                                  *)
EXTENDS ServerBoot

CONSTANTS r1, r2
=============================================================================
