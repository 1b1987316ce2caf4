---------------------------- MODULE HistoryQuery ----------------------------
(***************************************************************************)
(* The query behind GET .../chat/messages, LoadChatMessages, over the rows *)
(* of one room; the position of a row is its message_id.                   *)
(*                                                                         *)
(* The query takes the newest Limit rows by (sent_at, message_id) and      *)
(* sorts these by sent_at alone, in whole seconds, so rows of one second   *)
(* may come in any order.                                                  *)
(***************************************************************************)
EXTENDS Naturals, FiniteSets, Sequences, SequencesExt

CONSTANT Limit    \* how many messages a history shows

ASSUME LimitAssumption == Limit \in Nat \ {0}

\* Mutant: ORDER BY sent_at DESC, message_id ASC.
LaterByAscendingId(rows, i, j) ==
  \/ rows[i].sentAt > rows[j].sentAt
  \/ rows[i].sentAt = rows[j].sentAt /\ i < j

\* ORDER BY sent_at DESC, message_id DESC
Later(rows, i, j) ==
  \/ rows[i].sentAt > rows[j].sentAt
  \/ rows[i].sentAt = rows[j].sentAt /\ i > j

\* LIMIT ?
Recent(rows) ==
  {i \in DOMAIN rows : Cardinality({j \in DOMAIN rows : Later(rows, j, i)}) < Limit}

\* ORDER BY sent_at ASC, and nothing said of rows of one second: each answer
\* lists the recent rows.
LoadChatMessages(rows) ==
  {h \in SetToSeqs(Recent(rows)) :
     \A m, n \in DOMAIN h : m < n => rows[h[m]].sentAt <= rows[h[n]].sentAt}
=============================================================================
