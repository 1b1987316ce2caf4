---------------------------- MODULE ChatHistory ----------------------------
(***************************************************************************)
(* What GET .../chat/messages shows of one room: SaveChatMessage and       *)
(* LoadChatMessages beside the read pumps that stamp the messages.         *)
(*                                                                         *)
(* A pump takes the time, in whole seconds, and stores the row later; in   *)
(* between, other pumps do both.  The wall clock is taken not to run       *)
(* backwards.                                                              *)
(***************************************************************************)
EXTENDS HistoryQuery

CONSTANTS
  Pumps,     \* the read pumps of the room's connections
  MaxTime,   \* bound on the clock
  MaxRows    \* bound on the stored messages

ASSUME MaxAssumption == MaxTime \in Nat \ {0} /\ MaxRows \in Nat

VARIABLES
  now,     \* the clock, in seconds
  stamp,   \* per pump, the sent_at of the message in its hands; 0 when none
  rows     \* chat_messages; the position of a row is its message_id

vars == <<now, stamp, rows>>

Row == [from : Pumps, sentAt : 1..MaxTime]

Init ==
  /\ now = 1
  /\ stamp = [p \in Pumps |-> 0]
  /\ rows = << >>

Tick ==
  /\ now < MaxTime
  /\ now' = now + 1
  /\ UNCHANGED <<stamp, rows>>

\* readLoop: msg.SentAt = time.Now().UTC().Format(time.RFC3339)
Stamp(p) ==
  /\ stamp[p] = 0
  /\ stamp' = [stamp EXCEPT ![p] = now]
  /\ UNCHANGED <<now, rows>>

SaveChatMessage(p) ==
  /\ stamp[p] # 0
  /\ Len(rows) < MaxRows
  /\ rows' = Append(rows, [from |-> p, sentAt |-> stamp[p]])
  /\ stamp' = [stamp EXCEPT ![p] = 0]
  /\ UNCHANGED now

SaveFails(p) ==
  /\ stamp[p] # 0
  /\ stamp' = [stamp EXCEPT ![p] = 0]
  /\ UNCHANGED <<now, rows>>

Next == Tick \/ \E p \in Pumps : Stamp(p) \/ SaveChatMessage(p) \/ SaveFails(p)

Spec == Init /\ [][Next]_vars

-----------------------------------------------------------------------------
(* Properties.                                                             *)

TypeOK ==
  /\ now \in 1..MaxTime
  /\ stamp \in [Pumps -> 0..MaxTime]
  /\ rows \in Seq(Row) /\ Len(rows) <= MaxRows

\* Pumps store out of the order of their stamps, and still no history skips a
\* message: what it shows of one sender's pump is the end of what that pump has
\* stored, without a hole. (SqliteDatabaseManager.go:707-709, chat.go:268-271)
NoHoles ==
  \A h \in LoadChatMessages(rows) : \A m \in DOMAIN h : \A i \in DOMAIN rows :
    i > h[m] /\ rows[i].from = rows[h[m]].from => \E n \in DOMAIN h : h[n] = i
=============================================================================
