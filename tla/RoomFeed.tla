------------------------------ MODULE RoomFeed ------------------------------
(***************************************************************************)
(* What the chat service promises, stated without pumps, channels or a hub.*)
(*                                                                         *)
(* Every room is one totally ordered feed.  A message enters the feed at   *)
(* most once and only after it has been archived.  A connection joins at   *)
(* the current end of its room's feed and is then handed the entries that  *)
(* follow, one by one, in order and without a gap, until it is dropped; a  *)
(* dropped connection is never handed anything again.                      *)
(***************************************************************************)
EXTENDS Naturals, Sequences

CONSTANTS
  Conns,      \* the connections that may ever be opened
  Rooms,      \* the chat rooms
  RoomOf,     \* the room each connection asks for
  Message     \* what can be said; a message names its room

VARIABLES
  archive,    \* the messages that are stored
  feed,       \* per room, what was published, in order
  since,      \* per connection, the length of the feed when it joined
  view,       \* per connection, what it was handed
  phase       \* per connection: "out", "in" or "dropped"

vars == <<archive, feed, since, view, phase>>

Init ==
  /\ archive = {}
  /\ feed = [r \in Rooms |-> << >>]
  /\ since = [c \in Conns |-> 0]
  /\ view = [c \in Conns |-> << >>]
  /\ phase = [c \in Conns |-> "out"]

Archive(m) ==
  /\ archive' = archive \cup {m}
  /\ UNCHANGED <<feed, since, view, phase>>

Publish(m) ==
  /\ m \in archive
  /\ \A i \in DOMAIN feed[m.room] : feed[m.room][i] # m
  /\ feed' = [feed EXCEPT ![m.room] = Append(@, m)]
  /\ UNCHANGED <<archive, since, view, phase>>

Join(c) ==
  /\ phase[c] = "out"
  /\ phase' = [phase EXCEPT ![c] = "in"]
  /\ since' = [since EXCEPT ![c] = Len(feed[RoomOf[c]])]
  /\ UNCHANGED <<archive, feed, view>>

Hand(c) ==
  LET next == since[c] + Len(view[c]) + 1 IN
  /\ phase[c] = "in"
  /\ next <= Len(feed[RoomOf[c]])
  /\ view' = [view EXCEPT ![c] = Append(@, feed[RoomOf[c]][next])]
  /\ UNCHANGED <<archive, feed, since, phase>>

Drop(c) ==
  /\ phase[c] = "in"
  /\ phase' = [phase EXCEPT ![c] = "dropped"]
  /\ UNCHANGED <<archive, feed, since, view>>

Next ==
  \/ \E m \in Message : Archive(m) \/ Publish(m)
  \/ \E c \in Conns : Join(c) \/ Hand(c) \/ Drop(c)

Spec == Init /\ [][Next]_vars
=============================================================================
