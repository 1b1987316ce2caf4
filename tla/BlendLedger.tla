---------------------------- MODULE BlendLedger ----------------------------
(***************************************************************************)
(* What the backend's store promises to its clients: a ledger of accounts, *)
(* saved playlists, blends and chat that every request changes in one step *)
(* or not at all.  There are no tables, statements, locks or half-done     *)
(* requests here, and one set of people per blend: who takes part in a     *)
(* blend and who may enter its chat room are the same people.              *)
(***************************************************************************)
CONSTANTS
  Users, Passwords, Blends,
  Playlists,    \* what a saved playlist can be, each a set of entries
  Absent        \* no password, no creator

VARIABLES
  account,      \* per user, the password
  playlist,     \* per user, the saved playlist
  creator,      \* per blend, who created it
  people,       \* who takes part in which blend
  said          \* who spoke in the chat room of which blend

vars == <<account, playlist, creator, people, said>>

Init ==
  /\ account = [u \in Users |-> Absent]
  /\ playlist = [u \in Users |-> {}]
  /\ creator = [b \in Blends |-> Absent]
  /\ people = {}
  /\ said = {}

SignUp(u, p) ==
  /\ account[u] = Absent
  /\ account' = [account EXCEPT ![u] = p]
  /\ UNCHANGED <<playlist, creator, people, said>>

\* The user is forgotten, and is in no blend any more.  What becomes of the
\* blends he created or leaves empty, and of what he said, the ledger leaves
\* open: the store keeps them, and Front_End_Requirements_for_Server_Communication.md
\* (lines 126-132) says that they go.
Forget(u) ==
  \E gone \in SUBSET {b \in Blends : creator[b] = u \/ \A x \in people : x[1] = b => x[2] = u} :
    /\ account' = [account EXCEPT ![u] = Absent]
    /\ playlist' = [playlist EXCEPT ![u] = {}]
    /\ creator' = [b \in Blends |-> IF b \in gone THEN Absent ELSE creator[b]]
    /\ people' = {x \in people : x[2] # u /\ x[1] \notin gone}
    /\ \E heard \in {Users, Users \ {u}} :
         said' = {x \in said : x[1] \notin gone /\ x[2] \in heard}

\* A new playlist takes the place of the old one.
Replace(u, l) ==
  /\ playlist' = [playlist EXCEPT ![u] = l]
  /\ UNCHANGED <<account, creator, people, said>>

\* A blend is created, or its people are replaced.
Compose(b, u, s) ==
  /\ creator' = [creator EXCEPT ![b] = u]
  /\ people' = {x \in people : x[1] # b} \cup ({b} \X s)
  /\ UNCHANGED <<account, playlist, said>>

Part(b, u) ==
  /\ people' = people \ {<<b, u>>}
  /\ UNCHANGED <<account, playlist, creator, said>>

Say(b, u) ==
  /\ creator[b] # Absent
  /\ said' = said \cup {<<b, u>>}
  /\ UNCHANGED <<account, playlist, creator, people>>

Next ==
  \E u \in Users :
    \/ \E p \in Passwords : SignUp(u, p)
    \/ Forget(u)
    \/ \E l \in Playlists : Replace(u, l)
    \/ \E b \in Blends : Part(b, u) \/ Say(b, u)
    \/ \E b \in Blends, s \in SUBSET Users : Compose(b, u, s)

Spec == Init /\ [][Next]_vars
=============================================================================
