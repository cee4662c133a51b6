--------------------------- MODULE ConsistentHash ---------------------------
(***************************************************************************)
(* What the Consistent Hashing building block promises (ring.hpp): every   *)
(* position of a key belongs to a member, a member that joins takes keys   *)
(* from others but moves none between them, and only the keys of a member  *)
(* that leaves move.                                                       *)
(***************************************************************************)
CONSTANTS Node, Position, None

VARIABLES members, owner

vars == <<members, owner>>

\* With no members nobody owns a key.
Owners(S) == IF S = {} THEN {None} ELSE S

Init ==
  /\ members = {}
  /\ owner = [h \in Position |-> None]

Join(m) ==
  /\ m \notin members
  /\ members' = members \cup {m}
  /\ owner' \in [Position -> members']
  /\ \A h \in Position : owner'[h] \in {owner[h], m}

Leave(m) ==
  /\ m \in members
  /\ members' = members \ {m}
  /\ owner' \in [Position -> Owners(members')]
  /\ \A h \in Position : owner[h] # m => owner'[h] = owner[h]

Next == \E m \in Node : Join(m) \/ Leave(m)

Spec == Init /\ [][Next]_vars
=============================================================================
