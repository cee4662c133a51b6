-------------------------------- MODULE Ring --------------------------------
(***************************************************************************)
(* Class Ring (src/src/distmap/ring.cpp).  m_ring is a set of entries, a   *)
(* point and the node it stands for.  Each method is one action, for no    *)
(* other runs meanwhile, but preferenceList: its loop is run step by step, *)
(* to see what it has found at each turn and that it ends.                 *)
(***************************************************************************)
EXTENDS HashRing, Sequences, FiniteSets

CONSTANTS
  Counts,    \* the numbers of points asked of add; Membership asks for Replicas
  Position,  \* the positions of the keys that are looked up
  MaxPrefs,  \* bound: the longest preference list that is asked for
  None

\* Nobody adds a node with no point: preferenceList would look for it for ever.
ASSUME CountsAssumption == Counts \subseteq 1 .. Replicas

ASSUME PositionAssumption ==
  Position \subseteq Nat /\ MaxPrefs \in Nat /\ None \notin Node

VARIABLES
  physicalNodes,
  ring,
  hasChanged,
  seen,   \* history: physicalNodes when hasChanged() was last called
  walk    \* the loop of preferenceList

vars == <<physicalNodes, ring, hasChanged, seen, walk>>

Entry == [hash : Nat, node : Node]

\* from: the iterator stands at the first point at or after it, or at end().
Walk ==
  [running : BOOLEAN, key : Nat, n : Nat, from : Nat, nodes : Seq(Node)]

NoWalk == [running |-> FALSE, key |-> 0, n |-> 0, from |-> 0, nodes |-> <<>>]

TypeOK ==
  /\ physicalNodes \subseteq Node
  /\ ring \subseteq Entry
  /\ hasChanged \in BOOLEAN
  /\ seen \subseteq Node
  /\ walk \in Walk

-----------------------------------------------------------------------------
Init ==
  /\ physicalNodes = {}
  /\ ring = {}
  /\ hasChanged = FALSE
  /\ seen = {}
  /\ walk = NoWalk

\* A node that is there already keeps the points it has.
Add(m, k) ==
  /\ ~walk.running
  /\ IF m \in physicalNodes
     THEN UNCHANGED <<physicalNodes, ring, hasChanged>>
     ELSE /\ physicalNodes' = physicalNodes \cup {m}
          /\ ring' = ring \cup Entries(m, k)
          /\ hasChanged' = TRUE
  /\ UNCHANGED <<seen, walk>>

\* Mutants: the node keeps its points, or all but one; the flag is not set.
LeftAll(m) == ring
LeftByHash(m) == {e \in ring : e.hash # PointHash[m][1]}
ChangedNever(m) == hasChanged

Left(m) == {e \in ring : e.node # m}

Changed(m) == hasChanged \/ \E e \in ring : e.node = m

Remove(m) ==
  /\ ~walk.running
  /\ physicalNodes' = physicalNodes \ {m}
  /\ ring' = Left(m)
  /\ hasChanged' = Changed(m)
  /\ UNCHANGED <<seen, walk>>

HasChanged ==
  /\ ~walk.running
  /\ hasChanged' = FALSE
  /\ seen' = physicalNodes
  /\ UNCHANGED <<physicalNodes, ring, walk>>

\* Mutants: n is not capped; the set of nodes found is not looked at.
CapNone(n) == IF ring = {} THEN 0 ELSE n
FoundNever(nodes, m) == FALSE

Cap(n) ==
  IF n < Cardinality(physicalNodes) THEN n ELSE Cardinality(physicalNodes)

Found(nodes, m) == \E i \in DOMAIN nodes : nodes[i] = m

\* The list passed in is empty.
PreferenceList(h, n) ==
  /\ ~walk.running
  /\ walk' = [running |-> TRUE, key |-> h, from |-> h, nodes |-> <<>>, n |-> Cap(n)]
  /\ UNCHANGED <<physicalNodes, ring, hasChanged, seen>>

\* One turn of the loop: the iterator wraps, its node is taken unless it has
\* been, the iterator moves on.
Step ==
  /\ walk.running /\ Len(walk.nodes) < walk.n
  /\ LET p == Clockwise({e.hash : e \in ring}, walk.from)
         m == Lookup(ring, p)
     IN  walk' = [walk EXCEPT
                    !.from  = p + 1,
                    !.nodes = IF Found(@, m) THEN @ ELSE Append(@, m)]
  /\ UNCHANGED <<physicalNodes, ring, hasChanged, seen>>

\* The list is returned.
Done ==
  /\ walk.running /\ Len(walk.nodes) >= walk.n
  /\ walk' = NoWalk
  /\ UNCHANGED <<physicalNodes, ring, hasChanged, seen>>

Next ==
  \/ \E m \in Node : Remove(m) \/ \E k \in Counts : Add(m, k)
  \/ HasChanged
  \/ \E h \in Position, n \in 0 .. MaxPrefs : PreferenceList(h, n)
  \/ Step
  \/ Done

Spec == Init /\ [][Next]_vars

\* The loop is not interrupted.
FairSpec == Spec /\ WF_vars(Step \/ Done)

-----------------------------------------------------------------------------
\* The points on the ring are those of the physical nodes, each with a number
\* that was asked for, whatever was added, added again and removed before: the
\* ring does not depend on its history, and two processes that ask for the same
\* number and know of the same nodes have the same ring.
RingOfMembers ==
  /\ \A e \in ring : e.node \in physicalNodes
  /\ \A m \in physicalNodes :
       \E k \in Counts : {e \in ring : e.node = m} = Entries(m, k)

\* While hasChanged() would return false, the set of physical nodes is the one
\* it had at the last call: no change is missed.
NoChangeMissed == ~hasChanged => seen = physicalNodes

\* The i-th node of a preference list is the one that owns the key once the
\* nodes before it have left the ring: the list is the order of failover.
PreferenceIsFailover ==
  \A i \in DOMAIN walk.nodes :
    LET before == {walk.nodes[j] : j \in 1 .. i - 1}
    IN  walk.nodes[i] =
          Lookup({e \in ring : e.node \notin before}, walk.key)

\* preferenceList returns, with as many nodes as there are or were asked for:
\* its loop has no other exit.
WalkEnds == walk.running ~> ~walk.running

\* The ring is a consistent hash of its physical nodes.
Owner ==
  [h \in Position |-> IF ring = {} THEN None ELSE Lookup(ring, h)]

Hash == INSTANCE ConsistentHash WITH members <- physicalNodes, owner <- Owner

IsConsistentHash == Hash!Spec
=============================================================================
