------------------------------ MODULE HashRing ------------------------------
(***************************************************************************)
(* The pure part of class Ring (src/src/distmap/ring.cpp): where a key     *)
(* falls on the ring, and who follows whom in the ordered set of physical  *)
(* nodes.  The state machine of the class is in module Ring; Membership    *)
(* uses these operators on the set of physical nodes of one process.       *)
(*                                                                         *)
(* A node name is a natural number: std::set<std::string> only ever        *)
(* compares names, so any total order stands for the order of strings.     *)
(* A hash is a natural number too: the ring compares hashes and never does *)
(* arithmetic on them, so the 64-bit width does not show.                  *)
(***************************************************************************)
EXTENDS Naturals

CONSTANTS
  Node,       \* the node names ("address:port")
  Replicas,   \* the virtual points of a node, the default 100 of Ring::add
  PointHash,  \* PointHash[m][i]: StringHash of the i-th string built for m
  NameHash    \* NameHash[m]: StringHash of the name m itself

ASSUME NodeAssumption == Node \subseteq Nat

ASSUME ReplicasAssumption == Replicas \in Nat \ {0}

ASSUME HashAssumption ==
  /\ PointHash \in [Node -> [1 .. Replicas -> Nat]]
  /\ NameHash \in [Node -> Nat]

\* Two nodes never share a point: StringHash is 64 bits of MD5.  With a
\* collision the bimap would keep both points in insertion order.
ASSUME NoCollision ==
  \A m, q \in Node : \A i, j \in 1 .. Replicas :
     PointHash[m][i] = PointHash[q][j] => m = q

-----------------------------------------------------------------------------
Least(S) == CHOOSE x \in S : \A y \in S : x <= y

\* lower_bound, and begin() when it is end(): the first element at or after h
\* going clockwise.
Clockwise(S, h) ==
  LET ahead == {x \in S : h <= x}
  IN  IF ahead # {} THEN Least(ahead) ELSE Least(S)

\* The physical node after n in the order of names, wrapping around.
NextPhysicalNode(S, n) == Clockwise(S, n + 1)

\* The points Ring::add puts on the ring for m when asked for k of them.
Points(m, k) == {PointHash[m][i] : i \in 1 .. k}

\* Mutant: the sides of the map are swapped.
EntriesSwapped(m, k) == {[hash |-> m, node |-> p] : p \in Points(m, k)}

\* A ring is a set of entries; RingOf(S) has the default number per node.
Entries(m, k) == {[hash |-> p, node |-> m] : p \in Points(m, k)}

RingOf(S) == UNION {Entries(m, Replicas) : m \in S}

\* The node that owns the position h of a ring.
Lookup(ring, h) ==
  LET p == Clockwise({e.hash : e \in ring}, h)
  IN  (CHOOSE e \in ring : e.hash = p).node

\* Who a ring with the physical nodes S says comes first after m's name.
NextNode(S, m) == Lookup(RingOf(S), NameHash[m])
=============================================================================
