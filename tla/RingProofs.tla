----------------------------- MODULE RingProofs -----------------------------
(***************************************************************************)
(* Ring, for every set of nodes, numbers of points and placements of them. *)
(* The inductive invariant says that the ring holds just the points of its *)
(* members.  As points of two nodes never coincide (NoCollision), the node *)
(* at a point is unique, and the owner of a position changes only if the   *)
(* first point after it does.                                              *)
(***************************************************************************)
EXTENDS Ring, FiniteSetTheorems, WellFoundedInduction, TLAPS

Hashes(R) == {e.hash : e \in R}

\* A set of entries as it can be on a ring.
Placed(R) ==
  \A e \in R : e \in Entry /\ e.hash \in Points(e.node, Replicas)

RInv ==
  /\ TypeOK
  /\ IsFiniteSet(physicalNodes)
  /\ Placed(ring)
  /\ RingOfMembers
  /\ NoChangeMissed
  /\ walk.running => walk.n <= Cardinality(physicalNodes)

-----------------------------------------------------------------------------
(* The clockwise order                                                     *)

\* A non-empty set of natural numbers has a least element.
LEMMA LeastOf ==
  ASSUME NEW S, S \subseteq Nat, S # {}
  PROVE  Least(S) \in S /\ \A y \in S : Least(S) <= y
<1> DEFINE less == {p \in Nat \X Nat : p[1] < p[2]}
<1>1. IsWellFoundedOn(less, Nat)
  BY NatLessThanWellFounded DEF OpToRel
<1> HIDE DEF less
<1>2. PICK x \in S : \A y \in S : <<y, x>> \notin less
  BY <1>1, WFMin
<1>3. \A y \in S : x <= y
  <2> TAKE y \in S
  <2>1. ~(y < x)
    BY <1>2 DEF less
  <2> QED
    BY <2>1
<1> QED
  BY <1>3 DEF Least

\* The least element is unique.
LEMMA LeastIs ==
  ASSUME NEW S, S \subseteq Nat, NEW x \in S, \A y \in S : x <= y
  PROVE  Least(S) = x
<1>1. Least(S) \in S /\ Least(S) <= x
  BY LeastOf
<1>2. x <= Least(S) /\ x \in Nat /\ Least(S) \in Nat
  BY <1>1
<1> QED
  BY <1>1, <1>2

LEMMA ClockwiseMember ==
  ASSUME NEW S, S \subseteq Nat, S # {}, NEW h \in Nat
  PROVE  Clockwise(S, h) \in S
<1> DEFINE ahead == {x \in S : h <= x}
<1>1. ahead # {} => Least(ahead) \in ahead
  BY LeastOf
<1>2. Least(S) \in S
  BY LeastOf
<1> QED
  BY <1>1, <1>2 DEF Clockwise

\* Points that come or go elsewhere do not matter: if the first point of a set
\* belongs to a subset, it is the first point of the subset.
LEMMA ClockwiseSubset ==
  ASSUME NEW S, S \subseteq Nat, NEW T, T \subseteq S, NEW h \in Nat,
         Clockwise(S, h) \in T
  PROVE  Clockwise(T, h) = Clockwise(S, h)
<1> DEFINE p      == Clockwise(S, h)
           aheadS == {x \in S : h <= x}
           aheadT == {x \in T : h <= x}
<1>1. CASE aheadS # {}
  <2>1. p = Least(aheadS)
    BY <1>1 DEF Clockwise
  <2>2. p \in aheadS /\ \A y \in aheadS : p <= y
    BY <1>1, <2>1, LeastOf
  <2>3. p \in aheadT /\ aheadT \subseteq aheadS
    BY <2>2
  <2>4. Least(aheadT) = p
    BY <2>2, <2>3, LeastIs
  <2>. QED
    BY <2>3, <2>4 DEF Clockwise
<1>2. CASE aheadS = {}
  <2>1. p = Least(S) /\ aheadT = {}
    BY <1>2 DEF Clockwise
  <2>2. \A y \in S : p <= y
    BY <2>1, LeastOf
  <2>3. Least(T) = p
    BY <2>2, LeastIs
  <2>. QED
    BY <2>1, <2>3 DEF Clockwise
<1> QED
  BY <1>1, <1>2

-----------------------------------------------------------------------------
(* Who owns a position                                                     *)

\* One node at most stands at a point.
LEMMA NodeAtPoint ==
  ASSUME NEW R, Placed(R), NEW e \in R, NEW f \in R, e.hash = f.hash
  PROVE  e.node = f.node
<1>1. e.node \in Node /\ f.node \in Node
  BY DEF Placed, Entry
<1>2. PICK i \in 1 .. Replicas : e.hash = PointHash[e.node][i]
  BY DEF Placed, Points
<1>3. PICK j \in 1 .. Replicas : f.hash = PointHash[f.node][j]
  BY DEF Placed, Points
<1>4. PointHash[e.node][i] = PointHash[f.node][j]
  BY <1>2, <1>3
<1>5. \A m, q \in Node : PointHash[m][i] = PointHash[q][j] => m = q
  BY NoCollision
<1> QED
  BY <1>1, <1>4, <1>5

\* The owner is the node of the entry at the first point.
LEMMA LookupIs ==
  ASSUME NEW R, Placed(R), R # {}, NEW h \in Nat
  PROVE  \E e \in R : /\ e.hash = Clockwise(Hashes(R), h)
                      /\ e.node = Lookup(R, h)
<1>1. Hashes(R) \subseteq Nat /\ Hashes(R) # {}
  BY DEF Hashes, Placed, Entry
<1>2. Clockwise(Hashes(R), h) \in Hashes(R)
  BY <1>1, ClockwiseMember
<1>3. PICK e \in R : e.hash = Clockwise(Hashes(R), h)
  BY <1>2 DEF Hashes
<1> QED
  BY <1>3 DEF Lookup, Hashes

\* Entries that come or go move a position only to or from their own nodes.
LEMMA LookupSubset ==
  ASSUME NEW R, Placed(R), NEW Q, Q \subseteq R, Q # {}, NEW h \in Nat,
         \A e \in R : e.node = Lookup(R, h) => e \in Q
  PROVE  Lookup(Q, h) = Lookup(R, h)
<1>1. Placed(Q) /\ R # {}
  BY DEF Placed
<1>2. PICK e \in R : e.hash = Clockwise(Hashes(R), h) /\ e.node = Lookup(R, h)
  BY <1>1, LookupIs
<1>3. e \in Q
  BY <1>2
<1>4. PICK f \in Q : f.hash = Clockwise(Hashes(Q), h) /\ f.node = Lookup(Q, h)
  BY <1>1, LookupIs
<1>5. Clockwise(Hashes(Q), h) = Clockwise(Hashes(R), h)
  <2>1. Hashes(R) \subseteq Nat /\ Hashes(Q) \subseteq Hashes(R)
    BY DEF Hashes, Placed, Entry
  <2>2. Clockwise(Hashes(R), h) \in Hashes(Q)
    BY <1>2, <1>3 DEF Hashes
  <2>. QED
    BY <2>1, <2>2, ClockwiseSubset
<1>6. e.hash = f.hash
  BY <1>2, <1>4, <1>5
<1> QED
  BY <1>1, <1>2, <1>3, <1>4, <1>6, NodeAtPoint

-----------------------------------------------------------------------------
(* The invariant                                                           *)

\* A node that is added has a point, at least one and on its own places.
LEMMA EntriesPlaced ==
  ASSUME NEW m \in Node, NEW k \in Counts
  PROVE  /\ Placed(Entries(m, k))
         /\ Entries(m, k) # {}
         /\ \A e \in Entries(m, k) : e.node = m
<1>1. k \in 1 .. Replicas
  BY CountsAssumption
<1>2. \A i \in 1 .. k : i \in 1 .. Replicas
  BY <1>1, ReplicasAssumption
<1>3. \A i \in 1 .. Replicas : PointHash[m][i] \in Nat
  BY HashAssumption
<1>4. 1 \in 1 .. k
  BY <1>1, ReplicasAssumption
<1>5. \A e \in Entries(m, k) :
         \E i \in 1 .. k : e = [hash |-> PointHash[m][i], node |-> m]
  BY DEF Entries, Points
<1>6. [hash |-> PointHash[m][1], node |-> m] \in Entries(m, k)
  BY <1>4 DEF Entries, Points
<1>7. \A i \in 1 .. Replicas : PointHash[m][i] \in Points(m, Replicas)
  BY DEF Points
<1>8. ASSUME NEW e \in Entries(m, k)
      PROVE  e \in Entry /\ e.node = m /\ e.hash \in Points(e.node, Replicas)
  BY <1>2, <1>3, <1>5, <1>7 DEF Entry
<1> QED
  BY <1>6, <1>8 DEF Placed

\* The ring is empty only if it has no members, and the owner of a position is
\* one of them.
LEMMA OwnerIsMember ==
  ASSUME RInv
  PROVE  /\ ring = {} <=> physicalNodes = {}
         /\ ring # {} => \A h \in Nat : /\ Clockwise(Hashes(ring), h) \in Nat
                                       /\ Lookup(ring, h) \in physicalNodes
<1>1. \A m \in physicalNodes : \E e \in ring : e.node = m
  <2> TAKE m \in physicalNodes
  <2>1. m \in Node
    BY DEF RInv, TypeOK
  <2>2. PICK k \in Counts : {e \in ring : e.node = m} = Entries(m, k)
    BY DEF RInv, RingOfMembers
  <2> QED
    BY <2>1, <2>2, EntriesPlaced
<1>2. \A e \in ring : e.node \in physicalNodes /\ e.hash \in Nat
  BY DEF RInv, RingOfMembers, TypeOK, Entry
<1>3. ASSUME ring # {}, NEW h \in Nat
      PROVE  Clockwise(Hashes(ring), h) \in Nat /\ Lookup(ring, h) \in physicalNodes
  BY <1>2, <1>3, LookupIs DEF RInv
<1> QED
  BY <1>1, <1>2, <1>3

LEMMA InitRInv == Init => RInv
<1> SUFFICES ASSUME Init PROVE RInv
  OBVIOUS
<1> USE DEF Init
<1>1. TypeOK
  <2>1. <<>> \in Seq(Node)
    OBVIOUS
  <2>2. NoWalk \in Walk
    BY <2>1 DEF NoWalk, Walk
  <2> QED
    BY <2>2 DEF TypeOK
<1>2. IsFiniteSet(physicalNodes)
  BY FS_EmptySet
<1>3. Placed(ring) /\ RingOfMembers /\ NoChangeMissed
  BY DEF Placed, RingOfMembers, NoChangeMissed
<1>4. ~walk.running
  BY DEF NoWalk
<1> QED
  BY <1>1, <1>2, <1>3, <1>4 DEF RInv

LEMMA AddRInv ==
  ASSUME RInv, NEW m \in Node, NEW k \in Counts, Add(m, k)
  PROVE  RInv'
<1> USE DEF RInv, Add
<1>1. CASE m \in physicalNodes
  BY <1>1 DEF TypeOK, RingOfMembers, NoChangeMissed
<1>2. CASE m \notin physicalNodes
  <2>1. physicalNodes' = physicalNodes \cup {m} /\ ring' = ring \cup Entries(m, k)
    BY <1>2
  <2>2. IsFiniteSet(physicalNodes')
    BY <2>1, FS_AddElement
  <2>3. Placed(ring')
    BY <2>1, EntriesPlaced DEF Placed
  <2>4. TypeOK'
    BY <1>2, <2>1, <2>3 DEF TypeOK, Placed
  <2>5. RingOfMembers'
    <3>1. \A e \in ring' : e.node \in physicalNodes'
      BY <2>1, EntriesPlaced DEF RingOfMembers
    <3>2. {e \in ring' : e.node = m} = Entries(m, k)
      BY <1>2, <2>1, EntriesPlaced DEF RingOfMembers
    <3>3. \A q \in physicalNodes :
             {e \in ring' : e.node = q} = {e \in ring : e.node = q}
      BY <1>2, <2>1, EntriesPlaced
    <3>4. \A q \in physicalNodes :
             \E c \in Counts : {e \in ring' : e.node = q} = Entries(q, c)
      BY <3>3 DEF RingOfMembers
    <3> QED
      BY <2>1, <3>1, <3>2, <3>4 DEF RingOfMembers
  <2>6. NoChangeMissed' /\ ~walk'.running
    BY <1>2 DEF NoChangeMissed
  <2> QED
    BY <2>2, <2>3, <2>4, <2>5, <2>6
<1> QED
  BY <1>1, <1>2

LEMMA RemoveRInv ==
  ASSUME RInv, NEW m \in Node, Remove(m)
  PROVE  RInv'
<1> USE DEF RInv, Remove, Left, Changed
<1>1. IsFiniteSet(physicalNodes')
  BY FS_RemoveElement
<1>2. Placed(ring') /\ TypeOK'
  BY DEF Placed, TypeOK
<1>3. RingOfMembers'
  <2>1. \A e \in ring' : e.node \in physicalNodes'
    BY DEF RingOfMembers
  <2>2. \A q \in physicalNodes' :
           {e \in ring' : e.node = q} = {e \in ring : e.node = q}
    OBVIOUS
  <2>3. \A q \in physicalNodes' : q \in physicalNodes
    OBVIOUS
  <2>4. \A q \in physicalNodes' :
           \E c \in Counts : {e \in ring' : e.node = q} = Entries(q, c)
    BY <2>2, <2>3 DEF RingOfMembers
  <2> QED
    BY <2>1, <2>4 DEF RingOfMembers
<1>4. NoChangeMissed'
  <2> SUFFICES ASSUME ~hasChanged' PROVE seen' = physicalNodes'
    BY DEF NoChangeMissed
  <2>1. ~hasChanged /\ ~\E e \in ring : e.node = m
    OBVIOUS
  <2>2. m \notin physicalNodes
    <3> SUFFICES ASSUME m \in physicalNodes PROVE FALSE
      OBVIOUS
    <3>1. PICK c \in Counts : {e \in ring : e.node = m} = Entries(m, c)
      BY DEF RingOfMembers
    <3> QED
      BY <2>1, <3>1, EntriesPlaced
  <2> QED
    BY <2>1, <2>2 DEF NoChangeMissed
<1> QED
  BY <1>1, <1>2, <1>3, <1>4

LEMMA StepRInv ==
  ASSUME RInv, Step
  PROVE  RInv'
<1> DEFINE p     == Clockwise({e.hash : e \in ring}, walk.from)
           q     == Lookup(ring, p)
           nodes == IF Found(walk.nodes, q)
                    THEN walk.nodes ELSE Append(walk.nodes, q)
<1>1. walk \in Walk /\ walk.running /\ walk.n <= Cardinality(physicalNodes)
  BY DEF RInv, TypeOK, Step
<1>2. physicalNodes # {}
  <2>1. Len(walk.nodes) \in Nat /\ walk.n \in Nat /\ Len(walk.nodes) < walk.n
    BY <1>1 DEF Walk, Step
  <2>2. 0 < Cardinality(physicalNodes)
    <3>1. Cardinality(physicalNodes) \in Nat
      BY FS_CardinalityType DEF RInv
    <3> QED
      BY <1>1, <2>1, <3>1
  <2> QED
    BY <2>2, FS_EmptySet
<1>3. p \in Nat /\ q \in Node
  <2>1. ring # {} /\ walk.from \in Nat
    BY <1>1, <1>2, OwnerIsMember DEF Walk
  <2>2. p \in Nat
    BY <2>1, OwnerIsMember DEF Hashes
  <2> QED
    BY <2>1, <2>2, OwnerIsMember DEF RInv, TypeOK
<1>4. walk.nodes \in Seq(Node)
  BY <1>1 DEF Walk
<1>5. nodes \in Seq(Node)
  BY <1>3, <1>4
<1>6. walk' = [[walk EXCEPT !.from = p + 1] EXCEPT !.nodes = nodes]
  BY Zenon DEF Step
<1> HIDE DEF p, q, nodes
<1>7. walk' \in Walk /\ walk'.n = walk.n
  <2> DEFINE w == [walk EXCEPT !.from = p + 1]
  <2>1. w \in Walk /\ w.n = walk.n
    BY <1>1, <1>3 DEF Walk
  <2> HIDE DEF w
  <2>2. /\ [w EXCEPT !.nodes = nodes] \in Walk
        /\ [w EXCEPT !.nodes = nodes].n = w.n
    BY <2>1, <1>5 DEF Walk
  <2>3. walk' = [w EXCEPT !.nodes = nodes]
    BY <1>6 DEF w
  <2> QED
    BY <2>1, <2>2, <2>3
<1>8. UNCHANGED <<physicalNodes, ring, hasChanged, seen>>
  BY DEF Step
<1> QED
  BY <1>1, <1>7, <1>8 DEF RInv, TypeOK, RingOfMembers, NoChangeMissed

LEMMA NextRInv == RInv /\ [Next]_vars => RInv'
<1> SUFFICES ASSUME RInv, [Next]_vars PROVE RInv'
  OBVIOUS
<1>1. ASSUME NEW m \in Node, NEW k \in Counts, Add(m, k) PROVE RInv'
  BY <1>1, AddRInv
<1>2. ASSUME NEW m \in Node, Remove(m) PROVE RInv'
  BY <1>2, RemoveRInv
<1>3. CASE HasChanged
  BY <1>3 DEF RInv, HasChanged, TypeOK, RingOfMembers, NoChangeMissed
<1>4. ASSUME NEW h \in Position, NEW n \in 0 .. MaxPrefs, PreferenceList(h, n)
      PROVE  RInv'
  <2>1. Cardinality(physicalNodes) \in Nat
    BY FS_CardinalityType DEF RInv
  <2>2. h \in Nat /\ n \in Nat
    BY PositionAssumption
  <2>3. /\ walk'.running = TRUE /\ walk' \in Walk
        /\ walk'.n <= Cardinality(physicalNodes)
    BY <1>4, <2>1, <2>2 DEF PreferenceList, Cap, Walk
  <2> QED
    BY <1>4, <2>3 DEF RInv, PreferenceList, TypeOK, RingOfMembers, NoChangeMissed
<1>5. CASE Step
  BY <1>5, StepRInv
<1>6. CASE Done
  <2>1. walk' \in Walk /\ ~walk'.running
    BY <1>6 DEF Done, NoWalk, Walk
  <2> QED
    BY <1>6, <2>1 DEF RInv, Done, TypeOK, RingOfMembers, NoChangeMissed
<1>7. CASE UNCHANGED vars
  BY <1>7 DEF RInv, vars, TypeOK, RingOfMembers, NoChangeMissed
<1> QED
  BY <1>1, <1>2, <1>3, <1>4, <1>5, <1>6, <1>7 DEF Next

THEOREM Invariance == Spec => []RInv
<1>1. Init => RInv
  BY InitRInv
<1>2. RInv /\ [Next]_vars => RInv'
  BY NextRInv
<1> QED
  BY <1>1, <1>2, PTL DEF Spec

\* The methods of Ring keep the types, and a preference list is one of nodes:
\* its loop never looks at an empty ring.
THEOREM TypeCorrect == Spec => []TypeOK
<1>1. RInv => TypeOK
  BY DEF RInv
<1> QED
  BY <1>1, Invariance, PTL

\* After any history of add and remove the ring has just the points of its
\* physical nodes (Ring::add, Ring::remove).
THEOREM RingIsOfMembers == Spec => []RingOfMembers
<1>1. RInv => RingOfMembers
  BY DEF RInv
<1> QED
  BY <1>1, Invariance, PTL

\* Every change of the set of nodes since the last call of Ring::hasChanged is
\* reported by the next one.
THEOREM ChangeReported == Spec => []NoChangeMissed
<1>1. RInv => NoChangeMissed
  BY DEF RInv
<1> QED
  BY <1>1, Invariance, PTL

\* When every node is added with the default number of points, as Membership
\* does, m_ring is the function RingOf of the physical nodes: what module
\* Membership reads instead of it.
THEOREM RingIsFunction ==
  ASSUME Counts = {Replicas}
  PROVE  Spec => [](ring = RingOf(physicalNodes))
<1>1. ASSUME RInv PROVE ring = RingOf(physicalNodes)
  <2>1. \A m \in physicalNodes : {e \in ring : e.node = m} = Entries(m, Replicas)
    BY <1>1 DEF RInv, RingOfMembers
  <2>2. \A e \in ring : e.node \in physicalNodes
    BY <1>1 DEF RInv, RingOfMembers
  <2>3. ASSUME NEW e \in ring PROVE e \in RingOf(physicalNodes)
    BY <2>1, <2>2 DEF RingOf
  <2>4. ASSUME NEW e \in RingOf(physicalNodes) PROVE e \in ring
    BY <2>1 DEF RingOf
  <2> QED
    BY <2>3, <2>4
<1> QED
  BY <1>1, Invariance, PTL

-----------------------------------------------------------------------------
(* The order of failover                                                   *)

\* Clockwise by its order: x is the first point of S from h on.
First(S, h, x) ==
  /\ x \in S
  /\ \/ h <= x /\ \A y \in S : h <= y => x <= y
     \/ \A y \in S : ~(h <= y) /\ x <= y

LEMMA ClockwiseIsFirst ==
  ASSUME NEW S, S \subseteq Nat, S # {}, NEW h \in Nat
  PROVE  First(S, h, Clockwise(S, h))
<1> DEFINE ahead == {x \in S : h <= x}
<1>1. CASE ahead # {}
  <2>1. Least(ahead) \in ahead /\ \A y \in ahead : Least(ahead) <= y
    BY <1>1, LeastOf
  <2> QED BY <1>1, <2>1 DEF First, Clockwise
<1>2. CASE ahead = {}
  <2>1. Least(S) \in S /\ \A y \in S : Least(S) <= y
    BY LeastOf
  <2> QED BY <1>2, <2>1 DEF First, Clockwise
<1> QED BY <1>1, <1>2

LEMMA FirstIsClockwise ==
  ASSUME NEW S, S \subseteq Nat, NEW h \in Nat, NEW x, First(S, h, x)
  PROVE  Clockwise(S, h) = x
<1>1. S # {} /\ x \in Nat
  BY DEF First
<1>2. First(S, h, Clockwise(S, h)) /\ Clockwise(S, h) \in Nat
  BY <1>1, ClockwiseIsFirst DEF First
<1> HIDE DEF First
<1>3. \A y \in S : y \in Nat
  OBVIOUS
<1> QED BY <1>1, <1>2, <1>3 DEF First

\* The node at the first point is the owner.
LEMMA OwnerAtFirst ==
  ASSUME NEW R, Placed(R), NEW e \in R, NEW h \in Nat, First(Hashes(R), h, e.hash)
  PROVE  Lookup(R, h) = e.node
<1>1. Hashes(R) \subseteq Nat /\ R # {}
  BY DEF Hashes, Placed, Entry
<1>2. PICK f \in R : f.hash = Clockwise(Hashes(R), h) /\ f.node = Lookup(R, h)
  BY <1>1, LookupIs
<1>3. f.hash = e.hash
  BY <1>1, <1>2, FirstIsClockwise
<1> QED BY <1>2, <1>3, NodeAtPoint

\* The points a walk that began at key has passed when it stands at from.
Passed(x, key, from) ==
  IF key < from THEN key <= x /\ x < from ELSE key <= x \/ x < from

\* The first point from the iterator on is also the first from the key on, of
\* those that were not passed; and it is the only one passed next.
LEMMA FirstUnpassed ==
  ASSUME NEW S, S \subseteq Nat, NEW T, T \subseteq S,
         NEW key \in Nat, NEW from \in Nat, NEW x, First(S, from, x), x \in T,
         from = key \/ \A y \in T : ~Passed(y, key, from)
  PROVE  First(T, key, x)
<1>1. x \in Nat /\ \A y \in S : y \in Nat
  BY DEF First
<1>2. CASE from = key
  BY <1>1, <1>2 DEF First
<1>3. CASE from # key /\ \A y \in T : ~Passed(y, key, from)
  BY <1>1, <1>3 DEF First, Passed
<1> QED BY <1>2, <1>3

LEMMA PassedNext ==
  ASSUME NEW S, S \subseteq Nat, NEW key \in Nat, NEW from \in Nat,
         NEW x, First(S, from, x), NEW y \in S, Passed(y, key, x + 1)
  PROVE  y = x \/ (from # key /\ Passed(y, key, from))
<1>1. x \in Nat /\ y \in Nat
  BY DEF First
<1> QED BY <1>1 DEF First, Passed

\* The invariant of the loop: the nodes of the points passed have been found.
WalkInv ==
  /\ ~walk.running => walk.nodes = <<>>
  /\ walk.nodes = <<>> => walk.from = walk.key
  /\ walk.nodes # <<>> =>
       \A e \in ring : Passed(e.hash, walk.key, walk.from) => Found(walk.nodes, e.node)
  /\ PreferenceIsFailover

\* A turn of the loop looks at the first entry from the iterator on.
LEMMA StepLooks ==
  ASSUME RInv, Step
  PROVE  \E e \in ring :
           /\ First(Hashes(ring), walk.from, e.hash)
           /\ walk'.running = walk.running /\ walk'.key = walk.key
           /\ walk'.from = e.hash + 1
           /\ walk'.nodes = IF Found(walk.nodes, e.node) THEN walk.nodes
                            ELSE Append(walk.nodes, e.node)
           /\ walk' \in Walk /\ ring' = ring
<1> DEFINE p == Clockwise({e.hash : e \in ring}, walk.from)
           q == Lookup(ring, p)
<1>1. walk \in Walk /\ walk' \in Walk /\ ring' = ring /\ Placed(ring)
  BY StepRInv DEF RInv, TypeOK, Step
<1>2. ring # {}
  <2>1. Len(walk.nodes) \in Nat /\ walk.n \in Nat /\ Len(walk.nodes) < walk.n
    BY <1>1 DEF Walk, Step
  <2>2. Cardinality(physicalNodes) \in Nat /\ walk.n <= Cardinality(physicalNodes)
    BY FS_CardinalityType DEF RInv, Step
  <2>3. 0 < Cardinality(physicalNodes)
    BY <2>1, <2>2
  <2>4. physicalNodes # {}
    BY <2>3, FS_EmptySet
  <2> QED BY <2>4, OwnerIsMember
<1>3. walk.from \in Nat /\ Hashes(ring) \subseteq Nat /\ Hashes(ring) # {}
  BY <1>1, <1>2 DEF Walk, Hashes, Placed, Entry
<1>4. p = Clockwise(Hashes(ring), walk.from)
  BY DEF Hashes
<1> HIDE DEF p
<1>5. First(Hashes(ring), walk.from, p)
  BY <1>3, <1>4, ClockwiseIsFirst
<1>6. PICK e \in ring : e.hash = p
  BY <1>5 DEF First, Hashes
<1>7. q = e.node
  <2>1. p \in Nat /\ First(Hashes(ring), p, p)
    BY <1>3, <1>5 DEF First
  <2> QED BY <1>1, <1>6, <2>1, OwnerAtFirst
<1>8. walk' = [walk EXCEPT !.from  = p + 1,
                           !.nodes = IF Found(@, q) THEN @ ELSE Append(@, q)]
  BY Zenon DEF Step, p
<1>9. /\ walk'.running = walk.running /\ walk'.key = walk.key
      /\ walk'.from = p + 1
      /\ walk'.nodes = IF Found(walk.nodes, q) THEN walk.nodes
                       ELSE Append(walk.nodes, q)
  BY <1>1, <1>8 DEF Walk
<1> QED BY <1>1, <1>5, <1>6, <1>7, <1>9

\* What has been found stays found, and so is what is appended.
LEMMA FoundAppend ==
  ASSUME NEW s \in Seq(Node), NEW q \in Node
  PROVE  LET t == Append(s, q)
         IN  /\ t # <<>>
             /\ \A m : Found(s, m) => Found(t, m)
             /\ Found(t, q)
<1> DEFINE t == Append(s, q)
<1>1. /\ Len(s) \in Nat /\ Len(t) = Len(s) + 1
      /\ DOMAIN t = 1 .. Len(s) + 1 /\ DOMAIN s = 1 .. Len(s)
      /\ t[Len(s) + 1] = q /\ \A i \in 1 .. Len(s) : t[i] = s[i]
  OBVIOUS
<1> HIDE DEF t
<1>2. Len(s) + 1 \in DOMAIN t /\ DOMAIN s \subseteq DOMAIN t
  BY <1>1
<1>3. Found(t, q)
  BY <1>1, <1>2, Zenon DEF Found
<1>4. \A m : Found(s, m) => Found(t, m)
  BY <1>1, <1>2, Zenon DEF Found
<1>5. t # <<>>
  BY <1>1
<1> QED BY <1>3, <1>4, <1>5 DEF t

\* What a turn appends is the owner of the key among the nodes not found yet.
LEMMA StepWalkInv ==
  ASSUME RInv, WalkInv, Step
  PROVE  WalkInv'
<1>1. /\ walk \in Walk /\ walk.running /\ Placed(ring)
  BY DEF RInv, TypeOK, Step
<1>2. PICK e \in ring :
        /\ First(Hashes(ring), walk.from, e.hash)
        /\ walk'.running = walk.running /\ walk'.key = walk.key
        /\ walk'.from = e.hash + 1
        /\ walk'.nodes = IF Found(walk.nodes, e.node) THEN walk.nodes
                         ELSE Append(walk.nodes, e.node)
        /\ walk' \in Walk /\ ring' = ring
  BY StepLooks
<1>3. /\ Hashes(ring) \subseteq Nat /\ walk.key \in Nat /\ walk.from \in Nat
      /\ walk.nodes \in Seq(Node) /\ e.node \in Node /\ e.hash \in Nat
      /\ \A f \in ring : f.hash \in Hashes(ring)
  BY <1>1 DEF Walk, Hashes, Placed, Entry
<1>4. /\ walk'.nodes # <<>>
      /\ \A m : Found(walk.nodes, m) => Found(walk'.nodes, m)
      /\ Found(walk'.nodes, e.node)
  <2>1. CASE Found(walk.nodes, e.node)
    BY <1>2, <1>3, <2>1 DEF Found
  <2>2. CASE ~Found(walk.nodes, e.node)
    <3>1. walk'.nodes = Append(walk.nodes, e.node)
      BY <1>2, <2>2
    <3> QED BY <1>3, <3>1, FoundAppend
  <2> QED BY <2>1, <2>2
<1>5. ASSUME NEW f \in ring, Passed(f.hash, walk.key, e.hash + 1)
      PROVE  Found(walk'.nodes, f.node)
  <2>1. \/ f.hash = e.hash
        \/ walk.from # walk.key /\ Passed(f.hash, walk.key, walk.from)
    BY <1>2, <1>3, <1>5, PassedNext
  <2>2. f.hash = e.hash => f.node = e.node
    BY <1>1, NodeAtPoint
  <2>3. walk.from # walk.key /\ Passed(f.hash, walk.key, walk.from)
          => Found(walk.nodes, f.node)
    BY DEF WalkInv
  <2> QED BY <1>4, <2>1, <2>2, <2>3
<1>6. PreferenceIsFailover'
  <2>1. CASE Found(walk.nodes, e.node)
    BY <1>2, <2>1 DEF WalkInv, PreferenceIsFailover
  <2>2. CASE ~Found(walk.nodes, e.node)
    <3> DEFINE rest(k) == {f \in ring :
                             f.node \notin {walk.nodes[j] : j \in 1 .. k - 1}}
               left    == {f \in ring : ~Found(walk.nodes, f.node)}
    <3>1. /\ DOMAIN walk'.nodes = 1 .. Len(walk.nodes) + 1
          /\ DOMAIN walk.nodes = 1 .. Len(walk.nodes) /\ Len(walk.nodes) \in Nat
          /\ \A j \in 1 .. Len(walk.nodes) : walk'.nodes[j] = walk.nodes[j]
          /\ walk'.nodes[Len(walk.nodes) + 1] = e.node
      BY <1>2, <1>3, <2>2
    <3>2. e \in left /\ left \subseteq ring /\ Placed(left)
      BY <1>1, <2>2 DEF Placed
    <3>3. First(Hashes(left), walk.key, e.hash)
      <4>1. walk.from = walk.key \/ \A f \in left : ~Passed(f.hash, walk.key, walk.from)
        BY DEF WalkInv
      <4>2. /\ Hashes(left) \subseteq Hashes(ring) /\ e.hash \in Hashes(left)
            /\ walk.from = walk.key
               \/ \A y \in Hashes(left) : ~Passed(y, walk.key, walk.from)
        BY <3>2, <4>1 DEF Hashes
      <4> QED BY <1>2, <1>3, <4>2, FirstUnpassed
    <3>4. Lookup(left, walk.key) = e.node
      BY <1>3, <3>2, <3>3, OwnerAtFirst
    <3>5. \A k \in 1 .. Len(walk.nodes) + 1 :
            {walk'.nodes[j] : j \in 1 .. k - 1} = {walk.nodes[j] : j \in 1 .. k - 1}
      <4> TAKE k \in 1 .. Len(walk.nodes) + 1
      <4>1. \A j \in 1 .. k - 1 : j \in 1 .. Len(walk.nodes)
        BY <3>1
      <4>2. \A j \in 1 .. k - 1 : walk'.nodes[j] = walk.nodes[j]
        BY <3>1, <4>1
      <4> QED BY <4>2
    <3>6. rest(Len(walk.nodes) + 1) = left
      BY <3>1 DEF Found
    <3>7. \A k \in 1 .. Len(walk.nodes) : walk.nodes[k] = Lookup(rest(k), walk.key)
      BY <3>1 DEF WalkInv, PreferenceIsFailover
    <3>8. \A k \in 1 .. Len(walk.nodes) + 1 :
            walk'.nodes[k] = Lookup(rest(k), walk.key)
      <4> SUFFICES ASSUME NEW k \in 1 .. Len(walk.nodes) + 1
                   PROVE  walk'.nodes[k] = Lookup(rest(k), walk.key)
        OBVIOUS
      <4>1. k \in 1 .. Len(walk.nodes) \/ k = Len(walk.nodes) + 1
        BY <3>1
      <4>2. CASE k \in 1 .. Len(walk.nodes)
        BY <3>1, <3>7, <4>2
      <4>3. CASE k = Len(walk.nodes) + 1
        BY <3>1, <3>4, <3>6, <4>3
      <4> QED BY <4>1, <4>2, <4>3
    <3>9. \A k \in 1 .. Len(walk.nodes) + 1 :
            rest(k) = {f \in ring' : f.node \notin {walk'.nodes[j] : j \in 1 .. k - 1}}
      BY <1>2, <3>5
    <3> HIDE DEF rest, left
    <3> QED BY <1>2, <3>1, <3>8, <3>9 DEF PreferenceIsFailover
  <2> QED BY <2>1, <2>2
<1> QED BY <1>1, <1>2, <1>4, <1>5, <1>6 DEF WalkInv

LEMMA NextWalkInv ==
  ASSUME RInv, WalkInv, [Next]_vars
  PROVE  WalkInv'
<1>1. CASE Step
  BY <1>1, StepWalkInv
<1>2. ASSUME NEW h \in Position, NEW n \in 0 .. MaxPrefs, PreferenceList(h, n)
      PROVE  WalkInv'
  BY <1>2 DEF PreferenceList, WalkInv, PreferenceIsFailover
<1>3. CASE Done
  BY <1>3 DEF Done, NoWalk, WalkInv, PreferenceIsFailover
<1>4. ASSUME ~walk.running, UNCHANGED walk PROVE WalkInv'
  BY <1>4 DEF WalkInv, PreferenceIsFailover
<1>5. CASE UNCHANGED vars
  BY <1>5 DEF vars, WalkInv, PreferenceIsFailover
<1>6. ASSUME NEW m \in Node, Remove(m) \/ \E k \in Counts : Add(m, k)
      PROVE  ~walk.running /\ UNCHANGED walk
  BY <1>6 DEF Remove, Add
<1>7. CASE HasChanged
  BY <1>4, <1>7 DEF HasChanged
<1> QED BY <1>1, <1>2, <1>3, <1>4, <1>5, <1>6, <1>7 DEF Next

LEMMA WalkInvariance == Spec => []WalkInv
<1>1. Init => WalkInv
  BY DEF Init, NoWalk, WalkInv, PreferenceIsFailover
<1>2. RInv /\ WalkInv /\ [Next]_vars => WalkInv'
  BY NextWalkInv
<1> QED BY <1>1, <1>2, Invariance, PTL DEF Spec

\* Every preference list is the order in which the key would be taken over as
\* the nodes before leave: Ring::preferenceList wraps, skips what it has found,
\* and misses no node, wherever the points are.
THEOREM PreferenceFollowsFailover == Spec => []PreferenceIsFailover
<1>1. WalkInv => PreferenceIsFailover
  BY DEF WalkInv
<1> QED BY <1>1, WalkInvariance, PTL

-----------------------------------------------------------------------------
(* The loop of preferenceList ends                                         *)

\* The entries that the loop has passed; none before its first turn.
Visited ==
  IF walk.nodes = <<>>
  THEN {}
  ELSE {e \in ring : Passed(e.hash, walk.key, walk.from)}

\* How many turns the loop can take at most.
TurnsLeft == Cardinality(ring \ Visited)

LEMMA EntriesFinite ==
  ASSUME NEW m \in Node, NEW k \in Counts
  PROVE  IsFiniteSet(Entries(m, k))
<1> DEFINE f == [i \in 1 .. k |-> [hash |-> PointHash[m][i], node |-> m]]
<1>1. k \in Nat /\ IsFiniteSet(1 .. k)
  BY CountsAssumption, ReplicasAssumption, FS_Interval
<1>2. \A e \in Entries(m, k) : \E i \in 1 .. k : e = f[i]
  BY DEF Entries, Points
<1>3. \A i \in 1 .. k : f[i] \in Entries(m, k)
  BY DEF Entries, Points
<1> HIDE DEF f
<1>4. f \in [1 .. k -> Entries(m, k)]
  BY <1>3 DEF f
<1>5. f \in Surjection(1 .. k, Entries(m, k))
  BY <1>2, <1>4 DEF Surjection
<1> QED BY <1>1, <1>5, FS_Surjection

FiniteInv == IsFiniteSet(ring)

LEMMA RingFinite == Spec => []FiniteInv
<1>1. Init => FiniteInv
  BY FS_EmptySet DEF Init, FiniteInv
<1>2. FiniteInv /\ [Next]_vars => FiniteInv'
  <2> SUFFICES ASSUME IsFiniteSet(ring), [Next]_vars PROVE IsFiniteSet(ring')
    BY DEF FiniteInv
  <2>1. ASSUME NEW m \in Node, NEW k \in Counts, Add(m, k)
        PROVE  IsFiniteSet(ring')
    BY <2>1, EntriesFinite, FS_Union DEF Add
  <2>2. ASSUME NEW m \in Node, Remove(m)
        PROVE  IsFiniteSet(ring')
    BY <2>2, FS_Subset DEF Remove, Left
  <2>3. CASE UNCHANGED ring
    BY <2>3
  <2> QED
    BY <2>1, <2>2, <2>3 DEF Next, HasChanged, PreferenceList, Step, Done, vars
<1> QED BY <1>1, <1>2, PTL DEF Spec

\* A list shorter than the set of nodes has not found one of them.
LEMMA OneUnfound ==
  ASSUME NEW S, IsFiniteSet(S), NEW s \in Seq(Node), Len(s) < Cardinality(S)
  PROVE  \E m \in S : ~Found(s, m)
<1> SUFFICES ASSUME \A m \in S : Found(s, m)
             PROVE  FALSE
  OBVIOUS
<1> DEFINE T == {s[i] : i \in DOMAIN s}
<1>1. Len(s) \in Nat /\ DOMAIN s = 1 .. Len(s) /\ s \in [1 .. Len(s) -> T]
  OBVIOUS
<1>2. s \in Surjection(1 .. Len(s), T)
  BY <1>1 DEF Surjection
<1>3. IsFiniteSet(1 .. Len(s)) /\ Cardinality(1 .. Len(s)) = Len(s)
  <2>1. \A l \in Nat : IsFiniteSet(1 .. l) /\ Cardinality(1 .. l) = l
    <3> TAKE l \in Nat
    <3>1. /\ IsFiniteSet(1 .. l)
          /\ Cardinality(1 .. l) = IF 1 > l THEN 0 ELSE l - 1 + 1
      BY FS_Interval
    <3> QED BY <3>1
  <2> QED BY <1>1, <2>1
<1>4. IsFiniteSet(T) /\ Cardinality(T) <= Len(s)
  BY <1>2, <1>3, FS_Surjection
<1>5. S \subseteq T
  BY DEF Found
<1> HIDE DEF T
<1>6. Cardinality(S) <= Cardinality(T)
  BY <1>4, <1>5, FS_Subset
<1> QED BY <1>1, <1>4, <1>6, FS_CardinalityType

\* While a point is not passed, the first from the iterator on is not either, and
\* passing it leaves those passed that were.
LEMMA PassedGrow ==
  ASSUME NEW S, S \subseteq Nat, NEW key \in Nat, NEW from \in Nat,
         NEW x, First(S, from, x), NEW y \in S, ~Passed(y, key, from)
  PROVE  /\ ~Passed(x, key, from)
         /\ \A z \in S : Passed(z, key, from) => Passed(z, key, x + 1)
         /\ Passed(x, key, x + 1)
<1>1. x \in Nat /\ \A z \in S : z \in Nat
  BY DEF First
<1> QED BY <1>1 DEF First, Passed

LEMMA PassedFirst ==
  ASSUME NEW x \in Nat, NEW key \in Nat
  PROVE  Passed(x, key, x + 1)
BY DEF Passed

\* A turn passes one more entry.
LEMMA StepVisits ==
  ASSUME RInv, WalkInv, Step
  PROVE  \E e \in ring \ Visited : Visited \cup {e} \subseteq Visited'
<1>1. /\ walk \in Walk /\ Placed(ring)
      /\ walk.n <= Cardinality(physicalNodes) /\ Len(walk.nodes) < walk.n
  BY DEF RInv, TypeOK, Step
<1>2. PICK e \in ring :
        /\ First(Hashes(ring), walk.from, e.hash)
        /\ walk'.running = walk.running /\ walk'.key = walk.key
        /\ walk'.from = e.hash + 1
        /\ walk'.nodes = IF Found(walk.nodes, e.node) THEN walk.nodes
                         ELSE Append(walk.nodes, e.node)
        /\ walk' \in Walk /\ ring' = ring
  BY StepLooks
<1>3. /\ Hashes(ring) \subseteq Nat /\ walk.key \in Nat /\ walk.from \in Nat
      /\ walk.nodes \in Seq(Node) /\ e.node \in Node /\ e.hash \in Nat
      /\ \A g \in ring : g.hash \in Hashes(ring)
  BY <1>1 DEF Walk, Hashes, Placed, Entry
<1>4. walk'.nodes # <<>>
  <2>1. CASE Found(walk.nodes, e.node)
    BY <1>2, <1>3, <2>1 DEF Found
  <2>2. CASE ~Found(walk.nodes, e.node)
    BY <1>2, <1>3, <2>2, FoundAppend
  <2> QED BY <2>1, <2>2
<1>5. Visited' = {g \in ring : Passed(g.hash, walk.key, e.hash + 1)}
  BY <1>2, <1>4 DEF Visited
<1>6. CASE walk.nodes = <<>>
  <2>1. Visited = {} /\ e \in ring \ Visited
    BY <1>6 DEF Visited
  <2>2. Passed(e.hash, walk.key, e.hash + 1)
    BY <1>3, PassedFirst
  <2>3. e \in Visited'
    BY <1>5, <2>2
  <2> QED BY <2>1, <2>3
<1>7. CASE walk.nodes # <<>>
  <2>1. PICK m \in physicalNodes : ~Found(walk.nodes, m)
    <3>1. Len(walk.nodes) \in Nat /\ walk.n \in Nat /\ Cardinality(physicalNodes) \in Nat
      BY <1>1, FS_CardinalityType DEF Walk, RInv
    <3>2. Len(walk.nodes) < Cardinality(physicalNodes)
      BY <1>1, <3>1
    <3> QED BY <1>3, <3>2, OneUnfound DEF RInv
  <2>2. PICK f \in ring : f.node = m
    BY EntriesPlaced DEF RInv, RingOfMembers, TypeOK
  <2>3. ~Passed(f.hash, walk.key, walk.from)
    BY <1>7, <2>1, <2>2 DEF WalkInv
  <2>4. /\ ~Passed(e.hash, walk.key, walk.from)
        /\ \A z \in Hashes(ring) : Passed(z, walk.key, walk.from)
                                     => Passed(z, walk.key, e.hash + 1)
        /\ Passed(e.hash, walk.key, e.hash + 1)
    BY <1>2, <1>3, <2>3, PassedGrow
  <2>5. Visited = {g \in ring : Passed(g.hash, walk.key, walk.from)}
    BY <1>7 DEF Visited
  <2> QED BY <1>3, <1>5, <2>4, <2>5
<1> QED BY <1>6, <1>7

\* Every turn of the loop of Ring::preferenceList passes a point it has not passed
\* yet, so that it takes as many turns as the ring has points at most, wherever the
\* points are and whatever number of nodes is asked for.
THEOREM LoopIsFinite ==
  Spec => [][Step => TurnsLeft \in Nat /\ TurnsLeft' < TurnsLeft]_vars
<1>1. ASSUME RInv, WalkInv, FiniteInv, Step
      PROVE  TurnsLeft \in Nat /\ TurnsLeft' < TurnsLeft
  <2>1. PICK e \in ring \ Visited : Visited \cup {e} \subseteq Visited'
    BY <1>1, StepVisits
  <2>2. ring' = ring
    BY <1>1 DEF Step
  <2>3. IsFiniteSet(ring \ Visited)
    BY <1>1, FS_Subset DEF FiniteInv
  <2>4. /\ IsFiniteSet((ring \ Visited) \ {e})
        /\ Cardinality((ring \ Visited) \ {e}) = Cardinality(ring \ Visited) - 1
    BY <2>1, <2>3, FS_RemoveElement
  <2>5. ring' \ Visited' \subseteq (ring \ Visited) \ {e}
    BY <2>1, <2>2
  <2>6. /\ IsFiniteSet(ring' \ Visited')
        /\ Cardinality(ring' \ Visited') <= Cardinality((ring \ Visited) \ {e})
    BY <2>4, <2>5, FS_Subset
  <2>7. Cardinality(ring \ Visited) \in Nat /\ Cardinality(ring' \ Visited') \in Nat
    BY <2>3, <2>6, FS_CardinalityType
  <2> QED BY <2>4, <2>6, <2>7 DEF TurnsLeft
<1>2. RInv /\ WalkInv /\ FiniteInv /\ [Next]_vars =>
        [Step => TurnsLeft \in Nat /\ TurnsLeft' < TurnsLeft]_vars
  BY <1>1
<1> QED BY <1>2, Invariance, WalkInvariance, RingFinite, PTL DEF Spec

-----------------------------------------------------------------------------
(* Refinement                                                              *)

\* The mapping at work: what Owner says when the ring has members.
LEMMA OwnerOf ==
  ASSUME RInv
  PROVE  /\ ring = {} => Owner = [h \in Position |-> None]
         /\ ring # {} => Owner = [h \in Position |-> Lookup(ring, h)]
         /\ Owner \in [Position -> Hash!Owners(physicalNodes)]
<1>1. ring = {} <=> physicalNodes = {}
  BY OwnerIsMember
<1>2. ring # {} => \A h \in Position : Lookup(ring, h) \in physicalNodes
  BY OwnerIsMember, PositionAssumption
<1> QED
  BY <1>1, <1>2 DEF Owner, Hash!Owners

LEMMA AddJoins ==
  ASSUME RInv, NEW m \in Node, NEW k \in Counts, Add(m, k),
         m \notin physicalNodes
  PROVE  Hash!Join(m)
<1>1. RInv'
  BY AddRInv
<1>2. physicalNodes' = physicalNodes \cup {m} /\ ring' = ring \cup Entries(m, k)
  BY DEF Add
<1>3. ring' # {} /\ Placed(ring')
  BY <1>1, <1>2, EntriesPlaced DEF RInv
<1>4. Owner' = [h \in Position |-> Lookup(ring', h)]
  BY <1>3 DEF Owner
<1>5. \A h \in Position : Lookup(ring', h) \in physicalNodes'
  <2>1. ring' # {} => \A h \in Nat : Lookup(ring', h) \in physicalNodes'
    BY <1>3, <1>1, LookupIs DEF RInv, RingOfMembers
  <2> QED
    BY <1>3, <2>1, PositionAssumption
<1>6. ASSUME NEW h \in Position, Lookup(ring', h) # m
      PROVE  ring # {} /\ Lookup(ring', h) = Lookup(ring, h)
  <2>1. h \in Nat
    BY PositionAssumption
  <2>2. \A e \in ring' : e.node = Lookup(ring', h) => e \in ring
    BY <1>2, <1>6, EntriesPlaced
  <2>3. \E e \in ring' : e.node = Lookup(ring', h)
    BY <1>3, <2>1, LookupIs
  <2>4. ring # {} /\ ring \subseteq ring'
    BY <1>2, <2>2, <2>3
  <2> QED
    BY <1>3, <2>1, <2>2, <2>4, LookupSubset
<1>7. \A h \in Position : Owner'[h] \in {Owner[h], m}
  <2> TAKE h \in Position
  <2>1. CASE Lookup(ring', h) = m
    BY <1>4, <2>1
  <2>2. CASE Lookup(ring', h) # m
    <3>1. Owner[h] = Lookup(ring, h)
      BY <1>6, <2>2 DEF Owner
    <3> QED
      BY <1>4, <1>6, <2>2, <3>1
  <2> QED
    BY <2>1, <2>2
<1> QED
  BY <1>2, <1>4, <1>5, <1>7 DEF Hash!Join

LEMMA RemoveLeaves ==
  ASSUME RInv, NEW m \in Node, Remove(m), m \in physicalNodes
  PROVE  Hash!Leave(m)
<1>1. RInv'
  BY RemoveRInv
<1>2. /\ physicalNodes' = physicalNodes \ {m}
      /\ ring' = {e \in ring : e.node # m}
  BY DEF Remove, Left
<1>3. ring # {} /\ Placed(ring)
  BY OwnerIsMember DEF RInv
<1>4. Owner' \in [Position -> Hash!Owners(physicalNodes')]
  <2>1. \A e \in ring' : e.node \in physicalNodes'
    BY <1>1 DEF RInv, RingOfMembers
  <2>2. Placed(ring')
    BY <1>1 DEF RInv
  <2>3. ring' = {} => physicalNodes' = {}
    <3>1. ASSUME NEW q \in physicalNodes' PROVE ring' # {}
      <4>1. q \in Node
        BY <1>1 DEF RInv, TypeOK
      <4>2. PICK c \in Counts : {e \in ring' : e.node = q} = Entries(q, c)
        BY <1>1, <3>1 DEF RInv, RingOfMembers
      <4> QED
        BY <4>1, <4>2, EntriesPlaced
    <3> QED
      BY <3>1
  <2>4. ASSUME ring' # {}, NEW h \in Position
        PROVE  Lookup(ring', h) \in physicalNodes'
    BY <2>1, <2>2, <2>4, LookupIs, PositionAssumption
  <2>5. ring' # {} => physicalNodes' # {}
    BY <2>1
  <2> QED
    BY <2>3, <2>4, <2>5 DEF Owner, Hash!Owners
<1>5. ASSUME NEW h \in Position, Owner[h] # m
      PROVE  Owner'[h] = Owner[h]
  <2>1. h \in Nat /\ Owner[h] = Lookup(ring, h)
    BY <1>3, PositionAssumption DEF Owner
  <2>2. \A e \in ring : e.node = Lookup(ring, h) => e \in ring'
    BY <1>2, <1>5, <2>1
  <2>3. ring' # {} /\ ring' \subseteq ring
    BY <1>2, <1>3, <2>1, <2>2, LookupIs
  <2>4. Lookup(ring', h) = Lookup(ring, h)
    BY <1>3, <2>1, <2>2, <2>3, LookupSubset
  <2> QED
    BY <2>1, <2>3, <2>4 DEF Owner
<1> QED
  BY <1>2, <1>4, <1>5 DEF Hash!Leave

\* Ring implements a consistent hash: whatever is added and removed, a node that
\* joins takes keys only to itself and one that leaves gives up only its own.
THEOREM Refinement == Spec => IsConsistentHash
<1>1. Init => Hash!Init
  BY DEF Init, Hash!Init, Owner
<1>2. ASSUME RInv, [Next]_vars
      PROVE  [Hash!Next]_Hash!vars
  <2>1. UNCHANGED <<physicalNodes, ring>> => UNCHANGED Hash!vars
    BY DEF Hash!vars, Owner
  <2>2. ASSUME NEW m \in Node, NEW k \in Counts, Add(m, k)
        PROVE  Hash!Next \/ UNCHANGED <<physicalNodes, ring>>
    <3>1. CASE m \in physicalNodes
      BY <2>2, <3>1 DEF Add
    <3>2. CASE m \notin physicalNodes
      BY <1>2, <2>2, <3>2, AddJoins DEF Hash!Next
    <3> QED
      BY <3>1, <3>2
  <2>3. ASSUME NEW m \in Node, Remove(m)
        PROVE  Hash!Next \/ UNCHANGED <<physicalNodes, ring>>
    <3>1. CASE m \in physicalNodes
      BY <1>2, <2>3, <3>1, RemoveLeaves DEF Hash!Next
    <3>2. CASE m \notin physicalNodes
      <4>1. \A e \in ring : e.node # m
        BY <1>2, <3>2 DEF RInv, RingOfMembers
      <4>2. physicalNodes' = physicalNodes /\ ring' = ring
        BY <2>3, <3>2, <4>1 DEF Remove, Left
      <4> QED
        BY <4>2
    <3> QED
      BY <3>1, <3>2
  <2>4. ASSUME \/ HasChanged \/ Step \/ Done \/ UNCHANGED vars
               \/ \E h \in Position, n \in 0 .. MaxPrefs : PreferenceList(h, n)
        PROVE  UNCHANGED <<physicalNodes, ring>>
    BY <2>4, Zenon DEF HasChanged, Step, Done, PreferenceList, vars
  <2> QED
    BY <1>2, <2>1, <2>2, <2>3, <2>4 DEF Next
<1> QED
  BY <1>1, <1>2, Invariance, PTL DEF Spec, IsConsistentHash, Hash!Spec
=============================================================================
