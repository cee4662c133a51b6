-------------------------- MODULE MembershipProofs --------------------------
(***************************************************************************)
(* What the methods of one process preserve, for every set of nodes.       *)
(*                                                                         *)
(* Good(n, s, W) is what holds of the state s of process n while the waits *)
(* W have expired and are still to be handled.  With W = {} it is the part *)
(* of the invariants of Cluster that speaks of one process; Cluster needs  *)
(* it for one wait and EventLoop for as many as are queued.                *)
(***************************************************************************)
EXTENDS Membership, WellFoundedInduction, TLAPS

PingWait(w) == w.handler \in {"handleTimeout", "handleSendNextPing"}

Waits == PingWaits \cup AnnounceWaits

NotMute(s, W) ==
  s.announceTimer \/ s.nextAnnounceTimer \/ W \cap AnnounceWaits # {}

\* The wait that is missing on the timer may be one that expired.
Timed(s, W) ==
  /\ s.timer # NoWait => s.timer.node = s.monitored
  /\ (s.monitored # None /\ s.timer = NoWait) =>
       \E w \in W : PingWait(w) /\ w.node = s.monitored

Told(s) ==
  s.monitored # None => s.told = [to |-> s.monitored, list |-> s.physicalNodes]

\* What DoMonitoring needs: unless the ring has just changed, the right node is
\* monitored and has been told.
Nearly(n, s, W) ==
  /\ s \in State
  /\ n \in s.physicalNodes
  /\ s.monitored # None => Timed(s, W)
  /\ ~s.hasChanged => s.monitored = Successor(n, s.physicalNodes) /\ Told(s)

Good(n, s, W) ==
  /\ Nearly(n, s, W)
  /\ Timed(s, W)
  /\ s.monitored = Successor(n, s.physicalNodes)
  /\ NotMute(s, W)

\* A process that is good but for the waits W is good but for more of them.
LEMMA GoodForMore ==
  ASSUME NEW n, NEW s, NEW W, NEW V, W \subseteq V, Good(n, s, W)
  PROVE  Good(n, s, V)
BY DEF Good, Nearly, Timed, NotMute

-----------------------------------------------------------------------------
(* The operators of HashRing                                               *)

\* A non-empty set of natural numbers has a least element, so that Least
\* returns an element of it that is below the others.
LEMMA LeastOf ==
  ASSUME NEW S, S \subseteq Nat, S # {}
  PROVE  Least(S) \in S /\ \A y \in S : Least(S) <= y
<1> DEFINE less == {p \in Nat \X Nat : p[1] < p[2]}
<1>1. IsWellFoundedOn(less, Nat)
  BY NatLessThanWellFounded DEF OpToRel
<1> HIDE DEF less
<1>2. PICK x \in S : \A y \in S : <<y, x>> \notin less
  BY <1>1, WFMin
<1>3. \A y \in S : x <= y
  <2> TAKE y \in S
  <2>1. ~(y < x)
    BY <1>2 DEF less
  <2> QED
    BY <2>1
<1> QED
  BY <1>3 DEF Least

\* The next physical node is a physical node (no end() is dereferenced).
LEMMA NextIsMember ==
  ASSUME NEW S \in SUBSET Node, NEW n \in S
  PROVE  NextPhysicalNode(S, n) \in S
<1> DEFINE ahead == {x \in S : n + 1 <= x}
<1>1. ahead # {} => Least(ahead) \in ahead
  BY LeastOf, NodeAssumption
<1>2. Least(S) \in S
  BY LeastOf, NodeAssumption
<1> QED
  BY <1>1, <1>2 DEF NextPhysicalNode, Clockwise

\* So whom a process must monitor is another physical node, or nobody.
LEMMA SuccessorType ==
  ASSUME NEW S \in SUBSET Node, NEW n \in S
  PROVE  /\ Successor(n, S) \in (S \ {n}) \cup {None}
         /\ NextPhysicalNode(S, n) # None
BY NextIsMember, NoneAssumption DEF Successor

-----------------------------------------------------------------------------
(* The methods of Ring, Monitor and Membership                             *)

LEMMA AnnounceGood ==
  ASSUME NEW s \in State
  PROVE  /\ Announce(s) \in State
         /\ Announce(s).announceTimer = TRUE
         /\ Announce(s).monitored = s.monitored
         /\ Announce(s).timer = s.timer
         /\ Announce(s).physicalNodes = s.physicalNodes
         /\ Announce(s).hasChanged = s.hasChanged
         /\ Announce(s).told = s.told
<1>1. AnnounceMsg \in Message
  BY DEF Message
<1>2. Announce(s) \in State
  BY <1>1 DEF Announce, State
<1> QED
  BY <1>2 DEF Announce, State

LEMMA RingAddNearly ==
  ASSUME NEW n \in Node, NEW W, NEW s, Nearly(n, s, W),
         NEW S \in SUBSET Node
  PROVE  /\ Nearly(n, RingAdd(s, S), W)
         /\ RingAdd(s, S).physicalNodes = s.physicalNodes \cup S
         /\ RingAdd(s, S).timer = s.timer /\ RingAdd(s, S).sent = s.sent
BY DEF RingAdd, Nearly, State, Timed, Told, NoList, Successor

LEMMA HandleSendNextPingGood ==
  ASSUME NEW n \in Node, NEW W, NEW s, NEW m \in Node,
         s \in State, n \in s.physicalNodes,
         s.monitored = m, ~s.hasChanged => Told(s),
         m = Successor(n, s.physicalNodes)
  PROVE  /\ Nearly(n, HandleSendNextPing(s, m), W)
         /\ HandleSendNextPing(s, m).physicalNodes = s.physicalNodes
         /\ HandleSendNextPing(s, m).monitored = m
         /\ \A V : Timed(HandleSendNextPing(s, m), V)
         /\ \A V : NotMute(s, V) => NotMute(HandleSendNextPing(s, m), V)
<1> DEFINE t == HandleSendNextPing(s, m)
<1>1. t.timer = Wait("handleTimeout", m) /\ t.monitored = m
      /\ t.physicalNodes = s.physicalNodes /\ t.hasChanged = FALSE
      /\ t.announceTimer = s.announceTimer
      /\ t.nextAnnounceTimer = s.nextAnnounceTimer
  BY DEF HandleSendNextPing, State
<1>2. t \in State
  <2>1. PingMsg(m, IF s.hasChanged THEN s.physicalNodes ELSE {}) \in Message
    BY DEF PingMsg, Message, State
  <2>2. Wait("handleTimeout", m) \in PingWaits
    BY DEF PingWaits, Wait
  <2>. QED
    BY <2>1, <2>2 DEF HandleSendNextPing, State
<1>3. Told(t)
  BY DEF HandleSendNextPing, State, Told
<1>4. \A V : Timed(t, V)
  BY <1>1, NoneAssumption DEF Timed, Wait, NoWait
<1> QED
  BY <1>1, <1>2, <1>3, <1>4 DEF Nearly, NotMute

LEMMA DoMonitoringGood ==
  ASSUME NEW n \in Node, NEW W, NEW s, Nearly(n, s, W)
  PROVE  /\ NotMute(s, W) => Good(n, DoMonitoring(n, s), W)
         /\ Nearly(n, DoMonitoring(n, s), W)
         /\ Timed(DoMonitoring(n, s), W)
         /\ s.monitored = None => \A V : Timed(DoMonitoring(n, s), V)
         /\ DoMonitoring(n, s).physicalNodes = s.physicalNodes
         /\ DoMonitoring(n, s).monitored = Successor(n, s.physicalNodes)
         /\ \A V : NotMute(s, V) => NotMute(DoMonitoring(n, s), V)
<1> DEFINE next == NextPhysicalNode(s.physicalNodes, n)
           t    == DoMonitoring(n, s)
<1>1. s \in State /\ s.physicalNodes \in SUBSET Node /\ n \in s.physicalNodes
  BY DEF Nearly, State
<1>2. next \in Node /\ next # None
  BY <1>1, NextIsMember, NoneAssumption
<1>3. CASE next = n
  <2> DEFINE u == [StopMonitoring(s) EXCEPT !.nextAnnounceTimer = FALSE]
  <2>1. t = Announce(u)
    BY <1>3 DEF DoMonitoring
  <2>2. u \in State /\ u.monitored = None /\ u.timer = NoWait
        /\ u.physicalNodes = s.physicalNodes
    <3>1. NoWait \in PingWaits
      BY DEF PingWaits
    <3>2. StopMonitoring(s) \in State
      BY <1>1, <3>1 DEF StopMonitoring, State
    <3>3. u \in State
      BY <3>2 DEF State
    <3>. QED
      BY <1>1, <3>2, <3>3 DEF StopMonitoring, State
  <2> HIDE DEF u
  <2>3. t \in State /\ t.monitored = None /\ t.timer = NoWait /\ t.announceTimer
        /\ t.physicalNodes = s.physicalNodes
    BY <2>1, <2>2, AnnounceGood
  <2>. QED
    BY <1>1, <1>3, <2>3 DEF Good, Nearly, Timed, Told, NotMute, Successor
<1>4. CASE next # n /\ next = s.monitored
  <2>1. t = s
    BY <1>4 DEF DoMonitoring, StartMonitoring
  <2>. QED
    BY <1>2, <1>4, <2>1 DEF Good, Nearly, Successor
<1>5. CASE next # n /\ next # s.monitored
  <2> DEFINE u == [s EXCEPT !.monitored = next]
  <2>1. t = HandleSendNextPing(u, next)
    BY <1>5 DEF DoMonitoring, StartMonitoring
  <2>2. u \in State /\ u.monitored = next /\ u.physicalNodes = s.physicalNodes
        /\ (\A V : NotMute(s, V) => NotMute(u, V))
    BY <1>1, <1>2 DEF State, NotMute
  <2>3. next = Successor(n, s.physicalNodes)
    BY <1>5 DEF Successor
  <2>4. s.hasChanged /\ u.hasChanged
    BY <1>1, <1>5, <2>3 DEF Nearly, State
  <2> HIDE DEF u, next, t
  <2>5. /\ Nearly(n, t, W) /\ \A V : Timed(t, V)
        /\ t.physicalNodes = s.physicalNodes /\ t.monitored = next
        /\ (\A V : NotMute(u, V) => NotMute(t, V))
    BY <1>1, <1>2, <2>1, <2>2, <2>3, <2>4, HandleSendNextPingGood
  <2>. QED
    BY <2>2, <2>3, <2>5 DEF Good, t, next
<1> QED
  BY <1>3, <1>4, <1>5

\* The three ways to lose the monitored node end alike: the node is dropped and
\* monitoring starts over, with the right successor and with a timer that does
\* not depend on the wait that expired.
LEMMA LoseMonitoredGood ==
  ASSUME NEW n \in Node, NEW W, NEW s, NEW m \in Node, Good(n, s, W),
         m = s.monitored, NEW V, NotMute(s, V)
  PROVE  /\ Good(n, LoseMonitored(n, s, m), V)
         /\ LoseMonitored(n, s, m).physicalNodes = s.physicalNodes \ {m}
<1> DEFINE u == RingRemove([s EXCEPT !.monitored = None], m)
           t == LoseMonitored(n, s, m)
<1>1. s \in State /\ m \in s.physicalNodes /\ m # n /\ n \in s.physicalNodes
  BY SuccessorType, NoneAssumption DEF Good, Nearly, State
<1>2. t = DoMonitoring(n, u)
  BY DEF LoseMonitored, NodeIsDown
<1>3. u \in State /\ u.monitored = None /\ u.hasChanged
      /\ u.physicalNodes = s.physicalNodes \ {m} /\ NotMute(u, V)
  BY <1>1 DEF RingRemove, State, NoList, NotMute
<1>4. Nearly(n, u, V)
  BY <1>1, <1>3 DEF Nearly
<1> HIDE DEF u, t
<1>5. Good(n, t, V) /\ t.physicalNodes = u.physicalNodes
  BY <1>2, <1>3, <1>4, DoMonitoringGood
<1> QED
  BY <1>3, <1>5 DEF t

-----------------------------------------------------------------------------
(* The handlers                                                            *)

LEMMA ReceivedAnnounceGood ==
  ASSUME NEW n \in Node, NEW W, NEW s, NEW m \in Node, Good(n, s, W)
  PROVE  /\ Good(n, ReceivedAnnounce(n, s, m), W)
         /\ s.physicalNodes \subseteq ReceivedAnnounce(n, s, m).physicalNodes
<1> SUFFICES ASSUME ~Ignored(n, m)
             PROVE  /\ Good(n, ReceivedAnnounce(n, s, m), W)
                    /\ s.physicalNodes \subseteq
                         ReceivedAnnounce(n, s, m).physicalNodes
  BY DEF ReceivedAnnounce
<1> DEFINE u == RingAdd(s, {m})
           t == DoMonitoring(n, u)
           r == [t EXCEPT !.sent = @ \cup {NodeListMsg(m, t.physicalNodes)}]
<1>1. /\ Nearly(n, u, W) /\ u.physicalNodes = s.physicalNodes \cup {m}
      /\ NotMute(u, W)
  <2>1. Nearly(n, u, W) /\ u.physicalNodes = s.physicalNodes \cup {m}
    BY RingAddNearly DEF Good
  <2>2. NotMute(u, W)
    BY DEF Good, Nearly, NotMute, RingAdd, State
  <2>. QED
    BY <2>1, <2>2
<1> HIDE DEF u
<1>2. Good(n, t, W) /\ t.physicalNodes = s.physicalNodes \cup {m}
  BY <1>1, DoMonitoringGood
<1> HIDE DEF t
<1>3. Good(n, r, W) /\ r.physicalNodes = t.physicalNodes
  <2>1. t \in State
    BY <1>2 DEF Good, Nearly
  <2>2. NodeListMsg(m, t.physicalNodes) \in Message
    BY <2>1 DEF NodeListMsg, Message, State
  <2>3. r \in State
    BY <2>1, <2>2 DEF State
  <2>. QED
    BY <1>2, <2>1, <2>3 DEF Good, Nearly, Timed, NotMute, Told, State
<1> QED
  BY <1>2, <1>3 DEF ReceivedAnnounce, t, u

LEMMA ReceivedNodeListGood ==
  ASSUME NEW n \in Node, NEW W, NEW s, NEW list \in SUBSET Node,
         Good(n, s, W)
  PROVE  /\ Good(n, ReceivedNodeList(n, s, list), W)
         /\ s.physicalNodes \subseteq ReceivedNodeList(n, s, list).physicalNodes
<1> DEFINE v == [s EXCEPT !.announceTimer = FALSE]
           u == RingAdd(v, list)
           t == DoMonitoring(n, u)
<1>1. Nearly(n, v, W) /\ v.physicalNodes = s.physicalNodes
  BY DEF Good, Nearly, Timed, Told, State
<1> HIDE DEF v
<1>2. Nearly(n, u, W) /\ u.physicalNodes = s.physicalNodes \cup list
  BY <1>1, RingAddNearly
<1> HIDE DEF u
<1>3. /\ Nearly(n, t, W) /\ Timed(t, W)
      /\ t.physicalNodes = s.physicalNodes \cup list
      /\ t.monitored = Successor(n, t.physicalNodes)
  BY <1>2, DoMonitoringGood
<1> HIDE DEF t
<1>4. Good(n, [t EXCEPT !.nextAnnounceTimer = TRUE], W)
  BY <1>3 DEF Good, Nearly, Timed, NotMute, Told, State
<1>5. ReceivedNodeList(n, s, list) = [t EXCEPT !.nextAnnounceTimer = TRUE]
  BY DEF ReceivedNodeList, t, u, v
<1>6. [t EXCEPT !.nextAnnounceTimer = TRUE].physicalNodes = t.physicalNodes
  BY <1>3 DEF Nearly, State
<1> QED
  BY <1>3, <1>4, <1>5, <1>6

LEMMA HandlePongGood ==
  ASSUME NEW n \in Node, NEW W, NEW s, NEW m \in Node, Good(n, s, W)
  PROVE  /\ Good(n, HandlePong(s, m), W)
         /\ HandlePong(s, m).physicalNodes = s.physicalNodes
         /\ HandlePong(s, m).monitored = s.monitored
<1>1. CASE m # s.monitored
  BY <1>1 DEF HandlePong
<1>2. CASE m = s.monitored
  <2> DEFINE t == [s EXCEPT !.timer = Wait("handleSendNextPing", m)]
  <2>1. s \in State
    BY DEF Good, Nearly
  <2>2. Wait("handleSendNextPing", m) \in PingWaits
    BY DEF PingWaits, Wait
  <2>3. t \in State
    BY <2>1, <2>2 DEF State
  <2>4. /\ t.monitored = m /\ t.timer # NoWait /\ t.timer.node = m
        /\ t.physicalNodes = s.physicalNodes
    BY <1>2, <2>1 DEF State, Wait, NoWait
  <2>5. Timed(t, W)
    BY <2>4, NoneAssumption DEF Timed
  <2>6. Good(n, t, W)
    BY <1>2, <2>1, <2>3, <2>4, <2>5 DEF Good, Nearly, NotMute, Told, State
  <2>. QED
    BY <1>2, <2>4, <2>6 DEF HandlePong
<1> QED
  BY <1>1, <1>2

LEMMA HandlePingFailedGood ==
  ASSUME NEW n \in Node, NEW W, NEW s, NEW m \in Node, Good(n, s, W)
  PROVE  /\ Good(n, HandlePingFailed(n, s, m), W)
         /\ HandlePingFailed(n, s, m).physicalNodes =
              IF m = s.monitored THEN s.physicalNodes \ {m} ELSE s.physicalNodes
BY LoseMonitoredGood DEF HandlePingFailed, Good

LEMMA BootGood ==
  ASSUME NEW n \in Node
  PROVE  Good(n, Boot(n), {})
<1> DEFINE u == RingAdd(Blank, {n})
<1>1. /\ u \in State /\ u.physicalNodes = {n} /\ u.monitored = None
      /\ u.hasChanged /\ u.timer = NoWait
  <2>1. NoWait \in PingWaits
    BY DEF PingWaits
  <2>. QED
    BY <2>1 DEF RingAdd, Blank, State, NoList
<1>2. NextPhysicalNode({n}, n) = n
  BY NextIsMember
<1> HIDE DEF u
<1>3. Good(n, Announce(u), {})
  BY <1>1, <1>2, AnnounceGood DEF Good, Nearly, Timed, NotMute, Told, Successor
<1> QED
  BY <1>3 DEF Boot, u

\* The expired waits are off their timers; the process is good but for them.
LEMMA ExpireGood ==
  ASSUME NEW n \in Node, NEW s, Good(n, s, {}),
         NEW X \in SUBSET (Armed(s) \cup {NoWait})
  PROVE  /\ X \subseteq Waits
         /\ Good(n, Expire(s, X), X)
         /\ Expire(s, X).physicalNodes = s.physicalNodes
         /\ Expire(s, X).monitored = s.monitored
<1> DEFINE t == Expire(s, X)
<1>1. s \in State
  BY DEF Good, Nearly
<1>2. NoWait \in PingWaits
  BY DEF PingWaits
<1>3. X \subseteq Waits
  BY <1>1, <1>2 DEF Armed, Waits, AnnounceWaits, State
<1>4. t \in State
  BY <1>1, <1>2 DEF Expire, State
<1>5. /\ t.physicalNodes = s.physicalNodes /\ t.monitored = s.monitored
      /\ t.hasChanged = s.hasChanged /\ t.told = s.told
      /\ t.timer = IF s.timer \in X THEN NoWait ELSE s.timer
      /\ t.announceTimer =
           (s.announceTimer /\ Wait("announceTimer", None) \notin X)
      /\ t.nextAnnounceTimer =
           (s.nextAnnounceTimer /\ Wait("nextAnnounceTimer", None) \notin X)
  BY <1>1 DEF Expire, State
<1> HIDE DEF t
<1>6. NotMute(t, X)
  BY <1>5 DEF Good, NotMute, AnnounceWaits
<1>7. s.timer # NoWait => PingWait(s.timer)
  BY <1>1 DEF State, PingWaits, PingWait, Wait
<1>8. Timed(t, X)
  BY <1>5, <1>7 DEF Good, Timed
<1>9. Good(n, t, X)
  BY <1>4, <1>5, <1>6, <1>8 DEF Good, Nearly, Told
<1> QED
  BY <1>3, <1>5, <1>9 DEF t

\* The handler of the expired wait w restores what w stood for; V may be any
\* waits that hold the others.  It drops at most the node it waited for, and
\* only if it is still the monitored one.
LEMMA DispatchGood ==
  ASSUME NEW n \in Node, NEW w \in Waits, NEW W, NEW s, Good(n, s, W),
         NEW V, W \ {w} \subseteq V
  PROVE  /\ Good(n, Dispatch(n, s, w), V)
         /\ \/ Dispatch(n, s, w).physicalNodes = s.physicalNodes
            \/ /\ PingWait(w) /\ w.node = s.monitored
               /\ Dispatch(n, s, w).physicalNodes = s.physicalNodes \ {w.node}
<1>1. s \in State
  BY DEF Good, Nearly
<1>2. CASE w = NoWait
  <2>1. ~PingWait(w) /\ w \notin AnnounceWaits
    BY <1>2 DEF PingWait, AnnounceWaits, NoWait, Wait
  <2>2. Timed(s, V) /\ NotMute(s, V)
    BY <2>1 DEF Good, Timed, NotMute
  <2>3. Dispatch(n, s, w) = s
    BY <1>2 DEF Dispatch, NoWait, Wait
  <2>. QED
    BY <2>2, <2>3 DEF Good, Nearly
<1>3. CASE w \in AnnounceWaits
  <2>1. Dispatch(n, s, w) = Announce(s)
    BY <1>3 DEF Dispatch, AnnounceWaits, NoWait, Wait
  <2>2. ~PingWait(w)
    BY <1>3 DEF PingWait, AnnounceWaits, Wait
  <2>3. Timed(s, V)
    BY <2>2 DEF Good, Timed
  <2>. QED
    BY <1>1, <2>1, <2>3, AnnounceGood
    DEF Good, Nearly, Timed, NotMute, Told
<1>4. ASSUME PingWait(w)
      PROVE  w \notin AnnounceWaits /\ w # NoWait /\ w.node \in Node /\ NotMute(s, V)
  <2>1. w \notin AnnounceWaits /\ w # NoWait /\ w.node \in Node
    BY <1>4 DEF PingWait, AnnounceWaits, NoWait, Waits, PingWaits, Wait
  <2>. QED
    BY <2>1 DEF Good, NotMute
<1>5. CASE PingWait(w) /\ w.node # s.monitored
  <2>1. Dispatch(n, s, w) = s
    BY <1>5 DEF Dispatch, PingWait, HandleTimeout, HandleSendNextPing
  <2>2. Timed(s, V)
    BY <1>5 DEF Good, Timed
  <2>. QED
    BY <1>4, <1>5, <2>1, <2>2 DEF Good, Nearly
<1>6. CASE PingWait(w) /\ w.node = s.monitored
  <2>1. CASE w.handler = "handleTimeout"
    <3>1. Dispatch(n, s, w) = LoseMonitored(n, s, w.node)
      BY <1>4, <1>6, <2>1 DEF Dispatch, HandleTimeout
    <3>. QED
      BY <1>4, <1>6, <3>1, LoseMonitoredGood
  <2>2. CASE w.handler = "handleSendNextPing"
    <3> DEFINE t == HandleSendNextPing(s, w.node)
    <3>1. Dispatch(n, s, w) = t
      BY <1>4, <1>6, <2>2 DEF Dispatch
    <3>2. /\ Nearly(n, t, V) /\ t.physicalNodes = s.physicalNodes
          /\ t.monitored = w.node /\ Timed(t, V) /\ NotMute(t, V)
      BY <1>1, <1>4, <1>6, HandleSendNextPingGood DEF Good, Nearly
    <3>3. Good(n, t, V)
      BY <1>6, <3>2 DEF Good
    <3>. QED
      BY <3>1, <3>2, <3>3
  <2>. QED
    BY <1>6, <2>1, <2>2 DEF PingWait
<1>7. w = NoWait \/ w \in AnnounceWaits \/ PingWait(w)
  BY DEF Waits, PingWaits, PingWait, Wait
<1> QED
  BY <1>2, <1>3, <1>5, <1>6, <1>7

-----------------------------------------------------------------------------
(* The call behind a timeout                                               *)

\* s waits for a Pong only of the nodes in T or of one that it sends a Ping.
Awaited(s, T) ==
  s.timer.handler = "handleTimeout" =>
    s.timer.node \in T \cup {p.to : p \in {q \in s.sent : q.type = "Ping"}}

LEMMA HandleSendNextPingAwaited ==
  ASSUME NEW s, s \in State, NEW m \in Node, s.monitored = m, NEW T
  PROVE  Awaited(HandleSendNextPing(s, m), T)
<1> DEFINE t == HandleSendNextPing(s, m)
           p == PingMsg(m, IF s.hasChanged THEN s.physicalNodes ELSE {})
<1>1. t.timer = Wait("handleTimeout", m) /\ t.sent = s.sent \cup {p}
  BY DEF HandleSendNextPing, State
<1>2. p.type = "Ping" /\ p.to = m
  BY DEF PingMsg
<1>3. t.timer.node = m
  BY <1>1 DEF Wait
<1> HIDE DEF t, p
<1> QED
  BY <1>1, <1>2, <1>3 DEF Awaited, t

LEMMA DoMonitoringAwaited ==
  ASSUME NEW n \in Node, NEW W, NEW s, Nearly(n, s, W), NEW T,
         s.monitored = None \/ Awaited(s, T)
  PROVE  Awaited(DoMonitoring(n, s), T)
<1> DEFINE next == NextPhysicalNode(s.physicalNodes, n)
           t    == DoMonitoring(n, s)
<1>1. /\ s \in State /\ next \in Node /\ next # None
  BY NextIsMember, NoneAssumption DEF Nearly, State
<1>2. CASE next = n
  <2>1. t.timer = NoWait
    BY <1>1, <1>2 DEF DoMonitoring, Announce, StopMonitoring, State
  <2>. QED
    BY <2>1 DEF Awaited, NoWait, Wait
<1>3. CASE next # n /\ next = s.monitored
  BY <1>1, <1>3 DEF DoMonitoring, StartMonitoring
<1>4. CASE next # n /\ next # s.monitored
  <2> DEFINE u == [s EXCEPT !.monitored = next]
  <2>1. u \in State /\ u.monitored = next
    BY <1>1 DEF State
  <2>2. t = HandleSendNextPing(u, next)
    BY <1>4 DEF DoMonitoring, StartMonitoring
  <2> HIDE DEF u, next, t
  <2>3. Awaited(t, T)
    BY <1>1, <2>1, <2>2, HandleSendNextPingAwaited
  <2>. QED
    BY <2>3 DEF t
<1> QED
  BY <1>2, <1>3, <1>4

LEMMA LoseMonitoredAwaited ==
  ASSUME NEW n \in Node, NEW W, NEW s, NEW m \in Node,
         Good(n, s, W), m = s.monitored, NEW T
  PROVE  Awaited(LoseMonitored(n, s, m), T)
<1> DEFINE u == RingRemove([s EXCEPT !.monitored = None], m)
<1>1. s \in State /\ m \in s.physicalNodes /\ m # n /\ n \in s.physicalNodes
  BY SuccessorType, NoneAssumption DEF Good, Nearly, State
<1>2. u.monitored = None /\ Nearly(n, u, W)
  BY <1>1 DEF RingRemove, State, NoList, Nearly
<1>3. LoseMonitored(n, s, m) = DoMonitoring(n, u)
  BY DEF LoseMonitored, NodeIsDown
<1> HIDE DEF u
<1> QED
  BY <1>2, <1>3, DoMonitoringAwaited

LEMMA ReceivedAnnounceAwaited ==
  ASSUME NEW n \in Node, NEW W, NEW s, NEW m \in Node,
         Good(n, s, W), NEW T, Awaited(s, T)
  PROVE  Awaited(ReceivedAnnounce(n, s, m), T)
<1> SUFFICES ASSUME ~Ignored(n, m)
             PROVE  Awaited(ReceivedAnnounce(n, s, m), T)
  BY DEF ReceivedAnnounce
<1> DEFINE u == RingAdd(s, {m})
           t == DoMonitoring(n, u)
           r == [t EXCEPT !.sent = @ \cup {NodeListMsg(m, t.physicalNodes)}]
<1>1. Nearly(n, u, W) /\ Awaited(u, T)
  <2>1. Nearly(n, u, W) /\ u.timer = s.timer /\ u.sent = s.sent
    BY RingAddNearly DEF Good
  <2> HIDE DEF u
  <2>. QED
    BY <2>1 DEF Awaited
<1> HIDE DEF u
<1>2. t \in State /\ Awaited(t, T)
  BY <1>1, DoMonitoringGood, DoMonitoringAwaited DEF Nearly
<1> HIDE DEF t
<1>3. Awaited(r, T)
  BY <1>2 DEF Awaited, State
<1> QED
  BY <1>2, <1>3 DEF ReceivedAnnounce, t, u

LEMMA ReceivedNodeListAwaited ==
  ASSUME NEW n \in Node, NEW W, NEW s, NEW list \in SUBSET Node,
         Good(n, s, W), NEW T, Awaited(s, T)
  PROVE  Awaited(ReceivedNodeList(n, s, list), T)
<1> DEFINE v == [s EXCEPT !.announceTimer = FALSE]
           u == RingAdd(v, list)
           t == DoMonitoring(n, u)
<1>1. Nearly(n, v, W) /\ Awaited(v, T)
  BY DEF Good, Nearly, Timed, Told, Awaited, State
<1> HIDE DEF v
<1>2. Nearly(n, u, W) /\ Awaited(u, T)
  BY <1>1, RingAddNearly DEF Awaited
<1> HIDE DEF u
<1>3. t \in State /\ Awaited(t, T)
  BY <1>2, DoMonitoringGood, DoMonitoringAwaited DEF Nearly
<1> HIDE DEF t
<1>4. Awaited([t EXCEPT !.nextAnnounceTimer = TRUE], T)
  BY <1>3 DEF Awaited, State
<1> QED
  BY <1>4 DEF ReceivedNodeList, t, u, v

\* After the Pong of m, nobody waits for a Pong of m.
LEMMA HandlePongAwaited ==
  ASSUME NEW n \in Node, NEW W, NEW s, NEW m \in Node,
         Good(n, s, W), NEW T, Awaited(s, T),
         s.timer # NoWait => s.timer.node = s.monitored
  PROVE  Awaited(HandlePong(s, m), T \ {m})
<1>1. s \in State
  BY DEF Good, Nearly
<1>2. CASE m = s.monitored
  <2>1. HandlePong(s, m).timer = Wait("handleSendNextPing", m)
    BY <1>1, <1>2 DEF HandlePong, State
  <2>. QED
    BY <2>1 DEF Awaited, Wait
<1>3. CASE m # s.monitored
  BY <1>3 DEF HandlePong, Awaited, NoWait, Wait
<1> QED
  BY <1>2, <1>3

\* Nor after its ping failed.
LEMMA HandlePingFailedAwaited ==
  ASSUME NEW n \in Node, NEW W, NEW s, NEW m \in Node,
         Good(n, s, W), NEW T, Awaited(s, T),
         s.timer # NoWait => s.timer.node = s.monitored
  PROVE  Awaited(HandlePingFailed(n, s, m), T \ {m})
<1>1. CASE m = s.monitored
  BY <1>1, LoseMonitoredAwaited DEF HandlePingFailed
<1>2. CASE m # s.monitored
  BY <1>2 DEF HandlePingFailed, Awaited, NoWait, Wait
<1> QED
  BY <1>1, <1>2

LEMMA ExpireAwaited ==
  ASSUME NEW n \in Node, NEW s, Good(n, s, {}), NEW X, NEW T, Awaited(s, T)
  PROVE  /\ Awaited(Expire(s, X), T)
         /\ Expire(s, X).timer # NoWait =>
              Expire(s, X).timer.node = Expire(s, X).monitored
<1>1. s \in State /\ (s.timer # NoWait => s.timer.node = s.monitored)
  BY DEF Good, Nearly, Timed
<1>2. /\ Expire(s, X).timer \in {s.timer, NoWait}
      /\ Expire(s, X).sent = s.sent /\ Expire(s, X).monitored = s.monitored
  BY <1>1 DEF Expire, State
<1> QED
  BY <1>1, <1>2 DEF Awaited, NoWait, Wait

LEMMA DispatchAwaited ==
  ASSUME NEW n \in Node, NEW w \in Waits, NEW W, NEW s, Good(n, s, W), NEW T,
         Awaited(s, T)
  PROVE  Awaited(Dispatch(n, s, w), T)
<1>1. s \in State
  BY DEF Good, Nearly
<1>2. CASE w = NoWait
  BY <1>2 DEF Dispatch, NoWait, Wait
<1>3. CASE w \in AnnounceWaits
  <2>1. Dispatch(n, s, w) = Announce(s)
    BY <1>3 DEF Dispatch, AnnounceWaits, NoWait, Wait
  <2>. QED
    BY <1>1, <2>1 DEF Announce, Awaited, State
<1>4. CASE PingWait(w)
  <2>1. w # NoWait /\ w.node \in Node
    BY <1>4 DEF PingWait, AnnounceWaits, NoWait, Waits, PingWaits, Wait
  <2>2. CASE w.node # s.monitored
    BY <1>4, <2>2 DEF Dispatch, PingWait, HandleTimeout, HandleSendNextPing
  <2>3. CASE w.node = s.monitored /\ w.handler = "handleTimeout"
    <3>1. Dispatch(n, s, w) = LoseMonitored(n, s, w.node)
      BY <2>1, <2>3 DEF Dispatch, HandleTimeout
    <3>. QED
      BY <2>1, <2>3, <3>1, LoseMonitoredAwaited
  <2>4. CASE w.node = s.monitored /\ w.handler = "handleSendNextPing"
    <3>1. Dispatch(n, s, w) = HandleSendNextPing(s, w.node)
      BY <2>1, <2>4 DEF Dispatch
    <3>. QED
      BY <1>1, <2>1, <2>4, <3>1, HandleSendNextPingAwaited
  <2>. QED
    BY <1>4, <2>2, <2>3, <2>4 DEF PingWait
<1>5. w = NoWait \/ w \in AnnounceWaits \/ PingWait(w)
  BY DEF Waits, PingWaits, PingWait, Wait
<1> QED
  BY <1>2, <1>3, <1>4, <1>5

-----------------------------------------------------------------------------
(* The names that a process may have heard of                              *)

\* s knows and tells only of nodes in K.
Within(s, K) ==
  /\ s.physicalNodes \subseteq K
  /\ \A p \in s.sent \ {AnnounceMsg} : p.to \in K /\ p.list \subseteq K

LEMMA RingAddWithin ==
  ASSUME NEW s \in State, NEW K, Within(s, K), NEW S, S \subseteq K
  PROVE  Within(RingAdd(s, S), K)
BY DEF RingAdd, Within, State

LEMMA HandleSendNextPingWithin ==
  ASSUME NEW s \in State, NEW K, Within(s, K), NEW m, m \in K
  PROVE  Within(HandleSendNextPing(s, m), K)
<1> DEFINE t == HandleSendNextPing(s, m)
           p == PingMsg(m, IF s.hasChanged THEN s.physicalNodes ELSE {})
<1>1. p.to \in K /\ p.list \subseteq K
  BY DEF PingMsg, Within
<1> HIDE DEF p
<1>2. t.physicalNodes = s.physicalNodes /\ t.sent \subseteq s.sent \cup {p}
  BY DEF HandleSendNextPing, State, p
<1> QED
  BY <1>1, <1>2 DEF Within

LEMMA AnnounceWithin ==
  ASSUME NEW s \in State, NEW K, Within(s, K)
  PROVE  Within(Announce(s), K)
<1>1. /\ Announce(s).physicalNodes = s.physicalNodes
      /\ Announce(s).sent = s.sent \cup {AnnounceMsg}
  BY DEF Announce, State
<1> QED
  BY <1>1 DEF Within

LEMMA DoMonitoringWithin ==
  ASSUME NEW n \in Node, NEW W, NEW s, Nearly(n, s, W), NEW K, Within(s, K)
  PROVE  Within(DoMonitoring(n, s), K)
<1> DEFINE next == NextPhysicalNode(s.physicalNodes, n)
           t    == DoMonitoring(n, s)
<1>1. s \in State /\ next \in Node /\ next \in K
  BY NextIsMember DEF Nearly, State, Within
<1>2. CASE next = n
  <2> DEFINE u == [StopMonitoring(s) EXCEPT !.nextAnnounceTimer = FALSE]
  <2>1. t = Announce(u)
    BY <1>2 DEF DoMonitoring
  <2>2. u \in State /\ u.physicalNodes = s.physicalNodes /\ u.sent = s.sent
    <3>1. NoWait \in PingWaits
      BY DEF PingWaits
    <3>. QED
      BY <1>1, <3>1 DEF StopMonitoring, State
  <2> HIDE DEF u
  <2>3. Within(u, K)
    BY <2>2 DEF Within
  <2>. QED
    BY <2>1, <2>2, <2>3, AnnounceWithin
<1>3. CASE next # n /\ next = s.monitored
  BY <1>3 DEF DoMonitoring, StartMonitoring
<1>4. CASE next # n /\ next # s.monitored
  <2> DEFINE u == [s EXCEPT !.monitored = next]
  <2>1. t = HandleSendNextPing(u, next)
    BY <1>4 DEF DoMonitoring, StartMonitoring
  <2>2. u \in State /\ u.physicalNodes = s.physicalNodes /\ u.sent = s.sent
    BY <1>1 DEF State
  <2> HIDE DEF u, next, t
  <2>3. Within(u, K)
    BY <2>2 DEF Within
  <2>4. Within(t, K)
    BY <1>1, <2>1, <2>2, <2>3, HandleSendNextPingWithin
  <2>. QED
    BY <2>4 DEF t
<1> QED
  BY <1>2, <1>3, <1>4

LEMMA LoseMonitoredWithin ==
  ASSUME NEW n \in Node, NEW W, NEW s, NEW m \in Node,
         Good(n, s, W), m = s.monitored, NEW K, Within(s, K)
  PROVE  Within(LoseMonitored(n, s, m), K)
<1> DEFINE u == RingRemove([s EXCEPT !.monitored = None], m)
<1>1. s \in State /\ m \in s.physicalNodes /\ m # n /\ n \in s.physicalNodes
  BY SuccessorType, NoneAssumption DEF Good, Nearly, State
<1>2. Nearly(n, u, W) /\ Within(u, K)
  BY <1>1 DEF RingRemove, State, NoList, Nearly, Within
<1>3. LoseMonitored(n, s, m) = DoMonitoring(n, u)
  BY DEF LoseMonitored, NodeIsDown
<1> HIDE DEF u
<1> QED
  BY <1>2, <1>3, DoMonitoringWithin

LEMMA BootWithin ==
  ASSUME NEW n \in Node, NEW K, n \in K
  PROVE  Within(Boot(n), K)
<1>1. NoWait \in PingWaits
  BY DEF PingWaits
<1>2. Blank \in State /\ Within(Blank, K)
  BY <1>1 DEF Blank, State, NoList, Within
<1>3. RingAdd(Blank, {n}) \in State
  BY <1>1 DEF RingAdd, Blank, State, NoList
<1>4. Within(RingAdd(Blank, {n}), K)
  BY <1>2, RingAddWithin
<1> QED
  BY <1>3, <1>4, AnnounceWithin DEF Boot

LEMMA ReceivedAnnounceWithin ==
  ASSUME NEW n \in Node, NEW W, NEW s, NEW m \in Node, Good(n, s, W),
         NEW K, Within(s, K), m \in K
  PROVE  Within(ReceivedAnnounce(n, s, m), K)
<1> SUFFICES ASSUME ~Ignored(n, m)
             PROVE  Within(ReceivedAnnounce(n, s, m), K)
  BY DEF ReceivedAnnounce
<1> DEFINE u == RingAdd(s, {m})
           t == DoMonitoring(n, u)
           p == NodeListMsg(m, t.physicalNodes)
           r == [t EXCEPT !.sent = @ \cup {p}]
<1>1. Nearly(n, u, W) /\ Within(u, K)
  BY RingAddNearly, RingAddWithin DEF Good, Nearly
<1> HIDE DEF u
<1>2. t \in State /\ Within(t, K)
  BY <1>1, DoMonitoringGood, DoMonitoringWithin DEF Nearly
<1> HIDE DEF t
<1>3. p.to \in K /\ p.list \subseteq K
  BY <1>2 DEF NodeListMsg, Within
<1> HIDE DEF p
<1>4. r.physicalNodes = t.physicalNodes /\ r.sent = t.sent \cup {p}
  BY <1>2 DEF State
<1>5. Within(r, K)
  BY <1>2, <1>3, <1>4 DEF Within
<1>6. ReceivedAnnounce(n, s, m) \in {t, r}
  BY DEF ReceivedAnnounce, t, u, p
<1> QED
  BY <1>2, <1>5, <1>6

LEMMA ReceivedNodeListWithin ==
  ASSUME NEW n \in Node, NEW W, NEW s, NEW list \in SUBSET Node,
         Good(n, s, W), NEW K, Within(s, K), list \subseteq K
  PROVE  Within(ReceivedNodeList(n, s, list), K)
<1> DEFINE v == [s EXCEPT !.announceTimer = FALSE]
           u == RingAdd(v, list)
           t == DoMonitoring(n, u)
<1>1. Nearly(n, v, W) /\ Within(v, K)
  BY DEF Good, Nearly, Timed, Told, Within, State
<1> HIDE DEF v
<1>2. Nearly(n, u, W) /\ Within(u, K)
  BY <1>1, RingAddNearly, RingAddWithin DEF Nearly
<1> HIDE DEF u
<1>3. t \in State /\ Within(t, K)
  BY <1>2, DoMonitoringGood, DoMonitoringWithin DEF Nearly
<1> HIDE DEF t
<1>4. Within([t EXCEPT !.nextAnnounceTimer = TRUE], K)
  BY <1>3 DEF Within, State
<1> QED
  BY <1>4 DEF ReceivedNodeList, t, u, v

LEMMA HandlePongWithin ==
  ASSUME NEW s \in State, NEW m, NEW K, Within(s, K)
  PROVE  Within(HandlePong(s, m), K)
BY DEF HandlePong, Within, State

LEMMA ExpireWithin ==
  ASSUME NEW s \in State, NEW X, NEW K, Within(s, K)
  PROVE  Within(Expire(s, X), K)
BY DEF Expire, Within, State

\* Nor does a wait tell of anybody else, and none but a timeout takes anybody off
\* the ring.
LEMMA DispatchWithin ==
  ASSUME NEW n \in Node, NEW w \in Waits, NEW W, NEW s, Good(n, s, W),
         NEW K, Within(s, K)
  PROVE  /\ Within(Dispatch(n, s, w), K)
         /\ w.handler # "handleTimeout" =>
              Dispatch(n, s, w).physicalNodes = s.physicalNodes
<1>1. s \in State
  BY DEF Good, Nearly
<1>2. CASE w = NoWait
  BY <1>2 DEF Dispatch, NoWait, Wait
<1>3. CASE w \in AnnounceWaits
  <2>1. Dispatch(n, s, w) = Announce(s)
    BY <1>3 DEF Dispatch, AnnounceWaits, NoWait, Wait
  <2>. QED
    BY <1>1, <2>1, AnnounceWithin, AnnounceGood
<1>4. CASE w.handler = "handleSendNextPing"
  <2>1. Dispatch(n, s, w) = HandleSendNextPing(s, w.node) /\ w.node \in Node
    BY <1>4 DEF Dispatch, NoWait, Wait, Waits, PingWaits, AnnounceWaits
  <2>2. CASE w.node # s.monitored
    BY <2>1, <2>2 DEF HandleSendNextPing
  <2>3. CASE w.node = s.monitored
    <3>1. w.node \in K
      BY <2>1, <2>3, <1>1, SuccessorType, NoneAssumption
      DEF Good, Nearly, State, Within
    <3>2. HandleSendNextPing(s, w.node).physicalNodes = s.physicalNodes
      BY <1>1 DEF HandleSendNextPing, State
    <3>. QED
      BY <1>1, <2>1, <3>1, <3>2, HandleSendNextPingWithin
  <2>. QED
    BY <2>2, <2>3
<1>5. CASE w.handler = "handleTimeout"
  <2>1. Dispatch(n, s, w) = HandleTimeout(n, s, w.node) /\ w.node \in Node
    BY <1>5 DEF Dispatch, NoWait, Wait, Waits, PingWaits, AnnounceWaits
  <2>2. Within(Dispatch(n, s, w), K)
    BY <2>1, LoseMonitoredWithin DEF HandleTimeout
  <2>. QED
    BY <1>5, <2>2
<1>6. \/ w = NoWait \/ w \in AnnounceWaits
      \/ w.handler \in {"handleSendNextPing", "handleTimeout"}
  BY DEF Waits, PingWaits, Wait
<1> QED
  BY <1>2, <1>3, <1>4, <1>5, <1>6

-----------------------------------------------------------------------------
(* Who sends a node list                                                   *)

\* Whatever lists n has sent, the ring in each says that n is the one to send it.
Chosen(n, s) ==
  \A p \in s.sent : p.type = "NodeList" => n = NextNode(p.list, p.to)

LEMMA AnnounceChosen ==
  ASSUME NEW n, NEW s \in State, Chosen(n, s)
  PROVE  Chosen(n, Announce(s))
<1>1. Announce(s).sent = s.sent \cup {AnnounceMsg}
  BY DEF Announce, State
<1>2. AnnounceMsg.type # "NodeList"
  BY DEF AnnounceMsg
<1> QED
  BY <1>1, <1>2 DEF Chosen

LEMMA HandleSendNextPingChosen ==
  ASSUME NEW n, NEW s \in State, NEW m, Chosen(n, s)
  PROVE  Chosen(n, HandleSendNextPing(s, m))
<1> DEFINE p == PingMsg(m, IF s.hasChanged THEN s.physicalNodes ELSE {})
<1>1. p.type # "NodeList"
  BY DEF PingMsg
<1> HIDE DEF p
<1>2. HandleSendNextPing(s, m).sent \subseteq s.sent \cup {p}
  BY DEF HandleSendNextPing, State, p
<1> QED
  BY <1>1, <1>2 DEF Chosen

LEMMA DoMonitoringChosen ==
  ASSUME NEW n \in Node, NEW W, NEW s, Nearly(n, s, W), Chosen(n, s)
  PROVE  Chosen(n, DoMonitoring(n, s))
<1> DEFINE next == NextPhysicalNode(s.physicalNodes, n)
<1>1. s \in State /\ next \in Node
  BY NextIsMember DEF Nearly, State
<1>2. CASE next = n
  <2> DEFINE u == [StopMonitoring(s) EXCEPT !.nextAnnounceTimer = FALSE]
  <2>1. DoMonitoring(n, s) = Announce(u)
    BY <1>2 DEF DoMonitoring
  <2>2. u \in State /\ u.sent = s.sent
    <3>1. NoWait \in PingWaits
      BY DEF PingWaits
    <3>. QED
      BY <1>1, <3>1 DEF StopMonitoring, State
  <2> HIDE DEF u
  <2>3. Chosen(n, u)
    BY <2>2 DEF Chosen
  <2>. QED
    BY <2>1, <2>2, <2>3, AnnounceChosen
<1>3. CASE next # n /\ next = s.monitored
  BY <1>3 DEF DoMonitoring, StartMonitoring
<1>4. CASE next # n /\ next # s.monitored
  <2> DEFINE u == [s EXCEPT !.monitored = next]
  <2>1. DoMonitoring(n, s) = HandleSendNextPing(u, next)
    BY <1>4 DEF DoMonitoring, StartMonitoring
  <2>2. u \in State /\ u.sent = s.sent
    BY <1>1 DEF State
  <2> HIDE DEF u, next
  <2>3. Chosen(n, u)
    BY <2>2 DEF Chosen
  <2>. QED
    BY <2>1, <2>2, <2>3, HandleSendNextPingChosen
<1> QED
  BY <1>2, <1>3, <1>4

LEMMA LoseMonitoredChosen ==
  ASSUME NEW n \in Node, NEW W, NEW s, NEW m \in Node,
         Good(n, s, W), m = s.monitored, Chosen(n, s)
  PROVE  Chosen(n, LoseMonitored(n, s, m))
<1> DEFINE u == RingRemove([s EXCEPT !.monitored = None], m)
<1>1. s \in State /\ m \in s.physicalNodes /\ m # n /\ n \in s.physicalNodes
  BY SuccessorType, NoneAssumption DEF Good, Nearly, State
<1>2. Nearly(n, u, W) /\ Chosen(n, u)
  BY <1>1 DEF RingRemove, State, NoList, Nearly, Chosen
<1>3. LoseMonitored(n, s, m) = DoMonitoring(n, u)
  BY DEF LoseMonitored, NodeIsDown
<1> HIDE DEF u
<1> QED
  BY <1>2, <1>3, DoMonitoringChosen

LEMMA BootChosen ==
  ASSUME NEW n \in Node
  PROVE  Chosen(n, Boot(n))
<1>1. NoWait \in PingWaits
  BY DEF PingWaits
<1>2. RingAdd(Blank, {n}) \in State /\ RingAdd(Blank, {n}).sent = {}
  BY <1>1 DEF RingAdd, Blank, State, NoList
<1> QED
  BY <1>2, AnnounceChosen DEF Boot, Chosen

LEMMA RingAddChosen ==
  ASSUME NEW n, NEW s \in State, NEW S \in SUBSET Node, Chosen(n, s)
  PROVE  RingAdd(s, S) \in State /\ Chosen(n, RingAdd(s, S))
BY DEF RingAdd, State, NoList, Chosen

LEMMA ReceivedAnnounceChosen ==
  ASSUME NEW n \in Node, NEW W, NEW s, NEW m \in Node, Good(n, s, W), Chosen(n, s)
  PROVE  Chosen(n, ReceivedAnnounce(n, s, m))
<1> SUFFICES ASSUME ~Ignored(n, m)
             PROVE  Chosen(n, ReceivedAnnounce(n, s, m))
  BY DEF ReceivedAnnounce
<1> DEFINE u == RingAdd(s, {m})
           t == DoMonitoring(n, u)
           p == NodeListMsg(m, t.physicalNodes)
           r == [t EXCEPT !.sent = @ \cup {p}]
<1>1. Nearly(n, u, W) /\ u \in State /\ Chosen(n, u)
  BY RingAddNearly, RingAddChosen DEF Good, Nearly
<1> HIDE DEF u
<1>2. t \in State /\ Chosen(n, t)
  BY <1>1, DoMonitoringGood, DoMonitoringChosen DEF Nearly
<1>3. \/ ReceivedAnnounce(n, s, m) = t
      \/ /\ ReceivedAnnounce(n, s, m) = r
         /\ n = NextNode(t.physicalNodes, m)
  BY DEF ReceivedAnnounce, u
<1> HIDE DEF t
<1>4. p.list = t.physicalNodes /\ p.to = m
  BY DEF NodeListMsg
<1> HIDE DEF p
<1>5. r.sent = t.sent \cup {p}
  BY <1>2 DEF State
<1> HIDE DEF r
<1> QED
  BY <1>2, <1>3, <1>4, <1>5 DEF Chosen

LEMMA ReceivedNodeListChosen ==
  ASSUME NEW n \in Node, NEW W, NEW s, NEW list \in SUBSET Node,
         Good(n, s, W), Chosen(n, s)
  PROVE  Chosen(n, ReceivedNodeList(n, s, list))
<1> DEFINE v == [s EXCEPT !.announceTimer = FALSE]
           u == RingAdd(v, list)
           t == DoMonitoring(n, u)
<1>1. Nearly(n, v, W) /\ v \in State /\ Chosen(n, v)
  BY DEF Good, Nearly, Timed, Told, Chosen, State
<1> HIDE DEF v
<1>2. Nearly(n, u, W) /\ u \in State /\ Chosen(n, u)
  BY <1>1, RingAddNearly, RingAddChosen
<1> HIDE DEF u
<1>3. t \in State /\ Chosen(n, t)
  BY <1>2, DoMonitoringGood, DoMonitoringChosen DEF Nearly
<1> HIDE DEF t
<1>4. Chosen(n, [t EXCEPT !.nextAnnounceTimer = TRUE])
  BY <1>3 DEF Chosen, State
<1> QED
  BY <1>4 DEF ReceivedNodeList, t, u, v

LEMMA HandlePongChosen ==
  ASSUME NEW n, NEW s \in State, NEW m, Chosen(n, s)
  PROVE  Chosen(n, HandlePong(s, m))
BY DEF HandlePong, Chosen, State

LEMMA HandlePingFailedChosen ==
  ASSUME NEW n \in Node, NEW W, NEW s, NEW m \in Node, Good(n, s, W), Chosen(n, s)
  PROVE  Chosen(n, HandlePingFailed(n, s, m))
BY LoseMonitoredChosen DEF HandlePingFailed

LEMMA ExpireChosen ==
  ASSUME NEW n, NEW s \in State, NEW X, Chosen(n, s)
  PROVE  Chosen(n, Expire(s, X))
BY DEF Expire, Chosen, State

LEMMA DispatchChosen ==
  ASSUME NEW n \in Node, NEW w \in Waits, NEW W, NEW s, Good(n, s, W), Chosen(n, s)
  PROVE  Chosen(n, Dispatch(n, s, w))
<1>1. s \in State
  BY DEF Good, Nearly
<1>2. \/ Dispatch(n, s, w) \in {s, HandleSendNextPing(s, w.node), Announce(s)}
      \/ Dispatch(n, s, w) = HandleTimeout(n, s, w.node) /\ w.node \in Node
  BY DEF Dispatch, NoWait, Wait, Waits, PingWaits, AnnounceWaits
<1>3. w.node \in Node => Chosen(n, HandleTimeout(n, s, w.node))
  BY LoseMonitoredChosen DEF HandleTimeout
<1> QED
  BY <1>1, <1>2, <1>3, HandleSendNextPingChosen, AnnounceChosen
=============================================================================
