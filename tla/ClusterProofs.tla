---------------------------- MODULE ClusterProofs ----------------------------
(***************************************************************************)
(* The safety invariants of Cluster, for every number of nodes, every      *)
(* placement of their points on the ring, and any number of calls and      *)
(* faults.  Each speaks of one process at a time: IInv says that every     *)
(* process that runs is Good, and an action is a handler of one process    *)
(* whose effect on it is a lemma of MembershipProofs.                      *)
(***************************************************************************)
EXTENDS Cluster, MembershipProofs

IInv ==
  /\ TypeOK
  /\ \A n \in up : Good(n, node[n], {})

\* What is left in node[n] once the process has handed over what it sends.
LEMMA SentGood ==
  ASSUME NEW n \in Node, NEW r, Good(n, r, {})
  PROVE  /\ Good(n, [r EXCEPT !.sent = {}], {})
         /\ [r EXCEPT !.sent = {}] \in State
         /\ [r EXCEPT !.sent = {}].physicalNodes = r.physicalNodes
<1> DEFINE q == [r EXCEPT !.sent = {}]
<1>1. r \in State
  BY DEF Good, Nearly
<1>2. q \in State
  BY <1>1 DEF State
<1> QED
  BY <1>1, <1>2 DEF Good, Nearly, Timed, NotMute, Told, State

LEMMA BlankState == Blank \in State
<1>1. NoWait \in PingWaits
  BY DEF PingWaits
<1> QED
  BY <1>1 DEF Blank, State, NoList

\* Whatever a handler left, the process is good when it polls again, what it
\* sends has its type, and nothing else of the cluster changes.
LEMMA ReturnGood ==
  ASSUME TypeOK, NEW n \in Node, NEW w \in Waits, NEW t, Good(n, t, {w}),
         NEW u \in SUBSET Datagram, NEW l \in SUBSET ListMsg,
         NEW c \in SUBSET Call, Return(n, w, t, u, l, c)
  PROVE  /\ node' \in [Node -> State]
         /\ Good(n, node'[n], {})
         /\ \A m \in Node \ {n} : node'[m] = node[m]
         /\ udp' \subseteq Datagram
         /\ lists' \subseteq ListMsg
         /\ calls' \subseteq Call
         /\ \/ node'[n].physicalNodes = t.physicalNodes
            \/ /\ PingWait(w) /\ w.node = t.monitored
               /\ node'[n].physicalNodes = t.physicalNodes \ {w.node}
<1> DEFINE r == Dispatch(n, t, w)
<1>1. /\ node'  = [node EXCEPT ![n] = [r EXCEPT !.sent = {}]]
      /\ udp'   = u \cup Heard(n, r)
      /\ lists' = l \cup NewLists(n, r)
      /\ Pings(r) # {} => HasRoom(n, c)
      /\ calls' = c \cup NewCalls(n, r, c)
  BY DEF Return
<1>2. /\ Good(n, r, {})
      /\ \/ r.physicalNodes = t.physicalNodes
         \/ /\ PingWait(w) /\ w.node = t.monitored
            /\ r.physicalNodes = t.physicalNodes \ {w.node}
  BY DispatchGood
<1> HIDE DEF r
<1>3. r.sent \subseteq Message
  BY <1>2 DEF Good, Nearly, State
<1>4. node[n] \in State /\ node \in [Node -> State]
  BY DEF TypeOK
<1>5. Heard(n, r) \subseteq Datagram
  BY DEF Heard, Datagram, TypeOK
<1>6. NewLists(n, r) \subseteq ListMsg
  BY <1>3 DEF NewLists, ListMsg, Message, AnnounceMsg
<1>7. NewCalls(n, r, c) \subseteq Call
  <2>1. CASE Pings(r) = {}
    BY <2>1 DEF NewCalls
  <2>2. CASE Pings(r) # {}
    <3>1. Least(FreeSlots(n, c)) \in Slot
      BY <1>1, <2>2, LeastOf, BoundsAssumption DEF HasRoom, FreeSlots, Slot
    <3>. QED
      BY <1>3, <3>1 DEF NewCalls, Call, Pings, Message, AnnounceMsg
  <2>. QED
    BY <2>1, <2>2
<1>8. /\ node' \in [Node -> State]
      /\ Good(n, node'[n], {})
      /\ node'[n].physicalNodes = r.physicalNodes
  BY <1>1, <1>2, <1>4, SentGood
<1>9. \A m \in Node \ {n} : node'[m] = node[m]
  BY <1>1, <1>4
<1> QED
  BY <1>1, <1>2, <1>5, <1>6, <1>7, <1>8, <1>9

\* A process that handles a message or a wait.
LEMMA ReturnInv ==
  ASSUME IInv, NEW n \in up, NEW w \in Waits, NEW t, Good(n, t, {w}),
         NEW u \in SUBSET Datagram, NEW l \in SUBSET ListMsg,
         NEW c \in SUBSET Call, Return(n, w, t, u, l, c),
         UNCHANGED <<up, faults>>
  PROVE  IInv'
<1>1. n \in Node /\ TypeOK
  BY DEF IInv, TypeOK
<1>2. /\ node' \in [Node -> State]
      /\ Good(n, node'[n], {})
      /\ \A m \in Node \ {n} : node'[m] = node[m]
      /\ udp' \subseteq Datagram /\ lists' \subseteq ListMsg
      /\ calls' \subseteq Call
  BY <1>1, ReturnGood
<1>3. TypeOK'
  BY <1>2 DEF IInv, TypeOK
<1>4. \A m \in up' : Good(m, node'[m], {})
  BY <1>1, <1>2 DEF IInv, TypeOK
<1> QED
  BY <1>3, <1>4 DEF IInv

\* What a step may drop from the ring of process n.
Drops(n) == DropsSuccessor(n, node[n], node'[n])

\* A message that drops nobody itself: only the wait may.
LEMMA ReturnDrops ==
  ASSUME IInv, NEW n \in up, NEW w \in Waits, NEW t, Good(n, t, {w}),
         NEW u \in SUBSET Datagram, NEW l \in SUBSET ListMsg,
         NEW c \in SUBSET Call, Return(n, w, t, u, l, c),
         node[n].physicalNodes \subseteq t.physicalNodes,
         PingWait(w) => w.node = node[n].monitored
  PROVE  Drops(n)
<1>1. n \in Node /\ TypeOK
  BY DEF IInv, TypeOK
<1>2. \/ node'[n].physicalNodes = t.physicalNodes
      \/ /\ PingWait(w) /\ w.node = t.monitored
         /\ node'[n].physicalNodes = t.physicalNodes \ {w.node}
  BY <1>1, ReturnGood
<1>3. CASE node'[n].physicalNodes = t.physicalNodes
  BY <1>3 DEF Drops, DropsSuccessor
<1>4. CASE /\ PingWait(w) /\ w.node = t.monitored
           /\ node'[n].physicalNodes = t.physicalNodes \ {w.node}
  <2> SUFFICES ASSUME NEW m \in node[n].physicalNodes \ node'[n].physicalNodes
               PROVE  /\ m = node[n].monitored
                      /\ m = NextPhysicalNode(node'[n].physicalNodes \cup {m}, n)
    BY DEF Drops, DropsSuccessor
  <2>1. m = w.node /\ node'[n].physicalNodes \cup {m} = t.physicalNodes
    BY <1>4
  <2>2. m # None
    BY <1>1, NoneAssumption DEF TypeOK, State
  <2>3. m = NextPhysicalNode(t.physicalNodes, n)
    BY <1>4, <2>1, <2>2 DEF Good, Successor
  <2>. QED
    BY <1>4, <2>1, <2>3
<1> QED
  BY <1>2, <1>3, <1>4

\* A process that starts the round with the wait w expired.
LEMMA RoundStarts ==
  ASSUME IInv, NEW n \in up, NEW w \in MayExpire(n) \cup {NoWait}
  PROVE  /\ n \in Node
         /\ w \in Waits
         /\ Good(n, Expire(node[n], {w}), {w})
         /\ Expire(node[n], {w}).physicalNodes = node[n].physicalNodes
         /\ Expire(node[n], {w}).monitored = node[n].monitored
         /\ PingWait(w) => w.node = node[n].monitored
<1>1. n \in Node /\ Good(n, node[n], {})
  BY DEF IInv, TypeOK
<1>2. w \in Armed(node[n]) \cup {NoWait}
  BY DEF MayExpire
<1> DEFINE X == {w}
<1>3. X \in SUBSET (Armed(node[n]) \cup {NoWait})
  BY <1>2
<1>4. PingWait(w) => w.node = node[n].monitored
  BY <1>1, <1>2 DEF Armed, PingWait, NoWait, Wait, Good, Timed
<1> HIDE DEF X
<1>5. /\ X \subseteq Waits
      /\ Good(n, Expire(node[n], X), X)
      /\ Expire(node[n], X).physicalNodes = node[n].physicalNodes
      /\ Expire(node[n], X).monitored = node[n].monitored
  BY <1>1, <1>3, ExpireGood
<1> QED
  BY <1>1, <1>4, <1>5 DEF X

LEMMA ReceiveAnnounceStep ==
  ASSUME IInv, NEW n \in Node, NEW d \in udp,
         NEW w \in MayExpire(n) \cup {NoWait}, ReceiveAnnounce(n, d, w)
  PROVE  IInv' /\ Drops(n)
<1> DEFINE s == Expire(node[n], {w})
           t == ReceivedAnnounce(n, s, d.from)
<1>1. /\ n \in up /\ Return(n, w, t, udp \ {d}, lists, calls)
      /\ UNCHANGED <<up, faults>>
  BY DEF ReceiveAnnounce
<1>2. /\ w \in Waits /\ Good(n, s, {w}) /\ s.physicalNodes = node[n].physicalNodes
      /\ PingWait(w) => w.node = node[n].monitored
  BY <1>1, RoundStarts
<1>3. d.from \in Node
  BY DEF IInv, TypeOK, Datagram
<1>4. Good(n, t, {w}) /\ node[n].physicalNodes \subseteq t.physicalNodes
  BY <1>2, <1>3, ReceivedAnnounceGood
<1>5. udp \ {d} \in SUBSET Datagram /\ lists \in SUBSET ListMsg
      /\ calls \in SUBSET Call
  BY DEF IInv, TypeOK
<1> HIDE DEF s, t
<1> QED
  BY <1>1, <1>2, <1>4, <1>5, ReturnInv, ReturnDrops

LEMMA ReceiveNodeListStep ==
  ASSUME IInv, NEW n \in Node, NEW m \in lists,
         NEW w \in MayExpire(n) \cup {NoWait}, ReceiveNodeList(n, m, w)
  PROVE  IInv' /\ Drops(n)
<1> DEFINE s == Expire(node[n], {w})
           t == ReceivedNodeList(n, s, m.list)
<1>1. /\ n \in up /\ Return(n, w, t, udp, lists \ {m}, calls)
      /\ UNCHANGED <<up, faults>>
  BY DEF ReceiveNodeList
<1>2. /\ w \in Waits /\ Good(n, s, {w}) /\ s.physicalNodes = node[n].physicalNodes
      /\ PingWait(w) => w.node = node[n].monitored
  BY <1>1, RoundStarts
<1>3. m.list \in SUBSET Node
  BY DEF IInv, TypeOK, ListMsg
<1>4. Good(n, t, {w}) /\ node[n].physicalNodes \subseteq t.physicalNodes
  BY <1>2, <1>3, ReceivedNodeListGood
<1>5. udp \in SUBSET Datagram /\ lists \ {m} \in SUBSET ListMsg
      /\ calls \in SUBSET Call
  BY DEF IInv, TypeOK
<1> HIDE DEF s, t
<1> QED
  BY <1>1, <1>2, <1>4, <1>5, ReturnInv, ReturnDrops

LEMMA ReceivePingStep ==
  ASSUME IInv, NEW n \in Node, NEW c \in calls,
         NEW w \in MayExpire(n) \cup {NoWait}, ReceivePing(n, c, w)
  PROVE  IInv' /\ Drops(n)
<1> DEFINE s == Expire(node[n], {w})
           t == Pinged(n, s, c)
           k == (calls \ {c}) \cup Answered(c, t)
<1>1. /\ n \in up /\ Return(n, w, t, udp, lists, k)
      /\ UNCHANGED <<up, faults>>
  BY DEF ReceivePing
<1>2. /\ w \in Waits /\ Good(n, s, {w}) /\ s.physicalNodes = node[n].physicalNodes
      /\ PingWait(w) => w.node = node[n].monitored
  BY <1>1, RoundStarts
<1>3. c \in Call
  BY DEF IInv, TypeOK
<1>4. Good(n, t, {w}) /\ node[n].physicalNodes \subseteq t.physicalNodes
  <2> HIDE DEF s
  <2>1. c.list \in SUBSET Node
    BY <1>3 DEF Call
  <2>. QED
    BY <1>2, <2>1, ReceivedNodeListGood DEF Pinged
<1> HIDE DEF s, t
<1>5. k \in SUBSET Call
  <2>1. t.physicalNodes \in SUBSET Node
    BY <1>4 DEF Good, Nearly, State
  <2>2. Answered(c, t) \subseteq Call
    BY <1>3, <2>1 DEF Answered, Call
  <2>. QED
    BY <2>2 DEF IInv, TypeOK
<1>6. udp \in SUBSET Datagram /\ lists \in SUBSET ListMsg
  BY DEF IInv, TypeOK
<1> HIDE DEF k
<1> QED
  BY <1>1, <1>2, <1>4, <1>5, <1>6, ReturnInv, ReturnDrops

LEMMA ReceivePongStep ==
  ASSUME IInv, NEW n \in Node, NEW c \in calls,
         NEW w \in MayExpire(n) \cup {NoWait}, ReceivePong(n, c, w)
  PROVE  IInv' /\ Drops(n)
<1> DEFINE s == Expire(node[n], {w})
           t == HandlePong(s, c.to)
<1>1. /\ n \in up /\ Return(n, w, t, udp, lists, calls \ {c})
      /\ UNCHANGED <<up, faults>>
  BY DEF ReceivePong
<1>2. /\ w \in Waits /\ Good(n, s, {w}) /\ s.physicalNodes = node[n].physicalNodes
      /\ PingWait(w) => w.node = node[n].monitored
  BY <1>1, RoundStarts
<1>3. c.to \in Node
  BY DEF IInv, TypeOK, Call
<1>4. Good(n, t, {w}) /\ node[n].physicalNodes \subseteq t.physicalNodes
  BY <1>2, <1>3, HandlePongGood
<1>5. udp \in SUBSET Datagram /\ lists \in SUBSET ListMsg
      /\ calls \ {c} \in SUBSET Call
  BY DEF IInv, TypeOK
<1> HIDE DEF s, t
<1> QED
  BY <1>1, <1>2, <1>4, <1>5, ReturnInv, ReturnDrops

LEMMA TimerExpiresStep ==
  ASSUME IInv, NEW n \in Node, NEW w \in MayExpire(n) \cup {NoWait},
         TimerExpires(n, w)
  PROVE  IInv' /\ Drops(n)
<1> DEFINE s == Expire(node[n], {w})
<1>1. /\ n \in up /\ Return(n, w, s, udp, lists, calls)
      /\ UNCHANGED <<up, faults>>
  BY DEF TimerExpires
<1>2. /\ w \in Waits /\ Good(n, s, {w}) /\ s.physicalNodes = node[n].physicalNodes
      /\ PingWait(w) => w.node = node[n].monitored
  BY <1>1, RoundStarts
<1>3. udp \in SUBSET Datagram /\ lists \in SUBSET ListMsg
      /\ calls \in SUBSET Call
  BY DEF IInv, TypeOK
<1> HIDE DEF s
<1> QED
  BY <1>1, <1>2, <1>3, ReturnInv, ReturnDrops

\* Here the message itself may drop the monitored node.  The process then
\* monitors another one, so that a wait for the old one no longer counts.
LEMMA ReceiveFailureStep ==
  ASSUME IInv, NEW n \in Node, NEW c \in calls,
         NEW w \in MayExpire(n) \cup {NoWait}, ReceiveFailure(n, c, w)
  PROVE  IInv' /\ Drops(n)
<1> DEFINE s == Expire(node[n], {w})
           t == HandlePingFailed(n, s, c.to)
<1>1. /\ n \in up /\ Return(n, w, t, udp, lists, calls \ {c})
      /\ UNCHANGED <<up, faults>>
  BY DEF ReceiveFailure
<1>2. /\ w \in Waits /\ Good(n, s, {w}) /\ s.physicalNodes = node[n].physicalNodes
      /\ s.monitored = node[n].monitored
      /\ PingWait(w) => w.node = node[n].monitored
  BY <1>1, RoundStarts
<1>3. c.to \in Node
  BY DEF IInv, TypeOK, Call
<1>4. /\ Good(n, t, {w})
      /\ t.physicalNodes = IF c.to = s.monitored THEN s.physicalNodes \ {c.to}
                                                 ELSE s.physicalNodes
  <2> HIDE DEF s
  <2>. QED
    BY <1>2, <1>3, HandlePingFailedGood
<1>5. udp \in SUBSET Datagram /\ lists \in SUBSET ListMsg
      /\ calls \ {c} \in SUBSET Call
  BY DEF IInv, TypeOK
<1> HIDE DEF s, t
<1>6. IInv'
  BY <1>1, <1>2, <1>4, <1>5, ReturnInv
<1>7. Drops(n)
  <2>1. CASE c.to # s.monitored
    BY <1>1, <1>2, <1>4, <1>5, <2>1, ReturnDrops
  <2>2. CASE c.to = s.monitored
    <3>1. TypeOK /\ n \in t.physicalNodes /\ t \in State
      BY <1>4 DEF IInv, Good, Nearly
    <3>2. t.monitored \in t.physicalNodes \cup {None}
      BY <1>4, <3>1, SuccessorType DEF Good, State
    <3>3. PingWait(w) => w.node # t.monitored
      BY <1>2, <1>3, <1>4, <2>2, <3>2, NoneAssumption
    <3>4. node'[n].physicalNodes = s.physicalNodes \ {c.to}
      BY <1>1, <1>2, <1>4, <1>5, <2>2, <3>1, <3>3, ReturnGood
    <3>5. c.to = NextPhysicalNode(s.physicalNodes, n) /\ c.to \in s.physicalNodes
      BY <1>2, <1>3, <2>2, SuccessorType, NoneAssumption
      DEF Good, Nearly, State, Successor
    <3>6. node'[n].physicalNodes \cup {c.to} = s.physicalNodes
      BY <3>4, <3>5
    <3>. QED
      BY <1>2, <2>2, <3>4, <3>5, <3>6 DEF Drops, DropsSuccessor
  <2>. QED
    BY <2>1, <2>2
<1> QED
  BY <1>6, <1>7

-----------------------------------------------------------------------------
(* The actions that are not a round of a process                           *)

LEMMA StartStep ==
  ASSUME IInv, NEW n \in Node, Start(n)
  PROVE  IInv' /\ n \notin up
<1>1. /\ n \notin up /\ up' = up \cup {n} /\ faults' = faults
      /\ Return(n, NoWait, Boot(n), udp, lists, calls)
  BY DEF Start
<1>2. TypeOK /\ NoWait \in Waits /\ Good(n, Boot(n), {NoWait})
  BY BootGood, GoodForMore DEF IInv, Waits, PingWaits
<1>3. /\ node' \in [Node -> State]
      /\ Good(n, node'[n], {})
      /\ \A m \in Node \ {n} : node'[m] = node[m]
      /\ udp' \subseteq Datagram /\ lists' \subseteq ListMsg
      /\ calls' \subseteq Call
  <2>1. /\ udp \in SUBSET Datagram /\ lists \in SUBSET ListMsg
        /\ calls \in SUBSET Call
    BY <1>2 DEF TypeOK
  <2>. QED
    BY <1>1, <1>2, <2>1, ReturnGood
<1>4. TypeOK'
  BY <1>1, <1>2, <1>3 DEF TypeOK
<1>5. \A m \in up' : Good(m, node'[m], {})
  BY <1>1, <1>3 DEF IInv, TypeOK
<1> QED
  BY <1>1, <1>4, <1>5 DEF IInv

LEMMA CrashStep ==
  ASSUME IInv, NEW n \in Node, Crash(n)
  PROVE  /\ IInv' /\ n \notin up'
         /\ \A m \in up' : node'[m] = node[m]
<1>1. /\ node' = [node EXCEPT ![n] = Blank] /\ up' = up \ {n}
      /\ faults' = faults + 1 /\ faults < MaxFaults
  BY DEF Crash, Fault
<1>2. TypeOK'
  <2>1. node' \in [Node -> State] /\ up' \subseteq Node
    BY <1>1, BlankState DEF IInv, TypeOK
  <2>2. udp' \subseteq Datagram /\ lists' \subseteq ListMsg
    BY DEF Crash, IInv, TypeOK
  <2>3. calls' \subseteq Call
    BY DEF Crash, IInv, TypeOK, Call
  <2>4. faults' \in 0 .. MaxFaults
    BY <1>1, BoundsAssumption DEF IInv, TypeOK
  <2>. QED
    BY <2>1, <2>2, <2>3, <2>4 DEF TypeOK
<1>3. \A m \in up' : node'[m] = node[m]
  BY <1>1 DEF IInv, TypeOK
<1> QED
  BY <1>1, <1>2, <1>3 DEF IInv

LEMMA ChannelStep ==
  ASSUME IInv,
         \/ \E c \in calls : CallFails(c) \/ CallBreaks(c)
         \/ \E d \in udp   : DatagramLost(d)
         \/ \E m \in lists : NodeListLost(m)
  PROVE  IInv' /\ UNCHANGED <<up, node>>
<1>1. UNCHANGED <<up, node>>
  BY DEF CallFails, CallBreaks, DatagramLost, NodeListLost
<1>2. calls' \subseteq Call
  <2>1. ASSUME NEW c \in calls, CallFails(c) \/ CallBreaks(c)
        PROVE  calls' \subseteq Call
    <3>1. c \in Call
      BY DEF IInv, TypeOK
    <3>2. [c EXCEPT !.phase = "failed", !.list = {}] \in Call
      BY <3>1 DEF Call
    <3>. QED
      BY <2>1, <3>2 DEF CallFails, CallBreaks, IInv, TypeOK
  <2>. QED
    BY <2>1 DEF DatagramLost, NodeListLost, IInv, TypeOK
<1>3. udp' \subseteq Datagram /\ lists' \subseteq ListMsg
  BY DEF CallFails, CallBreaks, DatagramLost, NodeListLost, IInv, TypeOK
<1>4. faults' \in 0 .. MaxFaults
  <2>1. faults' = faults \/ (faults < MaxFaults /\ faults' = faults + 1)
    BY DEF CallFails, CallBreaks, DatagramLost, NodeListLost, Fault
  <2>. QED
    BY <2>1, BoundsAssumption DEF IInv, TypeOK
<1> QED
  BY <1>1, <1>2, <1>3, <1>4 DEF IInv, TypeOK

-----------------------------------------------------------------------------
(* The inductive invariant                                                 *)

LEMMA InitIInv == Init => IInv
BY BlankState, BoundsAssumption DEF Init, IInv, TypeOK

LEMMA StepIInv ==
  ASSUME IInv, [Next]_vars
  PROVE  /\ IInv'
         /\ \A n \in up \cap up' : Drops(n)
<1>1. CASE UNCHANGED vars
  BY <1>1 DEF vars, IInv, TypeOK, Drops, DropsSuccessor
<1>2. ASSUME NEW n \in Node, Start(n)
      PROVE  IInv' /\ \A m \in up \cap up' : Drops(m)
  <2>1. IInv' /\ n \notin up
    BY <1>2, StartStep
  <2>2. \A m \in Node \ {n} : node'[m] = node[m]
    BY <1>2 DEF Start, Return, IInv, TypeOK
  <2>. QED
    BY <2>1, <2>2 DEF Drops, DropsSuccessor, IInv, TypeOK
<1>3. ASSUME NEW n \in Node, Crash(n)
      PROVE  IInv' /\ \A m \in up \cap up' : Drops(m)
  BY <1>3, CrashStep DEF Drops, DropsSuccessor
<1>4. CASE \/ \E c \in calls : CallFails(c) \/ CallBreaks(c)
           \/ \E d \in udp   : DatagramLost(d)
           \/ \E m \in lists : NodeListLost(m)
  BY <1>4, ChannelStep DEF Drops, DropsSuccessor
<1>5. ASSUME NEW n \in Node, NEW w \in MayExpire(n) \cup {NoWait}, Handle(n, w)
      PROVE  IInv' /\ \A m \in up \cap up' : Drops(m)
  <2>1. IInv' /\ Drops(n)
    BY <1>5, ReceiveAnnounceStep, ReceiveNodeListStep, ReceivePingStep,
       ReceivePongStep, ReceiveFailureStep, TimerExpiresStep DEF Handle
  <2>2. \A m \in Node \ {n} : node'[m] = node[m]
    BY <1>5 DEF Handle, ReceiveAnnounce, ReceiveNodeList, ReceivePing,
                ReceivePong, ReceiveFailure, TimerExpires, Return, IInv, TypeOK
  <2>. QED
    BY <2>1, <2>2 DEF Drops, DropsSuccessor, IInv, TypeOK
<1> QED
  BY <1>1, <1>2, <1>3, <1>4, <1>5 DEF Next, Environment, Failure, Handler

\* Every process that runs is good between any two of its handlers.
THEOREM Invariance == Spec => []IInv
<1>1. IInv /\ [Next]_vars => IInv'
  BY StepIInv
<1> QED
  BY InitIInv, <1>1, PTL DEF Spec

-----------------------------------------------------------------------------
(* What it means for the properties of Cluster                             *)

\* All state keeps its type; in particular the node lists in messages, and so
\* the rings, only hold names of nodes.
THEOREM TypeCorrect == Spec => []TypeOK
<1>1. IInv => TypeOK
  BY DEF IInv
<1> QED
  BY Invariance, <1>1, PTL

\* A process never loses itself from its own ring.
THEOREM SelfStays == Spec => []SelfIsMember
<1>1. IInv => SelfIsMember
  BY DEF IInv, Good, Nearly, SelfIsMember
<1> QED
  BY Invariance, <1>1, PTL

\* The monitored node is always the successor in the ring the process knows.
THEOREM SuccessorMonitored == Spec => []MonitorsSuccessor
<1>1. IInv => MonitorsSuccessor
  BY DEF IInv, Good, MonitorsSuccessor
<1> QED
  BY Invariance, <1>1, PTL

\* A process always has an announcement ahead of it.
THEOREM AnnouncementAhead == Spec => []NeverMute
<1>1. IInv => NeverMute
  BY DEF IInv, Good, NotMute, NeverMute
<1> QED
  BY Invariance, <1>1, PTL

\* A monitored node always has a wait on the timer of Monitor.
THEOREM MonitorTimed == Spec => []MonitorIsTimed
<1>1. \A w \in PingWaits \ {NoWait} : w.node # None
  BY NoneAssumption DEF PingWaits, Wait
<1>2. ASSUME IInv, NEW n \in up
      PROVE  /\ node[n].timer \in PingWaits
             /\ Timed(node[n], {})
  BY <1>2 DEF IInv, TypeOK, State, Good
<1>3. IInv => MonitorIsTimed
  BY <1>1, <1>2 DEF Timed, MonitorIsTimed
<1> QED
  BY Invariance, <1>3, PTL

\* No change of the ring is forgotten before the successor was told of it.
THEOREM SuccessorTold == Spec => []ToldSuccessor
<1>1. IInv => ToldSuccessor
  BY DEF IInv, Good, Nearly, Told, ToldNext, ToldSuccessor
<1> QED
  BY Invariance, <1>1, PTL

\* Only the successor is ever dropped, whatever stale answers and expired waits
\* arrive.
THEOREM SuccessorDropped == Spec => OnlySuccessorDropped
<1>1. IInv /\ [Next]_vars => \A n \in up \cap up' : Drops(n)
  BY StepIInv
<1>2. IInv /\ [Next]_vars =>
        [\A n \in up \cap up' : DropsSuccessor(n, node[n], node'[n])]_vars
  BY <1>1 DEF Drops
<1> QED
  BY Invariance, <1>2, PTL DEF Spec, OnlySuccessorDropped

-----------------------------------------------------------------------------
(* The call behind a timeout                                               *)

\* Those of whom n awaits an answer, with the calls c under way.
Asked(n, c) == {x.to : x \in {y \in c : y.from = n}}

Backed(n) ==
  node[n].timer.handler = "handleTimeout" =>
    node[n].timer.node \in Asked(n, calls)

PInv == \A n \in up : Backed(n)

\* The pings that a handler sends become calls.
LEMMA ReturnBacked ==
  ASSUME IInv, PInv, NEW n \in Node, NEW w \in Waits, NEW t, Good(n, t, {w}),
         NEW u, NEW l, NEW c, Return(n, w, t, u, l, c),
         Awaited(t, Asked(n, c)), up' \subseteq up \cup {n},
         \A m \in Node \ {n} : Asked(m, calls) \subseteq Asked(m, c)
  PROVE  PInv'
<1> DEFINE r == Dispatch(n, t, w)
           q == [r EXCEPT !.sent = {}]
<1>1. node' = [node EXCEPT ![n] = q] /\ calls' = c \cup NewCalls(n, r, c)
  BY DEF Return
<1>2. r \in State /\ Awaited(r, Asked(n, c))
  BY DispatchGood, DispatchAwaited DEF Good, Nearly
<1> HIDE DEF r
<1>3. q.timer = r.timer /\ node'[n] = q
  BY <1>1, <1>2 DEF State, IInv, TypeOK
<1>4. \A m : Asked(m, c) \subseteq Asked(m, calls')
  BY <1>1 DEF Asked
<1>5. ASSUME NEW p \in Pings(r)
      PROVE  p.to \in Asked(n, calls')
  <2> DEFINE x == [from |-> n, to |-> p.to, id |-> Least(FreeSlots(n, c)),
                   list |-> p.list, phase |-> "sent"]
  <2>1. x \in calls'
    BY <1>1 DEF NewCalls
  <2>2. x.from = n /\ x.to = p.to
    OBVIOUS
  <2> HIDE DEF x
  <2>. QED
    BY <2>1, <2>2 DEF Asked
<1>6. Backed(n)'
  BY <1>2, <1>3, <1>4, <1>5 DEF Awaited, Pings, Backed
<1>7. ASSUME NEW m \in up', m # n
      PROVE  Backed(m)'
  <2>1. m \in up /\ m \in Node /\ node'[m] = node[m]
    BY <1>1, <1>7 DEF IInv, TypeOK
  <2>2. Asked(m, calls) \subseteq Asked(m, calls')
    BY <1>4, <1>7, <2>1
  <2>. QED
    BY <2>1, <2>2 DEF PInv, Backed
<1> QED
  BY <1>6, <1>7 DEF PInv

\* A process that starts a round.
LEMMA RoundBacked ==
  ASSUME IInv, PInv, NEW n \in up, NEW w \in MayExpire(n) \cup {NoWait}
  PROVE  /\ Awaited(Expire(node[n], {w}), Asked(n, calls))
         /\ Expire(node[n], {w}).timer # NoWait =>
              Expire(node[n], {w}).timer.node = Expire(node[n], {w}).monitored
<1>1. n \in Node /\ Good(n, node[n], {}) /\ Awaited(node[n], Asked(n, calls))
  BY DEF IInv, TypeOK, PInv, Backed, Awaited
<1>2. w \in Armed(node[n]) \cup {NoWait}
  BY DEF MayExpire
<1> QED
  BY <1>1, <1>2, ExpireAwaited

\* Only a call that is over is taken from the calls of a process.
LEMMA HandleBacked ==
  ASSUME IInv, PInv, NEW n \in Node, NEW w \in MayExpire(n) \cup {NoWait},
         Handle(n, w)
  PROVE  PInv'
<1> DEFINE s == Expire(node[n], {w})
<1>1. n \in up /\ UNCHANGED up
  BY DEF Handle, ReceiveAnnounce, ReceiveNodeList, ReceivePing, ReceivePong,
         ReceiveFailure, TimerExpires
<1>2. /\ w \in Waits /\ Good(n, s, {w}) /\ Awaited(s, Asked(n, calls))
      /\ s.timer # NoWait => s.timer.node = s.monitored
  BY <1>1, RoundStarts, RoundBacked
<1> HIDE DEF s
<1>3. ASSUME NEW d \in udp, ReceiveAnnounce(n, d, w)
      PROVE  PInv'
  <2> DEFINE t == ReceivedAnnounce(n, s, d.from)
  <2>1. Return(n, w, t, udp \ {d}, lists, calls)
    BY <1>3 DEF ReceiveAnnounce, s
  <2>2. d.from \in Node
    BY DEF IInv, TypeOK, Datagram
  <2>3. Good(n, t, {w}) /\ Awaited(t, Asked(n, calls))
    BY <1>2, <2>2, ReceivedAnnounceGood, ReceivedAnnounceAwaited
  <2> HIDE DEF t
  <2>. QED
    BY <1>1, <1>2, <2>1, <2>3, ReturnBacked
<1>4. ASSUME NEW m \in lists, ReceiveNodeList(n, m, w)
      PROVE  PInv'
  <2> DEFINE t == ReceivedNodeList(n, s, m.list)
  <2>1. Return(n, w, t, udp, lists \ {m}, calls)
    BY <1>4 DEF ReceiveNodeList, s
  <2>2. m.list \in SUBSET Node
    BY DEF IInv, TypeOK, ListMsg
  <2>3. Good(n, t, {w}) /\ Awaited(t, Asked(n, calls))
    BY <1>2, <2>2, ReceivedNodeListGood, ReceivedNodeListAwaited
  <2> HIDE DEF t
  <2>. QED
    BY <1>1, <1>2, <2>1, <2>3, ReturnBacked
<1>5. ASSUME NEW c \in calls, ReceivePing(n, c, w)
      PROVE  PInv'
  <2> DEFINE t == Pinged(n, s, c)
             k == (calls \ {c}) \cup Answered(c, t)
  <2>1. Return(n, w, t, udp, lists, k)
    BY <1>5 DEF ReceivePing, s
  <2>2. c.list \in SUBSET Node /\ c \in Call
    BY DEF IInv, TypeOK, Call
  <2>3. Good(n, t, {w}) /\ Awaited(t, Asked(n, calls))
    BY <1>2, <2>2, ReceivedNodeListGood, ReceivedNodeListAwaited DEF Pinged
  <2> HIDE DEF t
  <2>4. \A m \in Node : Asked(m, calls) \subseteq Asked(m, k)
    <3> DEFINE a == [c EXCEPT !.phase = "pong",
                 !.list = IF c.list = {} THEN {} ELSE t.physicalNodes]
    <3>1. a.from = c.from /\ a.to = c.to
      BY <2>2 DEF Call
    <3>2. c.from = None \/ a \in k
      BY DEF Answered
    <3>. QED
      BY <3>1, <3>2, NoneAssumption DEF Asked
  <2>5. Awaited(t, Asked(n, k))
    BY <2>3, <2>4 DEF Awaited
  <2> HIDE DEF k
  <2>. QED
    BY <1>1, <1>2, <2>1, <2>3, <2>4, <2>5, ReturnBacked
<1>6. ASSUME NEW c \in calls, ReceivePong(n, c, w)
      PROVE  PInv'
  <2> DEFINE t == HandlePong(s, c.to)
  <2>1. Return(n, w, t, udp, lists, calls \ {c}) /\ c.from = n
    BY <1>6 DEF ReceivePong, s
  <2>2. c.to \in Node
    BY DEF IInv, TypeOK, Call
  <2>3. Good(n, t, {w}) /\ Awaited(t, Asked(n, calls) \ {c.to})
    BY <1>2, <2>2, HandlePongGood, HandlePongAwaited
  <2> HIDE DEF t
  <2>4. Asked(n, calls) \ {c.to} \subseteq Asked(n, calls \ {c})
        /\ \A m \in Node \ {n} : Asked(m, calls) \subseteq Asked(m, calls \ {c})
    BY <2>1 DEF Asked
  <2>5. Awaited(t, Asked(n, calls \ {c}))
    BY <2>3, <2>4 DEF Awaited
  <2>. QED
    BY <1>1, <1>2, <2>1, <2>3, <2>4, <2>5, ReturnBacked
<1>7. ASSUME NEW c \in calls, ReceiveFailure(n, c, w)
      PROVE  PInv'
  <2> DEFINE t == HandlePingFailed(n, s, c.to)
  <2>1. Return(n, w, t, udp, lists, calls \ {c}) /\ c.from = n
    BY <1>7 DEF ReceiveFailure, s
  <2>2. c.to \in Node
    BY DEF IInv, TypeOK, Call
  <2>3. Good(n, t, {w}) /\ Awaited(t, Asked(n, calls) \ {c.to})
    BY <1>2, <2>2, HandlePingFailedGood, HandlePingFailedAwaited
  <2> HIDE DEF t
  <2>4. Asked(n, calls) \ {c.to} \subseteq Asked(n, calls \ {c})
        /\ \A m \in Node \ {n} : Asked(m, calls) \subseteq Asked(m, calls \ {c})
    BY <2>1 DEF Asked
  <2>5. Awaited(t, Asked(n, calls \ {c}))
    BY <2>3, <2>4 DEF Awaited
  <2>. QED
    BY <1>1, <1>2, <2>1, <2>3, <2>4, <2>5, ReturnBacked
<1>8. ASSUME TimerExpires(n, w)
      PROVE  PInv'
  <2>1. Return(n, w, s, udp, lists, calls)
    BY <1>8 DEF TimerExpires, s
  <2>. QED
    BY <1>1, <1>2, <2>1, ReturnBacked
<1> QED
  BY <1>3, <1>4, <1>5, <1>6, <1>7, <1>8 DEF Handle

LEMMA StartBacked ==
  ASSUME IInv, PInv, NEW n \in Node, Start(n)
  PROVE  PInv'
<1>1. Return(n, NoWait, Boot(n), udp, lists, calls) /\ up' = up \cup {n}
  BY DEF Start
<1>2. NoWait \in Waits /\ Good(n, Boot(n), {NoWait})
  BY BootGood, GoodForMore DEF Waits, PingWaits
<1>3. Boot(n).timer = NoWait
  <2>1. RingAdd(Blank, {n}) \in State /\ RingAdd(Blank, {n}).timer = NoWait
    <3>1. NoWait \in PingWaits
      BY DEF PingWaits
    <3>. QED
      BY <3>1 DEF RingAdd, Blank, State, NoList
  <2>. QED
    BY <2>1, AnnounceGood DEF Boot
<1>4. Awaited(Boot(n), Asked(n, calls))
  BY <1>3 DEF Awaited, NoWait, Wait
<1> QED
  BY <1>1, <1>2, <1>4, ReturnBacked

\* Of a process that died the calls are gone; of the others none is.
LEMMA EnvironmentBacked ==
  ASSUME IInv, PInv, Environment
  PROVE  PInv'
<1>1. ASSUME NEW n \in Node, Crash(n)
      PROVE  PInv'
  <2>1. /\ \A m \in up' : node'[m] = node[m]
        /\ up' = up \ {n}
    BY <1>1, CrashStep DEF Crash
  <2>2. \A m \in up' : Asked(m, calls) \subseteq Asked(m, calls')
    BY <1>1, <2>1 DEF Crash, Asked
  <2>. QED
    BY <2>1, <2>2 DEF PInv, Backed
<1>2. ASSUME NEW c \in calls, CallFails(c) \/ CallBreaks(c)
      PROVE  PInv'
  <2> DEFINE a == [c EXCEPT !.phase = "failed", !.list = {}]
  <2>1. a.from = c.from /\ a.to = c.to
    BY DEF IInv, TypeOK, Call
  <2>2. /\ calls \ {c} \subseteq calls'
        /\ c.from = None \/ a \in calls'
        /\ UNCHANGED <<up, node>>
    BY <1>2 DEF CallFails, CallBreaks
  <2> HIDE DEF a
  <2>3. \A m \in up : m # None
    BY NoneAssumption DEF IInv, TypeOK
  <2>4. \A m \in up : Asked(m, calls) \subseteq Asked(m, calls')
    BY <2>1, <2>2, <2>3 DEF Asked
  <2>. QED
    BY <2>2, <2>4 DEF PInv, Backed
<1>3. ASSUME \/ \E d \in udp   : DatagramLost(d)
             \/ \E m \in lists : NodeListLost(m)
      PROVE  PInv'
  BY <1>3 DEF DatagramLost, NodeListLost, PInv, Backed
<1> QED
  BY <1>1, <1>2, <1>3, StartBacked DEF Environment, Failure

LEMMA StepPInv ==
  ASSUME IInv, PInv, [Next]_vars
  PROVE  PInv'
<1>1. CASE UNCHANGED vars
  BY <1>1 DEF vars, PInv, Backed
<1>2. CASE Environment
  BY <1>2, EnvironmentBacked
<1>3. CASE \E n \in Node : Handler(n)
  BY <1>3, HandleBacked DEF Handler
<1> QED
  BY <1>1, <1>2, <1>3 DEF Next

\* A process waits for a Pong only while the call that may bring it is under
\* way.
THEOREM PingBacked == Spec => []PingUnderWay
<1>1. Init => PInv
  BY DEF Init, PInv
<1>2. IInv /\ PInv /\ [Next]_vars => PInv'
  BY StepPInv
<1>3. PInv => PingUnderWay
  BY DEF PInv, Backed, Asked, PingUnderWay
<1> QED
  BY Invariance, <1>1, <1>2, <1>3, PTL DEF Spec

-----------------------------------------------------------------------------
(* Nothing fails: who may be dropped                                       *)

\* The messages u, l and c name only nodes in K, and no call has failed.
WireWithin(u, l, c, K) ==
  /\ \A d \in u : d.from \in K
  /\ \A m \in l : m.list \subseteq K
  /\ \A x \in c : x.to \in K /\ x.list \subseteq K /\ x.phase # "failed"

\* Every name that is known, told or on its way is that of a process that runs,
\* and no call has failed.
Known ==
  /\ \A n \in up : Within(node[n], up)
  /\ WireWithin(udp, lists, calls, up)

KInv == faults = 0 => Known

\* A process that handled a message tells others only what it knows, and drops
\* nobody unless a timeout came along.
LEMMA ReturnKnown ==
  ASSUME IInv, NEW n \in Node, NEW w \in Waits, NEW t, Good(n, t, {w}),
         NEW u, NEW l, NEW c, Return(n, w, t, u, l, c),
         up \subseteq up', n \in up', up' \subseteq up \cup {n},
         Within(t, up'), \A m \in up : Within(node[m], up'),
         WireWithin(u, l, c, up')
  PROVE  /\ Known'
         /\ w.handler # "handleTimeout" =>
              node'[n].physicalNodes = t.physicalNodes
<1> DEFINE r == Dispatch(n, t, w)
           q == [r EXCEPT !.sent = {}]
<1>1. /\ node'  = [node EXCEPT ![n] = q]
      /\ udp'   = u \cup Heard(n, r)
      /\ lists' = l \cup NewLists(n, r)
      /\ calls' = c \cup NewCalls(n, r, c)
  BY DEF Return
<1>2. /\ r \in State /\ Within(r, up')
      /\ w.handler # "handleTimeout" => r.physicalNodes = t.physicalNodes
  BY DispatchGood, DispatchWithin DEF Good, Nearly
<1> HIDE DEF r
<1>3. q.physicalNodes = r.physicalNodes /\ q.sent = {} /\ node'[n] = q
  BY <1>1, <1>2 DEF State, IInv, TypeOK
<1>4. Within(q, up')
  BY <1>2, <1>3 DEF Within
<1> HIDE DEF q
<1>5. \A m \in up' : Within(node'[m], up')
  BY <1>1, <1>3, <1>4 DEF IInv, TypeOK
<1>6. \A d \in udp' : d.from \in up'
  BY <1>1 DEF Heard, WireWithin
<1>7. \A m \in r.sent : m.type \in {"Ping", "NodeList"} => m \in r.sent \ {AnnounceMsg}
  BY DEF AnnounceMsg
<1>8. \A m \in lists' : m.list \subseteq up'
  BY <1>1, <1>2, <1>7 DEF NewLists, Within, WireWithin
<1>9. \A x \in calls' : x.to \in up' /\ x.list \subseteq up' /\ x.phase # "failed"
  BY <1>1, <1>2, <1>7 DEF NewCalls, Pings, Within, WireWithin
<1> QED
  BY <1>2, <1>3, <1>5, <1>6, <1>8, <1>9 DEF Known, WireWithin

\* A ping times out only if its answer is not on its way; it is.
LEMMA NoTimeout ==
  ASSUME Timely, IInv, PInv, Known, NEW n \in up,
         NEW w \in MayExpire(n) \cup {NoWait}
  PROVE  w.handler # "handleTimeout"
<1> SUFFICES ASSUME w.handler = "handleTimeout"
             PROVE  FALSE
  OBVIOUS
<1>1. w \in Armed(node[n]) /\ ~Answerable(n, w.node)
  BY DEF MayExpire, NoWait, Wait
<1>2. w = node[n].timer
  BY <1>1 DEF Armed, Wait
<1>3. PICK c \in calls : c.from = n /\ c.to = w.node
  BY <1>2 DEF PInv, Backed, Asked
<1>4. c.to \in up /\ c.phase \in {"sent", "pong"}
  BY DEF Known, WireWithin, IInv, TypeOK, Call
<1> QED
  BY <1>1, <1>3, <1>4 DEF Answerable

\* What a process keeps of its ring.
Keeps(n) == node[n].physicalNodes \subseteq node'[n].physicalNodes

LEMMA HandleKnown ==
  ASSUME IInv, Known, NEW n \in Node,
         NEW w \in MayExpire(n) \cup {NoWait}, Handle(n, w)
  PROVE  Known' /\ (w.handler # "handleTimeout" => Keeps(n))
<1> DEFINE s == Expire(node[n], {w})
<1>1. n \in up /\ UNCHANGED up
  BY DEF Handle, ReceiveAnnounce, ReceiveNodeList, ReceivePing, ReceivePong,
         ReceiveFailure, TimerExpires
<1>2. /\ w \in Waits /\ Good(n, s, {w})
      /\ s.physicalNodes = node[n].physicalNodes
  BY <1>1, RoundStarts
<1>3. Within(s, up) /\ \A m \in up : Within(node[m], up)
  BY <1>1, ExpireWithin DEF Known, IInv, TypeOK
<1> HIDE DEF s
<1>4. ASSUME NEW d \in udp, ReceiveAnnounce(n, d, w)
      PROVE  Known' /\ (w.handler # "handleTimeout" => Keeps(n))
  <2> DEFINE t == ReceivedAnnounce(n, s, d.from)
  <2>1. Return(n, w, t, udp \ {d}, lists, calls)
    BY <1>4 DEF ReceiveAnnounce, s
  <2>2. d.from \in Node /\ d.from \in up
    BY DEF IInv, TypeOK, Datagram, Known, WireWithin
  <2>3. Good(n, t, {w}) /\ Within(t, up) /\ s.physicalNodes \subseteq t.physicalNodes
    BY <1>2, <1>3, <2>2, ReceivedAnnounceGood, ReceivedAnnounceWithin
  <2> HIDE DEF t
  <2>4. WireWithin(udp \ {d}, lists, calls, up')
    BY <1>1 DEF Known, WireWithin
  <2>5. /\ Known'
        /\ w.handler # "handleTimeout" =>
             node'[n].physicalNodes = t.physicalNodes
    BY <1>1, <1>2, <1>3, <2>1, <2>3, <2>4, ReturnKnown
  <2>. QED
    BY <1>2, <2>3, <2>5 DEF Keeps
<1>5. ASSUME NEW m \in lists, ReceiveNodeList(n, m, w)
      PROVE  Known' /\ (w.handler # "handleTimeout" => Keeps(n))
  <2> DEFINE t == ReceivedNodeList(n, s, m.list)
  <2>1. Return(n, w, t, udp, lists \ {m}, calls)
    BY <1>5 DEF ReceiveNodeList, s
  <2>2. m.list \in SUBSET Node /\ m.list \subseteq up
    BY DEF IInv, TypeOK, ListMsg, Known, WireWithin
  <2>3. Good(n, t, {w}) /\ Within(t, up) /\ s.physicalNodes \subseteq t.physicalNodes
    BY <1>2, <1>3, <2>2, ReceivedNodeListGood, ReceivedNodeListWithin
  <2> HIDE DEF t
  <2>4. WireWithin(udp, lists \ {m}, calls, up')
    BY <1>1 DEF Known, WireWithin
  <2>5. /\ Known'
        /\ w.handler # "handleTimeout" =>
             node'[n].physicalNodes = t.physicalNodes
    BY <1>1, <1>2, <1>3, <2>1, <2>3, <2>4, ReturnKnown
  <2>. QED
    BY <1>2, <2>3, <2>5 DEF Keeps
<1>6. ASSUME NEW c \in calls, ReceivePing(n, c, w)
      PROVE  Known' /\ (w.handler # "handleTimeout" => Keeps(n))
  <2> DEFINE t == Pinged(n, s, c)
             k == (calls \ {c}) \cup Answered(c, t)
  <2>1. Return(n, w, t, udp, lists, k)
    BY <1>6 DEF ReceivePing, s
  <2>2. c.list \in SUBSET Node /\ c.list \subseteq up /\ c.to \in up /\ c \in Call
    BY DEF IInv, TypeOK, Call, Known, WireWithin
  <2>3. Good(n, t, {w}) /\ Within(t, up) /\ s.physicalNodes \subseteq t.physicalNodes
    BY <1>2, <1>3, <2>2, ReceivedNodeListGood, ReceivedNodeListWithin DEF Pinged
  <2> HIDE DEF t
  <2>4. WireWithin(udp, lists, k, up')
    <3>1. \A x \in Answered(c, t) :
            x.to = c.to /\ x.phase = "pong" /\ x.list \in {{}, t.physicalNodes}
      BY <2>2 DEF Answered, Call
    <3>. QED
      BY <1>1, <2>2, <2>3, <3>1 DEF Known, Within, WireWithin
  <2> HIDE DEF k
  <2>5. /\ Known'
        /\ w.handler # "handleTimeout" =>
             node'[n].physicalNodes = t.physicalNodes
    BY <1>1, <1>2, <1>3, <2>1, <2>3, <2>4, ReturnKnown
  <2>. QED
    BY <1>2, <2>3, <2>5 DEF Keeps
<1>7. ASSUME NEW c \in calls, ReceivePong(n, c, w)
      PROVE  Known' /\ (w.handler # "handleTimeout" => Keeps(n))
  <2> DEFINE t == HandlePong(s, c.to)
  <2>1. Return(n, w, t, udp, lists, calls \ {c})
    BY <1>7 DEF ReceivePong, s
  <2>2. c.to \in Node /\ s \in State
    BY <1>2 DEF IInv, TypeOK, Call, Known, Good, Nearly
  <2>3. Good(n, t, {w}) /\ Within(t, up) /\ s.physicalNodes = t.physicalNodes
    BY <1>2, <1>3, <2>2, HandlePongGood, HandlePongWithin
  <2> HIDE DEF t
  <2>4. WireWithin(udp, lists, calls \ {c}, up')
    BY <1>1 DEF Known, WireWithin
  <2>5. /\ Known'
        /\ w.handler # "handleTimeout" =>
             node'[n].physicalNodes = t.physicalNodes
    BY <1>1, <1>2, <1>3, <2>1, <2>3, <2>4, ReturnKnown
  <2>. QED
    BY <1>2, <2>3, <2>5 DEF Keeps
<1>8. ASSUME TimerExpires(n, w)
      PROVE  Known' /\ (w.handler # "handleTimeout" => Keeps(n))
  <2>1. Return(n, w, s, udp, lists, calls)
    BY <1>8 DEF TimerExpires, s
  <2>2. /\ Known'
        /\ w.handler # "handleTimeout" =>
             node'[n].physicalNodes = s.physicalNodes
    BY <1>1, <1>2, <1>3, <2>1, ReturnKnown DEF Known
  <2>. QED
    BY <1>2, <2>2 DEF Keeps
<1>9. ~ \E c \in calls : ReceiveFailure(n, c, w)
  BY DEF Known, WireWithin, ReceiveFailure
<1> QED
  BY <1>4, <1>5, <1>6, <1>7, <1>8, <1>9 DEF Handle

LEMMA StartKnown ==
  ASSUME IInv, Known, NEW n \in Node, Start(n)
  PROVE  Known' /\ \A m \in up : Keeps(m)
<1>1. /\ Return(n, NoWait, Boot(n), udp, lists, calls)
      /\ n \notin up /\ up' = up \cup {n}
  BY DEF Start
<1>2. NoWait \in Waits /\ Good(n, Boot(n), {NoWait}) /\ Within(Boot(n), up')
  BY <1>1, BootGood, GoodForMore, BootWithin DEF Waits, PingWaits
<1>3. /\ \A m \in up : Within(node[m], up')
      /\ WireWithin(udp, lists, calls, up')
  BY <1>1 DEF Known, Within, WireWithin
<1>4. Known'
  <2>1. NoWait.handler # "handleTimeout"
    BY DEF NoWait, Wait
  <2>. QED
    BY <1>1, <1>2, <1>3, <2>1, ReturnKnown
<1>5. \A m \in up : node'[m] = node[m]
  BY <1>1 DEF Return, IInv, TypeOK
<1> QED
  BY <1>4, <1>5 DEF Keeps

\* What a step does without a fault: nobody dies, no call breaks, and none fails
\* for every process that is called runs.
LEMMA StepKnown ==
  ASSUME IInv, PInv, KInv, [Next]_vars, faults' = 0
  PROVE  Known' /\ (Timely => \A n \in up \cap up' : Keeps(n))
<1>1. faults = 0 /\ Known
  <2>1. faults \in Nat /\ faults' \in {faults, faults + 1}
    <3>1. faults \in Nat
      BY BoundsAssumption DEF IInv, TypeOK
    <3>. QED
      BY <3>1 DEF Next, Environment, Failure, Start, Crash, CallFails, CallBreaks,
         DatagramLost, NodeListLost, Fault, Handler, Handle, ReceiveAnnounce,
         ReceiveNodeList, ReceivePing, ReceivePong, ReceiveFailure,
         TimerExpires, vars
  <2>. QED
    BY <2>1 DEF KInv
<1>2. CASE UNCHANGED vars
  BY <1>1, <1>2 DEF vars, Known, Keeps
<1>3. ASSUME NEW n \in Node, Start(n)
      PROVE  Known' /\ \A m \in up \cap up' : Keeps(m)
  BY <1>1, <1>3, StartKnown
<1>4. CASE Failure
  <2>1. ~Fault
    BY <1>1 DEF Fault
  <2>2. \A c \in calls : ~CallFails(c)
    BY <1>1 DEF CallFails, Known, WireWithin
  <2>3. PICK m \in lists : NodeListLost(m)
    BY <1>4, <2>1, <2>2 DEF Failure, Crash, CallBreaks, DatagramLost
  <2>. QED
    BY <1>1, <2>3 DEF NodeListLost, Known, WireWithin, Keeps
<1>5. ASSUME NEW n \in Node, NEW w \in MayExpire(n) \cup {NoWait}, Handle(n, w)
      PROVE  Known' /\ (Timely => \A m \in up \cap up' : Keeps(m))
  <2>1. n \in up
    BY <1>5 DEF Handle, ReceiveAnnounce, ReceiveNodeList, ReceivePing,
                ReceivePong, ReceiveFailure, TimerExpires
  <2>2. Known' /\ (Timely => Keeps(n))
    BY <1>1, <1>5, <2>1, HandleKnown, NoTimeout
  <2>3. \A m \in Node \ {n} : node'[m] = node[m]
    BY <1>5 DEF Handle, ReceiveAnnounce, ReceiveNodeList, ReceivePing,
                ReceivePong, ReceiveFailure, TimerExpires, Return, IInv, TypeOK
  <2>. QED
    BY <2>2, <2>3 DEF Keeps, IInv, TypeOK
<1> QED
  BY <1>2, <1>3, <1>4, <1>5 DEF Next, Environment, Handler

LEMMA KnownInvariance == Spec => [](PInv /\ KInv)
<1>1. Init => PInv /\ KInv
  BY DEF Init, PInv, KInv, Known, WireWithin
<1>2. IInv /\ PInv /\ KInv /\ [Next]_vars => PInv' /\ KInv'
  BY StepPInv, StepKnown DEF KInv
<1> QED
  BY Invariance, <1>1, <1>2, PTL DEF Spec

\* As long as nothing has failed, every name in a ring is that of a process that
\* runs, even if pings time out too early.
THEOREM RingsAreOfRunning ==
  Spec => [](faults = 0 => \A n \in up : node[n].physicalNodes \subseteq up)
<1>1. KInv => (faults = 0 => \A n \in up : node[n].physicalNodes \subseteq up)
  BY DEF KInv, Known, Within
<1> QED
  BY KnownInvariance, <1>1, PTL

\* When nothing fails and every answer is in time, no node is ever dropped,
\* whatever the order of announcements, lists, pings, pongs and timers.
THEOREM NobodyDropped ==
  ASSUME Timely
  PROVE  Spec => NoFalseDown
<1>1. IInv /\ PInv /\ KInv /\ [Next]_vars =>
        [faults' = 0 =>
           \A n \in up \cap up' :
             node[n].physicalNodes \subseteq node'[n].physicalNodes]_vars
  BY StepKnown DEF Keeps
<1> QED
  BY Invariance, KnownInvariance, <1>1, PTL DEF Spec, NoFalseDown

-----------------------------------------------------------------------------
(* Who answers a newcomer                                                  *)

\* The ring in a list says that its sender is the one to send it.
LInv ==
  /\ \A n \in up : Chosen(n, node[n])
  /\ \A m \in lists : m.from = NextNode(m.list, m.to)

LEMMA ReturnLists ==
  ASSUME IInv, LInv,
         NEW n \in Node, NEW w \in Waits, NEW t, Good(n, t, {w}), Chosen(n, t),
         NEW u, NEW l, NEW c, Return(n, w, t, u, l, c),
         l \subseteq lists, up' \subseteq up \cup {n}
  PROVE  LInv'
<1> DEFINE r == Dispatch(n, t, w)
           q == [r EXCEPT !.sent = {}]
<1>1. node' = [node EXCEPT ![n] = q] /\ lists' = l \cup NewLists(n, r)
  BY DEF Return
<1>2. Chosen(n, r) /\ r \in State
  BY DispatchChosen, DispatchGood DEF Good, Nearly
<1> HIDE DEF r
<1>3. \A m \in NewLists(n, r) : m.from = NextNode(m.list, m.to)
  BY <1>2 DEF NewLists, Chosen
<1>4. Chosen(n, q)
  BY <1>2 DEF State, Chosen
<1> HIDE DEF q
<1>5. \A m \in up' : Chosen(m, node'[m])
  BY <1>1, <1>4 DEF LInv, IInv, TypeOK
<1> QED
  BY <1>1, <1>3, <1>5 DEF LInv

LEMMA HandleLists ==
  ASSUME IInv, LInv, NEW n \in Node, NEW w \in MayExpire(n) \cup {NoWait},
         Handle(n, w)
  PROVE  LInv'
<1> DEFINE s == Expire(node[n], {w})
<1>1. n \in up /\ UNCHANGED up
  BY DEF Handle, ReceiveAnnounce, ReceiveNodeList, ReceivePing, ReceivePong,
         ReceiveFailure, TimerExpires
<1>2. w \in Waits /\ Good(n, s, {w})
  BY <1>1, RoundStarts
<1>3. Chosen(n, s)
  BY <1>1, ExpireChosen DEF IInv, TypeOK, LInv
<1> HIDE DEF s
<1>4. ASSUME NEW d \in udp, ReceiveAnnounce(n, d, w)
      PROVE  LInv'
  <2> DEFINE t == ReceivedAnnounce(n, s, d.from)
  <2>1. Return(n, w, t, udp \ {d}, lists, calls)
    BY <1>4 DEF ReceiveAnnounce, s
  <2>2. d.from \in Node
    BY DEF IInv, TypeOK, Datagram
  <2>3. Good(n, t, {w}) /\ Chosen(n, t)
    BY <1>2, <1>3, <2>2, ReceivedAnnounceGood, ReceivedAnnounceChosen
  <2> HIDE DEF t
  <2>. QED
    BY <1>1, <1>2, <2>1, <2>3, ReturnLists
<1>5. ASSUME NEW m \in lists, ReceiveNodeList(n, m, w)
      PROVE  LInv'
  <2> DEFINE t == ReceivedNodeList(n, s, m.list)
  <2>1. Return(n, w, t, udp, lists \ {m}, calls)
    BY <1>5 DEF ReceiveNodeList, s
  <2>2. m.list \in SUBSET Node
    BY DEF IInv, TypeOK, ListMsg
  <2>3. Good(n, t, {w}) /\ Chosen(n, t)
    BY <1>2, <1>3, <2>2, ReceivedNodeListGood, ReceivedNodeListChosen
  <2> HIDE DEF t
  <2>. QED
    BY <1>1, <1>2, <2>1, <2>3, ReturnLists
<1>6. ASSUME NEW c \in calls, ReceivePing(n, c, w)
      PROVE  LInv'
  <2> DEFINE t == Pinged(n, s, c)
  <2>1. Return(n, w, t, udp, lists, (calls \ {c}) \cup Answered(c, t))
    BY <1>6 DEF ReceivePing, s
  <2>2. c.list \in SUBSET Node
    BY DEF IInv, TypeOK, Call
  <2>3. Good(n, t, {w}) /\ Chosen(n, t)
    BY <1>2, <1>3, <2>2, ReceivedNodeListGood, ReceivedNodeListChosen DEF Pinged
  <2> HIDE DEF t
  <2>. QED
    BY <1>1, <1>2, <2>1, <2>3, ReturnLists
<1>7. ASSUME NEW c \in calls, ReceivePong(n, c, w)
      PROVE  LInv'
  <2> DEFINE t == HandlePong(s, c.to)
  <2>1. Return(n, w, t, udp, lists, calls \ {c})
    BY <1>7 DEF ReceivePong, s
  <2>2. c.to \in Node
    BY DEF IInv, TypeOK, Call
  <2>3. Good(n, t, {w}) /\ Chosen(n, t)
    BY <1>2, <1>3, <2>2, HandlePongGood, HandlePongChosen DEF Good, Nearly
  <2> HIDE DEF t
  <2>. QED
    BY <1>1, <1>2, <2>1, <2>3, ReturnLists
<1>8. ASSUME NEW c \in calls, ReceiveFailure(n, c, w)
      PROVE  LInv'
  <2> DEFINE t == HandlePingFailed(n, s, c.to)
  <2>1. Return(n, w, t, udp, lists, calls \ {c})
    BY <1>8 DEF ReceiveFailure, s
  <2>2. c.to \in Node
    BY DEF IInv, TypeOK, Call
  <2>3. Good(n, t, {w}) /\ Chosen(n, t)
    BY <1>2, <1>3, <2>2, HandlePingFailedGood, HandlePingFailedChosen
  <2> HIDE DEF t
  <2>. QED
    BY <1>1, <1>2, <2>1, <2>3, ReturnLists
<1>9. ASSUME TimerExpires(n, w)
      PROVE  LInv'
  <2>1. Return(n, w, s, udp, lists, calls)
    BY <1>9 DEF TimerExpires, s
  <2>. QED
    BY <1>1, <1>2, <1>3, <2>1, ReturnLists
<1> QED
  BY <1>4, <1>5, <1>6, <1>7, <1>8, <1>9 DEF Handle

LEMMA StepLists ==
  ASSUME IInv, LInv, [Next]_vars
  PROVE  LInv'
<1>1. CASE UNCHANGED vars
  BY <1>1 DEF vars, LInv
<1>2. CASE Failure
  <2>1. up' \subseteq up /\ lists' \subseteq lists
    BY <1>2 DEF Failure, Crash, CallFails, CallBreaks, DatagramLost, NodeListLost
  <2>2. \A m \in up' : node'[m] = node[m]
    BY <1>2, CrashStep DEF Failure, CallFails, CallBreaks, DatagramLost,
                           NodeListLost
  <2>. QED
    BY <2>1, <2>2 DEF LInv
<1>3. ASSUME NEW n \in Node, Start(n)
      PROVE  LInv'
  <2>1. Return(n, NoWait, Boot(n), udp, lists, calls) /\ up' = up \cup {n}
    BY <1>3 DEF Start
  <2>2. NoWait \in Waits /\ Good(n, Boot(n), {NoWait}) /\ Chosen(n, Boot(n))
    BY BootGood, BootChosen, GoodForMore DEF Waits, PingWaits
  <2>. QED
    BY <2>1, <2>2, ReturnLists
<1>4. CASE \E n \in Node : Handler(n)
  BY <1>4, HandleLists DEF Handler
<1> QED
  BY <1>1, <1>2, <1>3, <1>4 DEF Next, Environment

\* "Only one node will send the complete list to the newcomer" (membership.cpp:71)
\* of the nodes that have the same ring: two lists to one newcomer that come from
\* different senders differ.
THEOREM OneListPerRing ==
  Spec => [](\A x, y \in lists :
               x.to = y.to /\ x.list = y.list => x.from = y.from)
<1>1. Init => LInv
  BY DEF Init, LInv
<1>2. IInv /\ LInv /\ [Next]_vars => LInv'
  BY StepLists
<1>3. LInv => \A x, y \in lists :
                x.to = y.to /\ x.list = y.list => x.from = y.from
  BY DEF LInv
<1> QED
  BY Invariance, <1>1, <1>2, <1>3, PTL DEF Spec
=============================================================================
