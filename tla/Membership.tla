----------------------------- MODULE Membership -----------------------------
(***************************************************************************)
(* One DistMap process: the classes Membership and Monitor, the physical   *)
(* nodes of its Ring and the announcement half of Finder.  They call each  *)
(* other synchronously inside one asio handler, so every method is an      *)
(* operator from the state s of process n to the state it returns with,    *)
(* and a handler is the composition of the methods it calls.  What a       *)
(* method hands to a socket is collected in s.sent.                        *)
(*                                                                         *)
(* A deadline_timer holds at most one wait: expires_from_now() cancels the *)
(* one before it, whose handler then only sees operation_aborted and       *)
(* returns.  A wait that has already expired can no longer be cancelled:   *)
(* Expire takes it off the timer and Dispatch runs its handler later.      *)
(***************************************************************************)
EXTENDS HashRing

CONSTANT None   \* the empty string of Monitor::m_monitoredNode

ASSUME NoneAssumption == None \notin Node

\* A wait on a timer: the handler bound to it and the node name bound with it.
Wait(handler, m) == [handler |-> handler, node |-> m]

NoWait == Wait("none", None)

PingWaits ==
  {NoWait} \cup {Wait(h, m) : h \in {"handleTimeout", "handleSendNextPing"},
                              m \in Node}

AnnounceWaits == {Wait("announceTimer", None), Wait("nextAnnounceTimer", None)}

\* The messages of distmap.proto that the program sends.  A Pong is the reply
\* field of a call in module Cluster.
AnnounceMsg == [type |-> "Announce"]
PingMsg(m, list) == [type |-> "Ping", to |-> m, list |-> list]
NodeListMsg(m, list) == [type |-> "NodeList", to |-> m, list |-> list]

Message ==
  {AnnounceMsg} \cup [type : {"Ping", "NodeList"}, to : Node, list : SUBSET Node]

NoList == [to |-> None, list |-> {}]

\* told is a history variable: the node list that left in a Ping since the
\* last change of the ring, and to whom.
State ==
  [physicalNodes     : SUBSET Node,
   hasChanged        : BOOLEAN,
   monitored         : Node \cup {None},
   timer             : PingWaits,
   announceTimer     : BOOLEAN,
   nextAnnounceTimer : BOOLEAN,
   sent              : SUBSET Message,
   told              : [to : Node \cup {None}, list : SUBSET Node]]

\* The objects as their constructors leave them.
Blank ==
  [physicalNodes     |-> {},
   hasChanged        |-> FALSE,
   monitored         |-> None,
   timer             |-> NoWait,
   announceTimer     |-> FALSE,
   nextAnnounceTimer |-> FALSE,
   sent              |-> {},
   told              |-> NoList]

-----------------------------------------------------------------------------
(* Ring, as the process uses it.  m_ring is RingOf(physicalNodes).         *)

\* Mutant: the flag is not set.
RingAddSilent(s, S) == [s EXCEPT !.physicalNodes = @ \cup S]

RingAdd(s, S) ==
  IF S \subseteq s.physicalNodes
  THEN s
  ELSE [s EXCEPT !.physicalNodes = @ \cup S,
                 !.hasChanged    = TRUE,
                 !.told          = NoList]

RingRemove(s, m) ==
  IF m \notin s.physicalNodes
  THEN s
  ELSE [s EXCEPT !.physicalNodes = @ \ {m},
                 !.hasChanged    = TRUE,
                 !.told          = NoList]

-----------------------------------------------------------------------------
(* Monitor and Membership                                                  *)

\* Ring::hasChanged clears the flag it returns, so only the first Ping after
\* a change carries the node list.
HandleSendNextPing(s, m) ==
  IF m # s.monitored
  THEN s
  ELSE [s EXCEPT
          !.sent       = @ \cup
             {PingMsg(m, IF s.hasChanged THEN s.physicalNodes ELSE {})},
          !.told       = IF s.hasChanged
                         THEN [to |-> m, list |-> s.physicalNodes] ELSE @,
          !.hasChanged = FALSE,
          !.timer      = Wait("handleTimeout", m)]

StartMonitoring(s, m) ==
  IF m = s.monitored THEN s
                     ELSE HandleSendNextPing([s EXCEPT !.monitored = m], m)

\* Mutant: the timer is not cancelled.
StopMonitoringTimed(s) == [s EXCEPT !.monitored = None]

StopMonitoring(s) == [s EXCEPT !.monitored = None, !.timer = NoWait]

\* Mutant: the timer is not set.
AnnounceOnce(s) == [s EXCEPT !.sent = @ \cup {AnnounceMsg}]

Announce(s) ==
  [s EXCEPT !.sent = @ \cup {AnnounceMsg}, !.announceTimer = TRUE]

DoMonitoring(n, s) ==
  LET nextNode == NextPhysicalNode(s.physicalNodes, n)
  IN  IF nextNode = n
      THEN Announce([StopMonitoring(s) EXCEPT !.nextAnnounceTimer = FALSE])
      ELSE StartMonitoring(s, nextNode)

\* Mutant: the process takes its own name off the ring.
NodeIsDownSelf(n, s, m) == DoMonitoring(n, RingRemove(s, n))

NodeIsDown(n, s, m) == DoMonitoring(n, RingRemove(s, m))

\* Mutant: a process answers itself.
IgnoredNever(n, m) == FALSE

\* "Ignore self message": the multicast channel loops back.
Ignored(n, m) == m = n

ReceivedAnnounce(n, s, m) ==
  LET t == DoMonitoring(n, RingAdd(s, {m}))
  IN  CASE Ignored(n, m) -> s
        [] ~Ignored(n, m) /\ NextNode(t.physicalNodes, m) = n ->
             [t EXCEPT !.sent = @ \cup {NodeListMsg(m, t.physicalNodes)}]
        [] OTHER -> t

\* Mutant: monitoring is set up before the list is merged.
ReceivedNodeListLate(n, s, list) ==
  LET t == RingAdd(DoMonitoring(n, [s EXCEPT !.announceTimer = FALSE]), list)
  IN  [t EXCEPT !.nextAnnounceTimer = TRUE]

ReceivedNodeList(n, s, list) ==
  LET t == DoMonitoring(n, RingAdd([s EXCEPT !.announceTimer = FALSE], list))
  IN  [t EXCEPT !.nextAnnounceTimer = TRUE]

\* The monitored node is forgotten first, so that DoMonitoring starts over.
LoseMonitored(n, s, m) == NodeIsDown(n, [s EXCEPT !.monitored = None], m)

\* Mutant: the error of a ping to a node no longer monitored is not ignored.
HandlePingFailedAny(n, s, m) == LoseMonitored(n, s, m)

\* An error and a reply that is not a Pong are handled alike.
HandlePingFailed(n, s, m) ==
  IF m = s.monitored THEN LoseMonitored(n, s, m) ELSE s

\* Mutant: the next ping is bound to m_monitoredNode after it was cleared.
HandlePongUnbound(s, m) == [s EXCEPT !.timer = Wait("handleSendNextPing", None)]

\* Mutant: the timeout goes on after the Pong.
HandlePongStill(s, m) == s

\* Mutant: the timeout is cancelled but the next ping is not scheduled.
HandlePongIdle(s, m) ==
  IF m = s.monitored THEN [s EXCEPT !.timer = NoWait] ELSE s

\* The node list of the Pong is looked for in the ping field of the message,
\* which a Pong does not have: it is never merged.
HandlePong(s, m) ==
  IF m = s.monitored
  THEN [s EXCEPT !.timer = Wait("handleSendNextPing", m)]
  ELSE s

\* Mutant: a timeout past cancelling is not ignored.
HandleTimeoutAny(n, s, m) == LoseMonitored(n, s, m)

HandleTimeout(n, s, m) ==
  IF m = s.monitored THEN LoseMonitored(n, s, m) ELSE s

\* Server::Server: the name is known once the acceptor is bound.
Boot(n) == Announce(RingAdd(Blank, {n}))

-----------------------------------------------------------------------------
(* Timers                                                                  *)

Armed(s) ==
  ({s.timer} \ {NoWait})
    \cup (IF s.announceTimer THEN {Wait("announceTimer", None)} ELSE {})
    \cup (IF s.nextAnnounceTimer THEN {Wait("nextAnnounceTimer", None)} ELSE {})

\* The waits T have expired: their completions are queued.
Expire(s, T) ==
  [s EXCEPT !.timer             = IF @ \in T THEN NoWait ELSE @,
            !.announceTimer     = @ /\ Wait("announceTimer", None) \notin T,
            !.nextAnnounceTimer = @ /\ Wait("nextAnnounceTimer", None) \notin T]

\* The io_service runs the queued completion.
Dispatch(n, s, w) ==
  CASE w = NoWait                       -> s
    [] w.handler = "handleTimeout"      -> HandleTimeout(n, s, w.node)
    [] w.handler = "handleSendNextPing" -> HandleSendNextPing(s, w.node)
    [] OTHER                            -> Announce(s)

-----------------------------------------------------------------------------
(* What holds of a process between any two of its handlers.                *)

\* Whom process n must monitor with the physical nodes S: nobody if alone.
Successor(n, S) ==
  IF NextPhysicalNode(S, n) = n THEN None ELSE NextPhysicalNode(S, n)

ToldNext(s) ==
  (s.monitored # None /\ ~s.hasChanged) =>
     s.told = [to |-> s.monitored, list |-> s.physicalNodes]

\* From s to t only the successor was dropped, while it was monitored.
DropsSuccessor(n, s, t) ==
  \A m \in s.physicalNodes \ t.physicalNodes :
    m = s.monitored /\ m = NextPhysicalNode(t.physicalNodes \cup {m}, n)
=============================================================================
