------------------------------- MODULE Cluster -------------------------------
(***************************************************************************)
(* A cluster of DistMap processes.  Each runs one thread, its io_service   *)
(* loop, so an action is one handler run to completion.  The processes     *)
(* talk through a multicast channel (Finder), one-way node lists           *)
(* (MessageBus::send) and calls, a Ping and its Pong on one TCP connection *)
(* (MessageBus::sendAndReceive, answered by Connection).                   *)
(*                                                                         *)
(* epoll_reactor queues the completions of one poll with the sockets first *)
(* and the expired timers last.  A wait that expired in the same poll as a *)
(* message is therefore past cancelling when the handler of the message    *)
(* runs, and its own handler runs right after it, before anything another  *)
(* process does can reach this one: the action of a message takes such a   *)
(* wait w along (NoWait when there is none).  A poll with more messages or *)
(* more expired timers of one process is in EventLoop.                     *)
(*                                                                         *)
(* The build is the default one of SConstruct, with NDEBUG: traces and     *)
(* assertions compile to nothing.                                          *)
(***************************************************************************)
EXTENDS Membership, FiniteSets

CONSTANTS
  MaxCalls,   \* bound: calls that are under way at once
  MaxCallsOf, \* bound: calls of one process that are under way at once
  MaxFaults,  \* bound: crashes, losses and failures of the whole behaviour
  Timely      \* TRUE: a ping times out only if its answer is not on its way

ASSUME BoundsAssumption ==
  /\ MaxCalls \in Nat \ {0} /\ MaxCallsOf \in Nat \ {0}
  /\ MaxFaults \in Nat
  /\ Timely \in BOOLEAN

VARIABLES
  up,      \* the processes that run
  node,    \* node[n]: the objects of process n
  udp,     \* announcements under way, one copy for each process that hears it
  lists,   \* NodeList messages under way
  calls,   \* pings under way, with the reply once it has been written
  faults   \* faults so far

vars == <<up, node, udp, lists, calls, faults>>

Slot == 1 .. MaxCallsOf

Datagram == [from : Node, to : Node]

ListMsg == [from : Node, to : Node, list : SUBSET Node]

\* list is the node list of the message under way, first the Ping and then
\* the Pong ({}: it has none).  A call whose client died has from = None.
Call == [from : Node \cup {None}, to : Node, id : Slot, list : SUBSET Node,
         phase : {"sent", "pong", "failed"}]

TypeOK ==
  /\ up \subseteq Node
  /\ node \in [Node -> State]
  /\ udp \subseteq Datagram
  /\ lists \subseteq ListMsg
  /\ calls \subseteq Call
  /\ faults \in 0 .. MaxFaults

-----------------------------------------------------------------------------
(* What the finished handler handed to the sockets leaves the process.     *)

\* The copy that loops back to the sender is left out: receivedAnnounce
\* returns at once when the name is its own.
Heard(n, r) ==
  IF AnnounceMsg \in r.sent
  THEN {[from |-> n, to |-> m] : m \in up \ {n}}
  ELSE {}

NewLists(n, r) ==
  {[from |-> n, to |-> m.to, list |-> m.list] :
     m \in {x \in r.sent : x.type = "NodeList"}}

Pings(r) == {x \in r.sent : x.type = "Ping"}

FreeSlots(n, c) == Slot \ {x.id : x \in {y \in c : y.from = n}}

HasRoom(n, c) == FreeSlots(n, c) # {} /\ Cardinality(c) < MaxCalls

NewCalls(n, r, c) ==
  {[from |-> n, to |-> m.to, id |-> Least(FreeSlots(n, c)),
    list |-> m.list, phase |-> "sent"] : m \in Pings(r)}

\* Process n has handled a message and has the state t; the handler of the
\* expired wait w runs and leaves r, and the process polls again.  u, l and c
\* are the messages under way but for the one handled.  (t and r range over
\* one value each, so that TLC computes it once.)
Return(n, w, handled, u, l, c) ==
  \E t \in {handled} : \E r \in {Dispatch(n, t, w)} :
    /\ node'  = [node EXCEPT ![n] = [r EXCEPT !.sent = {}]]
    /\ udp'   = u \cup Heard(n, r)
    /\ lists' = l \cup NewLists(n, r)
    /\ Pings(r) # {} => HasRoom(n, c)
    /\ calls' = c \cup NewCalls(n, r, c)

\* A ping that is going to be answered: the timeout of n for m is premature.
Answerable(n, m) ==
  \E c \in calls :
     /\ c.from = n /\ c.to = m
     /\ c.phase = "pong" \/ (c.phase = "sent" /\ m \in up)

\* The waits of n that may have expired by now.
MayExpire(n) ==
  {w \in Armed(node[n]) :
     Timely /\ w.handler = "handleTimeout" => ~Answerable(n, w.node)}

Fault == faults < MaxFaults /\ faults' = faults + 1

-----------------------------------------------------------------------------
Init ==
  /\ up = {}
  /\ node = [n \in Node |-> Blank]
  /\ udp = {}
  /\ lists = {}
  /\ calls = {}
  /\ faults = 0

\* main and Server::Server, the first time or after a crash.  The process
\* gets the name it had, for it binds the first free port again.
Start(n) ==
  /\ n \notin up
  /\ up' = up \cup {n}
  /\ Return(n, NoWait, Boot(n), udp, lists, calls)
  /\ UNCHANGED faults

\* The process dies.  Its sockets close: what it waited for is lost, what it
\* wrote still arrives.
Crash(n) ==
  /\ n \in up
  /\ Fault
  /\ up' = up \ {n}
  /\ node' = [node EXCEPT ![n] = Blank]
  /\ udp' = {d \in udp : d.to # n}
  /\ lists' = {m \in lists : m.to # n}
  /\ calls' = {c \in calls : c.from # n}
                \cup {[c EXCEPT !.from = None] :
                        c \in {x \in calls : x.from = n /\ x.phase = "sent"}}

\* Finder::handleReceiveFrom
ReceiveAnnounce(n, d, w) ==
  /\ n \in up /\ d.to = n
  /\ Return(n, w, ReceivedAnnounce(n, Expire(node[n], {w}), d.from),
            udp \ {d}, lists, calls)
  /\ UNCHANGED <<up, faults>>

\* Connection::handleReceive, a NodeList
ReceiveNodeList(n, m, w) ==
  /\ n \in up /\ m.to = n
  /\ Return(n, w, ReceivedNodeList(n, Expire(node[n], {w}), m.list),
            udp, lists \ {m}, calls)
  /\ UNCHANGED <<up, faults>>

\* What a Ping does to the process, and the Pong: it carries the node list of
\* the receiver if the Ping carried one.
Pinged(n, s, c) ==
  IF c.list = {} THEN s ELSE ReceivedNodeList(n, s, c.list)

Answered(c, s) ==
  IF c.from = None
  THEN {}
  ELSE {[c EXCEPT !.phase = "pong",
                  !.list  = IF c.list = {} THEN {} ELSE s.physicalNodes]}

\* Connection::handleReceive, a Ping
ReceivePing(n, c, w) ==
  /\ n \in up /\ c.to = n /\ c.phase = "sent"
  /\ \E s \in {Pinged(n, Expire(node[n], {w}), c)} :
       Return(n, w, s, udp, lists, (calls \ {c}) \cup Answered(c, s))
  /\ UNCHANGED <<up, faults>>

\* Monitor::handlePing with a Pong
ReceivePong(n, c, w) ==
  /\ n \in up /\ c.from = n /\ c.phase = "pong"
  /\ Return(n, w, HandlePong(Expire(node[n], {w}), c.to),
            udp, lists, calls \ {c})
  /\ UNCHANGED <<up, faults>>

\* Monitor::handlePing with an error or a message that is not a Pong
ReceiveFailure(n, c, w) ==
  /\ n \in up /\ c.from = n /\ c.phase = "failed"
  /\ Return(n, w, HandlePingFailed(n, Expire(node[n], {w}), c.to),
            udp, lists, calls \ {c})
  /\ UNCHANGED <<up, faults>>

\* handleTimeout, handleSendNextPing or announceTimeout with no error
TimerExpires(n, w) ==
  /\ n \in up /\ w # NoWait
  /\ Return(n, w, Expire(node[n], {w}), udp, lists, calls)
  /\ UNCHANGED <<up, faults>>

\* The operating system of a host that is down refuses or resets the
\* connection; nobody writes to the socket of a client that is gone.
CallFails(c) ==
  /\ c.phase = "sent" /\ c.to \notin up
  /\ calls' = (calls \ {c})
                \cup (IF c.from = None THEN {}
                                       ELSE {[c EXCEPT !.phase = "failed", !.list = {}]})
  /\ UNCHANGED <<up, node, udp, lists, faults>>

\* A connection breaks, or was stale when the bus took it from the pool.
CallBreaks(c) ==
  /\ Fault
  /\ c.phase # "failed" /\ c.from # None
  /\ calls' = (calls \ {c}) \cup {[c EXCEPT !.phase = "failed", !.list = {}]}
  /\ UNCHANGED <<up, node, udp, lists>>

\* The multicast channel drops a datagram.
DatagramLost(d) ==
  /\ Fault
  /\ udp' = udp \ {d}
  /\ UNCHANGED <<up, node, lists, calls>>

\* MessageBus::send fails: Membership::handleMessageSent ignores the error.
NodeListLost(m) ==
  /\ m.to \notin up \/ faults < MaxFaults
  /\ faults' = IF m.to \in up THEN faults + 1 ELSE faults
  /\ lists' = lists \ {m}
  /\ UNCHANGED <<up, node, udp, calls>>

-----------------------------------------------------------------------------
\* One round of the loop of process n, with the wait w expired in it.
Handle(n, w) ==
  \/ \E d \in udp   : ReceiveAnnounce(n, d, w)
  \/ \E m \in lists : ReceiveNodeList(n, m, w)
  \/ \E c \in calls :
        ReceivePing(n, c, w) \/ ReceivePong(n, c, w) \/ ReceiveFailure(n, c, w)
  \/ TimerExpires(n, w)

Handler(n) == \E w \in MayExpire(n) \cup {NoWait} : Handle(n, w)

Failure ==
  \/ \E n \in Node  : Crash(n)
  \/ \E c \in calls : CallFails(c) \/ CallBreaks(c)
  \/ \E d \in udp   : DatagramLost(d)
  \/ \E m \in lists : NodeListLost(m)

Environment == Failure \/ \E n \in Node : Start(n)

Next == Environment \/ \E n \in Node : Handler(n)

Spec == Init /\ [][Next]_vars

-----------------------------------------------------------------------------
(* Safety: every process, between any two of its handlers.                 *)

\* A process never loses itself from its own ring, and no ring is empty.
\* Ring::nextPhysicalNode steps past the end of the set otherwise, and the
\* assertions of ring.cpp fail.
SelfIsMember == \A n \in up : n \in node[n].physicalNodes

\* The monitored node is the next of the process in the ring it knows of,
\* whatever announcements, lists and failures have come; a process that knows
\* of nobody monitors nobody (Membership::doMonitoring).
MonitorsSuccessor ==
  \A n \in up : node[n].monitored = Successor(n, node[n].physicalNodes)

\* A process always has an announcement ahead of it: cancelling one of the two
\* announce timers never leaves it without the other.  The periodic
\* announcement is all that brings back a node that was dropped by mistake.
NeverMute ==
  \A n \in up : node[n].announceTimer \/ node[n].nextAnnounceTimer

\* The timer that Monitor uses for two purposes always has a wait for the node
\* that is monitored, and only for it: neither a stale Pong nor a wait that
\* could no longer be cancelled leaves a node monitored with no timer set.
MonitorIsTimed ==
  \A n \in up :
    LET s == node[n]
    IN  IF s.monitored = None THEN s.timer = NoWait
                              ELSE s.timer # NoWait /\ s.timer.node = s.monitored

\* A process waits for a Pong only while the call that may bring it is under
\* way: a ping never times out that was answered or was not sent.
PingUnderWay ==
  \A n \in up :
    node[n].timer.handler = "handleTimeout" =>
      \E c \in calls : c.from = n /\ c.to = node[n].timer.node

\* Ring::hasChanged forgets the change once it is read.  The ring that was read
\* with it has then left in a Ping to the node monitored now: no change is
\* forgotten before the next node has been told of it.
ToldSuccessor == \A n \in up : ToldNext(node[n])

\* A running process drops a node only while it monitors it, so one at a time,
\* and only if the node is still the next in the ring it knows of by then: a
\* stale answer or a wait past cancelling drops nobody.
OnlySuccessorDropped ==
  [][\A n \in up \cap up' : DropsSuccessor(n, node[n], node'[n])]_vars

\* When no connection breaks, no process dies and every answer is in time, no
\* node is ever dropped, in whatever order announcements, lists, pings, pongs
\* and timers come.
NoFalseDown ==
  [][faults' = 0 =>
       \A n \in up \cap up' :
         node[n].physicalNodes \subseteq node'[n].physicalNodes]_vars

-----------------------------------------------------------------------------
(* What the comments and traces of the source say.                         *)

\* "Only one node will send the complete list to the newcomer"
\* (membership.cpp:71).
OneListPerNewcomer ==
  \A x, y \in lists : x.to = y.to => x.from = y.from

\* The node list that came back with a Pong (monitor.cpp:72, connection.cpp:106)
\* is known to the monitoring process once it has handled the Pong.
PongListMerged ==
  [][\A n \in up \cap up', c \in calls \ calls' :
       (c.from = n /\ c.phase = "pong" /\ c.to = node[n].monitored) =>
         c.list \subseteq node'[n].physicalNodes]_vars

-----------------------------------------------------------------------------
(* Liveness.  The queue of the io_service is first in first out, so every  *)
(* message that has arrived and every wait that has expired is handled;    *)
(* the sockets of a process that died fail.  Nothing is assumed of crashes *)
(* and losses but that they are finitely many, nor of restarts.            *)

\* Handled in a round in which no wait expires: taking a wait along consumes
\* the message as well.
Fairness ==
  /\ \A n \in Node :
       /\ WF_vars(TimerExpires(n, node[n].timer) /\ node[n].timer \in MayExpire(n))
       /\ WF_vars(\E w \in AnnounceWaits \cap Armed(node[n]) : TimerExpires(n, w))
       /\ WF_vars(\E d \in udp   : ReceiveAnnounce(n, d, NoWait))
       /\ WF_vars(\E m \in lists : ReceiveNodeList(n, m, NoWait))
       /\ WF_vars(\E c \in calls : ReceivePing(n, c, NoWait))
       /\ WF_vars(\E c \in calls : \/ ReceivePong(n, c, NoWait)
                                  \/ ReceiveFailure(n, c, NoWait))
  /\ WF_vars(\E c \in calls : CallFails(c))

FairSpec == Spec /\ Fairness

\* If from some time on every process runs, then from some time on every
\* process has every node in its ring: what crashes, lost announcements, lost
\* lists and broken connections did to the rings heals.
Convergence ==
  <>[](up = Node) => <>[](\A n \in Node : node[n].physicalNodes = Node)

\* A death is noticed: no process monitors a dead one for ever, whatever it is
\* told of others meanwhile.
DeathNoticed ==
  \A n \in Node : []<>(n \in up => node[n].monitored \in up \cup {None})
=============================================================================
