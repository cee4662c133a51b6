----------------------------- MODULE EventLoop -----------------------------
(***************************************************************************)
(* One process and the queue of its io_service, which Cluster cuts down to *)
(* a message and a wait at a time.  When the queue is empty the reactor    *)
(* polls: it queues what is ready on any number of sockets, and after that *)
(* every wait that has expired.  Then the handlers run one after another,  *)
(* and what one of them stops or cancels may be queued behind it.  (What a *)
(* handler queues at once is run after the next poll, so that it may as    *)
(* well be ready in that poll.)  The other processes may send anything.    *)
(***************************************************************************)
EXTENDS Membership, SequencesExt

CONSTANTS
  Self,
  Lists,     \* the node lists that others send
  MaxReady,  \* bound: the sockets that are ready in one poll
  MaxCalls   \* bound: the pings to one node that may be answered yet

ASSUME LoopAssumption ==
  /\ Self \in Node
  /\ Lists \subseteq SUBSET Node /\ \A list \in Lists : ~(list \subseteq {Self})
  /\ MaxReady \in Nat /\ MaxCalls \in Nat

VARIABLES
  proc,    \* the objects of the process
  queue,   \* the completions that are queued
  calls    \* calls[m]: pings to m whose answer or error has not been queued

vars == <<proc, queue, calls>>

\* A datagram: an Announce of m, or with None an error or something else.
Announced(m) == [handler |-> "handleReceiveFrom", node |-> m]

\* A NodeList, or a Ping with a node list; a Ping without changes nothing.
ListRead(list) == [handler |-> "handleReceive", node |-> None, list |-> list]

\* An answer to a ping of m, or an error.
PongRead(m) == [handler |-> "handlePing", node |-> m]
PingFailed(m) == [handler |-> "handlePingFailed", node |-> m]

Ready ==
  {Announced(m) : m \in Node \cup {None}} \cup {ListRead(l) : l \in Lists}
    \cup {PongRead(m) : m \in Node} \cup {PingFailed(m) : m \in Node}

\* What one poll may find ready.
Batch == SeqOf(Ready, MaxReady)

Completion == Ready \cup PingWaits \cup AnnounceWaits

TypeOK ==
  /\ proc \in State
  /\ queue \in Seq(Completion)
  /\ calls \in [Node -> 0 .. MaxCalls]

Init ==
  /\ proc = [Boot(Self) EXCEPT !.sent = {}]
  /\ queue = <<>>
  /\ calls = [m \in Node |-> 0]

Number(ready, S) == Cardinality({i \in DOMAIN ready : ready[i] \in S})

Answered(ready, m) == Number(ready, {PongRead(m), PingFailed(m)})

\* The sequences of the elements of T
Orders(T) ==
  {f \in [1 .. Cardinality(T) -> T] : \A w \in T : \E i \in DOMAIN f : f[i] = w}

\* The waits T have expired.  The socket of the Finder and that of a call have
\* one read under way.
Poll(T) ==
  /\ queue = <<>>
  /\ proc' = Expire(proc, T)
  /\ \E ready \in Batch, late \in Orders(T) :
       /\ Number(ready, {Announced(m) : m \in Node \cup {None}}) <= 1
       /\ \A m \in Node : Answered(ready, m) <= calls[m]
       /\ calls' = [m \in Node |-> calls[m] - Answered(ready, m)]
       /\ queue' = ready \o late
       /\ queue' # <<>>

\* What the completion e does to the process in the state s
Handle(s, e) ==
  CASE e.handler = "handleReceiveFrom" ->
         IF e.node = None THEN s ELSE ReceivedAnnounce(Self, s, e.node)
    [] e.handler = "handleReceive"     -> ReceivedNodeList(Self, s, e.list)
    [] e.handler = "handlePing"        -> HandlePong(s, e.node)
    [] e.handler = "handlePingFailed"  -> HandlePingFailed(Self, s, e.node)
    [] OTHER                           -> Dispatch(Self, s, e)

Outcome == Handle(proc, Head(queue))

\* A ping beyond the bound is one that is never answered.
Pinged(m) == calls[m] < MaxCalls /\ \E p \in Outcome.sent : p.type = "Ping" /\ p.to = m

Run ==
  /\ queue # <<>>
  /\ queue' = Tail(queue)
  /\ proc' = [Outcome EXCEPT !.sent = {}]
  /\ calls' = [m \in Node |-> IF Pinged(m) THEN calls[m] + 1 ELSE calls[m]]

Next == Run \/ \E T \in SUBSET Armed(proc) : Poll(T)

Spec == Init /\ [][Next]_vars

\* What is queued is run; time passes, and a poll takes every wait that is due.
FairSpec ==
  /\ Spec
  /\ WF_vars(Run)
  /\ SF_vars(\E T \in SUBSET Armed(proc) : proc.timer \in T /\ Poll(T))

-----------------------------------------------------------------------------
\* Whatever is queued together, the process monitors its successor after every
\* handler (Membership::doMonitoring), so that it never loses itself.
MonitorsSuccessor == proc.monitored = Successor(Self, proc.physicalNodes)

\* The monitored node always has a wait, on the timer or past cancelling in the
\* queue, and the timer never has one for another node: no order of a Pong, a
\* timeout, a list and an announcement leaves a node monitored for ever.
MonitorIsTimed ==
  /\ proc.timer # NoWait => proc.timer.node = proc.monitored
  /\ (proc.monitored # None /\ proc.timer = NoWait) =>
       \E w \in ToSet(queue) \cap PingWaits : w.node = proc.monitored

\* An announcement is always ahead, though both timers may have expired in one
\* poll, with a list behind that cancels one and an announcement the other.
NeverMute ==
  \/ proc.announceTimer \/ proc.nextAnnounceTimer
  \/ ToSet(queue) \cap AnnounceWaits # {}

\* No change of the ring is forgotten before the successor was told of it.
ToldSuccessor == ToldNext(proc)

\* A stale answer or wait, of which any number may be queued, drops nobody but
\* the successor while it is monitored.
OnlySuccessorDropped == [][DropsSuccessor(Self, proc, proc')]_vars

\* An announcement leaves only when a wait for it has expired or the last other
\* node was dropped.  A process hears its own: one that answered it with another
\* would flood the channel as soon as it is alone ("Ignore self message").
NoStorm ==
  [][(queue # <<>> /\ AnnounceMsg \in Outcome.sent) =>
       \/ Head(queue) \in AnnounceWaits
       \/ Outcome.physicalNodes # proc.physicalNodes]_vars

\* A node that is monitored from some time on answers again and again: a silent
\* one is dropped, whatever else keeps the process busy.
SilentDropped ==
  \A m \in Node :
    <>[](proc.monitored = m) =>
      []<><<queue # <<>> /\ Head(queue) = PongRead(m) /\ Run>>_vars
=============================================================================
