--------------------------- MODULE EventLoopProofs ---------------------------
(***************************************************************************)
(* The safety of one process against any order of completions in the queue *)
(* of its io_service, for every set of nodes and lists, any number of      *)
(* sockets ready in a poll and of calls under way.  The process is Good    *)
(* but for the waits that are queued: a poll moves waits from the timers   *)
(* to the queue, and a handler of module MembershipProofs needs nothing    *)
(* else of the queue.                                                      *)
(***************************************************************************)
EXTENDS EventLoop, MembershipProofs, FiniteSetTheorems

IInv ==
  /\ TypeOK
  /\ Good(Self, proc, ToSet(queue))

-----------------------------------------------------------------------------
(* The queue                                                               *)

\* A completion that is run leaves the others queued.
LEMMA TailKeeps ==
  ASSUME NEW S, NEW q \in Seq(S), q # <<>>
  PROVE  /\ Head(q) \in S /\ Tail(q) \in Seq(S)
         /\ ToSet(q) \subseteq S
         /\ Head(q) \in ToSet(q)
         /\ ToSet(q) \ {Head(q)} \subseteq ToSet(Tail(q))
<1>1. Len(q) \in Nat \ {0} /\ DOMAIN q = 1 .. Len(q) /\ Head(q) = q[1]
  OBVIOUS
<1>2. /\ Tail(q) \in Seq(S) /\ DOMAIN Tail(q) = 1 .. Len(q) - 1
      /\ \A i \in 1 .. Len(q) - 1 : Tail(q)[i] = q[i + 1]
  BY <1>1
<1>3. ASSUME NEW x \in ToSet(q), x # Head(q)
      PROVE  x \in ToSet(Tail(q))
  <2>1. PICK i \in 1 .. Len(q) : x = q[i]
    BY <1>1 DEF ToSet
  <2>2. i - 1 \in 1 .. Len(q) - 1 /\ Tail(q)[i - 1] = x
    BY <1>1, <1>2, <1>3, <2>1
  <2>. QED
    BY <1>2, <2>2 DEF ToSet
<1>4. Head(q) \in ToSet(q) /\ ToSet(q) \subseteq S
  BY <1>1 DEF ToSet
<1> QED
  BY <1>1, <1>2, <1>3, <1>4

\* A poll queues the sockets that are ready and every wait that has expired.
LEMMA PollQueues ==
  ASSUME NEW S, NEW ready \in SeqOf(S, MaxReady),
         NEW T, IsFiniteSet(T), NEW late \in Orders(T)
  PROVE  /\ ready \o late \in Seq(S \cup T)
         /\ T \subseteq ToSet(ready \o late)
<1>1. ready \in Seq(S)
  BY LoopAssumption DEF SeqOf
<1>2. late \in Seq(T) /\ \A w \in T : \E i \in 1 .. Len(late) : late[i] = w
  <2>1. PICK k : k = Cardinality(T) /\ late \in [1 .. k -> T]
    BY DEF Orders
  <2>2. k \in Nat
    BY <2>1, FS_CardinalityType
  <2>. QED
    BY <2>1, <2>2 DEF Orders
<1> DEFINE q == ready \o late
<1>3. q \in Seq(S \cup T)
  BY <1>1, <1>2
<1>4. ASSUME NEW w \in T
      PROVE  w \in ToSet(q)
  <2>1. PICK i \in 1 .. Len(late) : late[i] = w
    BY <1>2
  <2>2. Len(ready) \in Nat /\ Len(late) \in Nat /\ i \in Nat
    BY <1>1, <1>2
  <2>3. /\ DOMAIN q = 1 .. Len(ready) + Len(late)
        /\ \A j \in 1 .. Len(late) : q[Len(ready) + j] = late[j]
    BY <1>1, <1>2
  <2>4. Len(ready) + i \in 1 .. Len(ready) + Len(late)
    BY <2>2
  <2>. QED
    BY <2>1, <2>3, <2>4 DEF ToSet
<1> QED
  BY <1>3, <1>4

\* At most one wait on each of the three timers.
LEMMA ArmedFinite ==
  ASSUME NEW s, NEW T \in SUBSET Armed(s)
  PROVE  IsFiniteSet(T)
<1>1. Armed(s) \subseteq {s.timer} \cup ({Wait("announceTimer", None)}
                           \cup {Wait("nextAnnounceTimer", None)})
  BY DEF Armed
<1>2. IsFiniteSet({s.timer} \cup ({Wait("announceTimer", None)}
                           \cup {Wait("nextAnnounceTimer", None)}))
  BY FS_Singleton, FS_Union
<1> QED
  BY <1>1, <1>2, FS_Subset

\* As many answers as calls, so that the calls left are a natural number.
LEMMA NumberNat ==
  ASSUME NEW ready \in SeqOf(Ready, MaxReady), NEW S
  PROVE  Number(ready, S) \in Nat
<1>1. IsFiniteSet(1 .. Len(ready)) /\ DOMAIN ready = 1 .. Len(ready)
  BY FS_Interval, LoopAssumption DEF SeqOf
<1> QED
  BY <1>1, FS_Subset, FS_CardinalityType DEF Number

-----------------------------------------------------------------------------
(* What one handler does                                                   *)

LEMMA SuccessorLost ==
  ASSUME NEW W, NEW s, Good(Self, s, W), NEW m \in Node, m = s.monitored,
         NEW t, t.physicalNodes = s.physicalNodes \ {m}
  PROVE  DropsSuccessor(Self, s, t)
<1>1. m = NextPhysicalNode(s.physicalNodes, Self) /\ m \in s.physicalNodes
  BY SuccessorType, LoopAssumption, NoneAssumption
  DEF Good, Nearly, State, Successor
<1>2. t.physicalNodes \cup {m} = s.physicalNodes
  BY <1>1
<1> QED
  BY <1>1, <1>2 DEF DropsSuccessor

\* W are the waits that are queued before the handler of e, V those after it.
LEMMA HandleGood ==
  ASSUME NEW W, NEW s, Good(Self, s, W), NEW e \in Completion,
         NEW V, W \ {e} \subseteq V
  PROVE  /\ Good(Self, Handle(s, e), V)
         /\ DropsSuccessor(Self, s, Handle(s, e))
<1>1. Self \in Node
  BY LoopAssumption
<1>2. CASE e \in PingWaits \cup AnnounceWaits
  <2>1. Handle(s, e) = Dispatch(Self, s, e)
    BY <1>2 DEF Handle, PingWaits, AnnounceWaits, NoWait, Wait
  <2>2. e \in Waits
    BY <1>2 DEF Waits
  <2>3. Good(Self, Dispatch(Self, s, e), V)
    BY <1>1, <2>2, DispatchGood
  <2>4. \/ Dispatch(Self, s, e).physicalNodes = s.physicalNodes
        \/ /\ PingWait(e) /\ e.node = s.monitored
           /\ Dispatch(Self, s, e).physicalNodes = s.physicalNodes \ {e.node}
    BY <1>1, <2>2, DispatchGood
  <2>5. PingWait(e) => e.node \in Node
    BY <2>2 DEF PingWait, Waits, PingWaits, AnnounceWaits, NoWait, Wait
  <2> HIDE DEF PingWait
  <2>6. DropsSuccessor(Self, s, Dispatch(Self, s, e))
    <3>1. CASE Dispatch(Self, s, e).physicalNodes = s.physicalNodes
      BY <3>1 DEF DropsSuccessor
    <3>. QED
      BY <2>4, <2>5, <3>1, SuccessorLost
  <2>. QED
    BY <2>1, <2>3, <2>6
<1>3. ASSUME e \notin PingWaits \cup AnnounceWaits
      PROVE  Good(Self, s, V) /\ e \in Ready
  <2>1. e \in Ready
    BY <1>3 DEF Completion
  <2>2. ~PingWait(e) /\ e \notin AnnounceWaits
    BY <1>3, <2>1 DEF Ready, Announced, ListRead, PongRead, PingFailed, PingWait
  <2>. QED
    BY <2>1, <2>2 DEF Good, Nearly, Timed, NotMute
<1>4. ASSUME e \notin PingWaits \cup AnnounceWaits,
             NEW m \in Node \cup {None}, e = Announced(m)
      PROVE  /\ Good(Self, Handle(s, e), V)
             /\ s.physicalNodes \subseteq Handle(s, e).physicalNodes
  <2>1. Handle(s, e) = IF m = None THEN s ELSE ReceivedAnnounce(Self, s, m)
    BY <1>4 DEF Handle, Announced
  <2>. QED
    BY <1>1, <1>3, <1>4, <2>1, ReceivedAnnounceGood
<1>5. ASSUME e \notin PingWaits \cup AnnounceWaits,
             NEW list \in Lists, e = ListRead(list)
      PROVE  /\ Good(Self, Handle(s, e), V)
             /\ s.physicalNodes \subseteq Handle(s, e).physicalNodes
  <2>1. Handle(s, e) = ReceivedNodeList(Self, s, list) /\ list \in SUBSET Node
    BY <1>5, LoopAssumption DEF Handle, ListRead
  <2>. QED
    BY <1>1, <1>3, <1>5, <2>1, ReceivedNodeListGood
<1>6. ASSUME e \notin PingWaits \cup AnnounceWaits,
             NEW m \in Node, e = PongRead(m)
      PROVE  /\ Good(Self, Handle(s, e), V)
             /\ s.physicalNodes \subseteq Handle(s, e).physicalNodes
  <2>1. Handle(s, e) = HandlePong(s, m)
    BY <1>6 DEF Handle, PongRead
  <2>. QED
    BY <1>1, <1>3, <1>6, <2>1, HandlePongGood
<1>7. ASSUME e \notin PingWaits \cup AnnounceWaits,
             NEW m \in Node, e = PingFailed(m)
      PROVE  /\ Good(Self, Handle(s, e), V)
             /\ DropsSuccessor(Self, s, Handle(s, e))
  <2>1. Handle(s, e) = HandlePingFailed(Self, s, m) /\ Good(Self, s, V)
    BY <1>3, <1>7 DEF Handle, PingFailed
  <2>2. /\ Good(Self, HandlePingFailed(Self, s, m), V)
        /\ HandlePingFailed(Self, s, m).physicalNodes =
             IF m = s.monitored THEN s.physicalNodes \ {m} ELSE s.physicalNodes
    BY <1>1, <2>1, HandlePingFailedGood
  <2>3. CASE m = s.monitored
    BY <2>1, <2>2, <2>3, SuccessorLost
  <2>4. CASE m # s.monitored
    BY <2>1, <2>2, <2>4 DEF DropsSuccessor
  <2>. QED
    BY <2>1, <2>2, <2>3, <2>4
<1>8. s.physicalNodes \subseteq Handle(s, e).physicalNodes =>
        DropsSuccessor(Self, s, Handle(s, e))
  BY DEF DropsSuccessor
<1>9. ASSUME e \notin PingWaits \cup AnnounceWaits
      PROVE  \/ \E m \in Node \cup {None} : e = Announced(m)
             \/ \E list \in Lists : e = ListRead(list)
             \/ \E m \in Node : e = PongRead(m)
             \/ \E m \in Node : e = PingFailed(m)
  BY <1>3, <1>9 DEF Ready
<1> HIDE DEF PingWaits, AnnounceWaits
<1> QED
  BY <1>2, <1>4, <1>5, <1>6, <1>7, <1>8, <1>9

-----------------------------------------------------------------------------
(* The inductive invariant                                                 *)

LEMMA SentAside ==
  ASSUME NEW s, NEW W, Good(Self, s, W)
  PROVE  /\ Good(Self, [s EXCEPT !.sent = {}], W)
         /\ [s EXCEPT !.sent = {}] \in State
         /\ [s EXCEPT !.sent = {}].physicalNodes = s.physicalNodes
<1>1. s \in State
  BY DEF Good, Nearly
<1>2. [s EXCEPT !.sent = {}] \in State
  BY <1>1 DEF State
<1> QED
  BY <1>1, <1>2 DEF Good, Nearly, Timed, NotMute, Told, State

LEMMA InitIInv == Init => IInv
<1> SUFFICES ASSUME Init PROVE IInv
  OBVIOUS
<1>1. Good(Self, Boot(Self), {})
  BY BootGood, LoopAssumption
<1>2. Good(Self, proc, {}) /\ proc \in State
  BY <1>1, SentAside DEF Init
<1>3. queue \in Seq(Completion) /\ ToSet(queue) = {}
  BY DEF Init, ToSet
<1>4. calls \in [Node -> 0 .. MaxCalls]
  BY LoopAssumption DEF Init
<1> QED
  BY <1>2, <1>3, <1>4 DEF IInv, TypeOK

LEMMA PollStep ==
  ASSUME IInv, NEW T \in SUBSET Armed(proc), Poll(T)
  PROVE  IInv' /\ proc'.physicalNodes = proc.physicalNodes
<1>1. PICK ready \in Batch, late \in Orders(T) :
        /\ \A m \in Node : Answered(ready, m) <= calls[m]
        /\ calls' = [m \in Node |-> calls[m] - Answered(ready, m)]
        /\ queue' = ready \o late
  BY DEF Poll
<1>2. queue' \in Seq(Ready \cup T) /\ T \subseteq ToSet(queue')
  BY <1>1, ArmedFinite, PollQueues DEF Batch
<1>3. Good(Self, proc, {})
  <2>1. queue = <<>> /\ ToSet(queue) = {}
    BY DEF Poll, ToSet
  <2>. QED
    BY <2>1 DEF IInv
<1>4. /\ T \subseteq Waits /\ Good(Self, proc', T)
      /\ proc'.physicalNodes = proc.physicalNodes
  BY <1>3, ExpireGood, LoopAssumption DEF Poll
<1>5. Good(Self, proc', ToSet(queue'))
  BY <1>2, <1>4, GoodForMore
<1>6. queue' \in Seq(Completion)
  <2>1. Ready \cup T \subseteq Completion
    BY <1>4 DEF Completion, Waits
  <2> HIDE DEF Completion, Ready
  <2>. QED
    BY <1>2, <2>1
<1>7. calls' \in [Node -> 0 .. MaxCalls]
  <2>1. \A m \in Node : calls[m] \in 0 .. MaxCalls /\ Answered(ready, m) \in Nat
    BY NumberNat DEF Batch, IInv, TypeOK, Answered
  <2>. QED
    BY <1>1, <2>1, LoopAssumption
<1>8. proc' \in State
  BY <1>4 DEF Good, Nearly
<1> QED
  BY <1>4, <1>5, <1>6, <1>7, <1>8 DEF IInv, TypeOK

LEMMA RunStep ==
  ASSUME IInv, Run
  PROVE  IInv' /\ DropsSuccessor(Self, proc, proc')
<1> DEFINE e == Head(queue)
           t == Handle(proc, e)
<1>1. queue # <<>> /\ queue' = Tail(queue) /\ proc' = [t EXCEPT !.sent = {}]
  BY DEF Run, Outcome
<1>2. /\ e \in Completion /\ queue' \in Seq(Completion)
      /\ ToSet(queue) \ {e} \subseteq ToSet(queue')
  BY <1>1, TailKeeps DEF IInv, TypeOK
<1>3. Good(Self, t, ToSet(queue')) /\ DropsSuccessor(Self, proc, t)
  BY <1>2, HandleGood DEF IInv
<1> HIDE DEF t
<1>4. /\ Good(Self, proc', ToSet(queue')) /\ proc' \in State
      /\ proc'.physicalNodes = t.physicalNodes
  BY <1>1, <1>3, SentAside
<1>5. calls' \in [Node -> 0 .. MaxCalls]
  BY LoopAssumption DEF Run, Pinged, IInv, TypeOK
<1>6. DropsSuccessor(Self, proc, proc')
  BY <1>3, <1>4 DEF DropsSuccessor
<1> QED
  BY <1>2, <1>4, <1>5, <1>6 DEF IInv, TypeOK

LEMMA StepIInv ==
  ASSUME IInv, [Next]_vars
  PROVE  IInv' /\ DropsSuccessor(Self, proc, proc')
<1>1. CASE UNCHANGED vars
  BY <1>1 DEF vars, IInv, TypeOK, DropsSuccessor
<1>2. CASE \E T \in SUBSET Armed(proc) : Poll(T)
  BY <1>2, PollStep DEF DropsSuccessor
<1>3. CASE Run
  BY <1>3, RunStep
<1> QED
  BY <1>1, <1>2, <1>3 DEF Next

\* The process is good, but for the waits in the queue, between any two handlers.
THEOREM Invariance == Spec => []IInv
<1>1. IInv /\ [Next]_vars => IInv'
  BY StepIInv
<1> QED
  BY InitIInv, <1>1, PTL DEF Spec

-----------------------------------------------------------------------------
(* What it means for the properties of EventLoop                           *)

\* The process, its queue and its calls keep their types: what is bound to a
\* wait that is queued is always the name of a node.
THEOREM TypeCorrect == Spec => []TypeOK
<1>1. IInv => TypeOK
  BY DEF IInv
<1> QED
  BY Invariance, <1>1, PTL

\* The process monitors its successor after every handler.
THEOREM SuccessorMonitored == Spec => []MonitorsSuccessor
<1>1. IInv => MonitorsSuccessor
  BY DEF IInv, Good, MonitorsSuccessor
<1> QED
  BY Invariance, <1>1, PTL

\* A monitored node always has a wait, on the timer or in the queue.
THEOREM MonitorTimed == Spec => []MonitorIsTimed
<1>1. ASSUME IInv
      PROVE  MonitorIsTimed
  <2>1. ToSet(queue) \subseteq Completion
    BY <1>1 DEF IInv, TypeOK, ToSet
  <2>2. \A w \in Completion : PingWait(w) => w \in PingWaits
    BY DEF Completion, Ready, Announced, ListRead, PongRead, PingFailed,
           PingWait, AnnounceWaits, Wait
  <2>. QED
    BY <1>1, <2>1, <2>2 DEF IInv, Good, Timed, MonitorIsTimed
<1> QED
  BY Invariance, <1>1, PTL

\* An announcement is ahead, on one of the two timers or in the queue.
THEOREM AnnouncementAhead == Spec => []NeverMute
<1>1. IInv => NeverMute
  BY DEF IInv, Good, NotMute, NeverMute
<1> QED
  BY Invariance, <1>1, PTL

\* No change of the ring is forgotten before the successor was told of it.
THEOREM SuccessorTold == Spec => []ToldSuccessor
<1>1. IInv => ToldSuccessor
  BY DEF IInv, Good, Nearly, Told, ToldNext, ToldSuccessor
<1> QED
  BY Invariance, <1>1, PTL

\* Whatever is queued, only the successor is ever dropped.
THEOREM SuccessorDropped == Spec => OnlySuccessorDropped
<1>1. IInv /\ [Next]_vars => [DropsSuccessor(Self, proc, proc')]_vars
  BY StepIInv
<1> QED
  BY Invariance, <1>1, PTL DEF Spec, OnlySuccessorDropped

-----------------------------------------------------------------------------
(* Announcements                                                           *)

\* A process that knows of another node is not its own successor.
LEMMA NotAlone ==
  ASSUME NEW n \in Node, NEW S \in SUBSET Node, n \in S, NEW m \in S, m # n
  PROVE  NextPhysicalNode(S, n) # n
<1> DEFINE ahead == {x \in S : n + 1 <= x}
<1>1. ahead # {} => Least(ahead) \in ahead
  BY LeastOf, NodeAssumption
<1>2. \A y \in S : Least(S) <= y
  BY LeastOf, NodeAssumption
<1>3. n \in Nat /\ m \in Nat
  BY NodeAssumption
<1>4. CASE ahead # {}
  BY <1>1, <1>3, <1>4 DEF NextPhysicalNode, Clockwise
<1>5. CASE ahead = {}
  <2>1. m < n
    BY <1>3, <1>5
  <2>2. Least(S) # n
    BY <1>2, <1>3, <2>1
  <2>. QED
    BY <1>5, <2>2 DEF NextPhysicalNode, Clockwise
<1> QED
  BY <1>4, <1>5

LEMMA PingQuiet ==
  ASSUME NEW s \in State, NEW m, AnnounceMsg \notin s.sent
  PROVE  AnnounceMsg \notin HandleSendNextPing(s, m).sent
BY DEF HandleSendNextPing, State, AnnounceMsg, PingMsg

\* Only a process that is alone announces itself when it sets up monitoring.
LEMMA DoMonitoringQuiet ==
  ASSUME NEW n \in Node, NEW s \in State, n \in s.physicalNodes,
         NEW m \in s.physicalNodes, m # n, AnnounceMsg \notin s.sent
  PROVE  AnnounceMsg \notin DoMonitoring(n, s).sent
<1> DEFINE next == NextPhysicalNode(s.physicalNodes, n)
           u    == [s EXCEPT !.monitored = next]
<1>1. next # n /\ next \in Node
  BY NotAlone, NextIsMember DEF State
<1>2. u \in State /\ u.sent = s.sent
  BY <1>1 DEF State
<1>3. DoMonitoring(n, s) \in {s, HandleSendNextPing(u, next)}
  BY <1>1 DEF DoMonitoring, StartMonitoring
<1> HIDE DEF next, u
<1> QED
  BY <1>2, <1>3, PingQuiet

LEMMA HandleQuiet ==
  ASSUME NEW W, NEW s, Good(Self, s, W), AnnounceMsg \notin s.sent,
         NEW e \in Completion, AnnounceMsg \in Handle(s, e).sent
  PROVE  \/ e \in AnnounceWaits
         \/ Handle(s, e).physicalNodes # s.physicalNodes
<1>1. Self \in Node /\ s \in State /\ Self \in s.physicalNodes
  BY LoopAssumption DEF Good, Nearly
<1>2. ASSUME NEW m \in Node, m = s.monitored
      PROVE  LoseMonitored(Self, s, m).physicalNodes # s.physicalNodes
  <2>1. m \in s.physicalNodes
    BY <1>1, <1>2, SuccessorType, NoneAssumption DEF Good, State
  <2>2. NotMute(s, W)
    BY DEF Good
  <2>3. LoseMonitored(Self, s, m).physicalNodes = s.physicalNodes \ {m}
    BY <1>1, <1>2, <2>2, LoseMonitoredGood
  <2>. QED
    BY <2>1, <2>3
<1>3. CASE e \in PingWaits
  <2>1. Handle(s, e) = Dispatch(Self, s, e)
    BY <1>3 DEF Handle, PingWaits, NoWait, Wait
  <2>2. e = NoWait \/ (PingWait(e) /\ e.node \in Node)
    BY <1>3 DEF PingWaits, PingWait, Wait
  <2>3. Dispatch(Self, s, e) \in {s, LoseMonitored(Self, s, e.node),
                                  HandleSendNextPing(s, e.node)}
    BY <2>2 DEF Dispatch, PingWait, HandleTimeout, NoWait, Wait
  <2>4. e # NoWait /\ Dispatch(Self, s, e) = LoseMonitored(Self, s, e.node)
        /\ e.node = s.monitored
    BY <1>1, <2>1, <2>2, <2>3, PingQuiet
    DEF Dispatch, PingWait, HandleTimeout, NoWait, Wait
  <2>. QED
    BY <1>2, <2>1, <2>2, <2>4
<1>4. ASSUME NEW m \in Node \cup {None}, e = Announced(m)
      PROVE  FALSE
  <2> DEFINE u == RingAdd(s, {m})
             t == DoMonitoring(Self, u)
  <2>1. Handle(s, e) = IF m = None THEN s ELSE ReceivedAnnounce(Self, s, m)
    BY <1>4 DEF Handle, Announced
  <2>2. m \in Node /\ m # Self
    BY <2>1, <1>4 DEF ReceivedAnnounce, Ignored
  <2>3. Nearly(Self, u, W) /\ u.physicalNodes = s.physicalNodes \cup {m}
        /\ u.sent = s.sent
    BY <1>1, <2>2, RingAddNearly DEF Good
  <2> HIDE DEF u
  <2>4. AnnounceMsg \notin t.sent /\ t \in State
    BY <1>1, <2>2, <2>3, DoMonitoringQuiet, DoMonitoringGood DEF Nearly
  <2>5. Handle(s, e).sent \subseteq
          t.sent \cup {NodeListMsg(m, t.physicalNodes)}
    <3>1. Handle(s, e) \in
            {t, [t EXCEPT !.sent = @ \cup {NodeListMsg(m, t.physicalNodes)}]}
      BY <2>1, <2>2, NoneAssumption DEF ReceivedAnnounce, Ignored, u
    <3> HIDE DEF t
    <3>. QED
      BY <2>4, <3>1 DEF State
  <2>. QED
    BY <2>4, <2>5 DEF AnnounceMsg, NodeListMsg
<1>5. ASSUME NEW list \in Lists, e = ListRead(list)
      PROVE  FALSE
  <2> DEFINE v == [s EXCEPT !.announceTimer = FALSE]
             u == RingAdd(v, list)
             t == DoMonitoring(Self, u)
  <2>1. Handle(s, e) = [t EXCEPT !.nextAnnounceTimer = TRUE]
    BY <1>5 DEF Handle, ListRead, ReceivedNodeList
  <2>2. list \in SUBSET Node /\ \E m \in list : m # Self
    BY LoopAssumption
  <2>3. Nearly(Self, v, W) /\ v.physicalNodes = s.physicalNodes /\ v.sent = s.sent
    BY <1>1 DEF Good, Nearly, Timed, Told, State
  <2> HIDE DEF v
  <2>4. Nearly(Self, u, W) /\ u.physicalNodes = s.physicalNodes \cup list
        /\ u.sent = s.sent
    BY <1>1, <2>2, <2>3, RingAddNearly
  <2> HIDE DEF u
  <2>5. AnnounceMsg \notin t.sent /\ t \in State
    BY <1>1, <2>2, <2>4, DoMonitoringQuiet, DoMonitoringGood DEF Nearly
  <2>. QED
    BY <2>1, <2>5 DEF State
<1>6. ASSUME NEW m \in Node, e = PongRead(m)
      PROVE  FALSE
  BY <1>1, <1>6 DEF Handle, PongRead, HandlePong, State
<1>7. ASSUME NEW m \in Node, e = PingFailed(m)
      PROVE  Handle(s, e).physicalNodes # s.physicalNodes
  <2>1. Handle(s, e) = HandlePingFailed(Self, s, m)
    BY <1>7 DEF Handle, PingFailed
  <2>. QED
    BY <1>2, <2>1 DEF HandlePingFailed
<1> QED
  BY <1>3, <1>4, <1>5, <1>6, <1>7 DEF Completion, Ready

\* An announcement leaves only when a wait for it has expired or the last other
\* node was dropped, whatever is received: no flood, not even of own announcements.
THEOREM StormFree == Spec => NoStorm
<1>1. IInv /\ proc.sent = {} /\ [Next]_vars => (proc.sent = {})'
  <2> SUFFICES ASSUME IInv, proc.sent = {}, [Next]_vars
               PROVE  proc'.sent = {}
    OBVIOUS
  <2>1. ASSUME NEW T, Poll(T)
        PROVE  proc'.sent = {}
    BY <2>1 DEF Poll, Expire, IInv, TypeOK, State
  <2>2. ASSUME Run
        PROVE  proc'.sent = {}
    <3>1. Outcome \in State
      <4>1. Head(queue) \in Completion
        BY <2>2, TailKeeps DEF Run, IInv, TypeOK
      <4>2. Good(Self, Outcome, ToSet(queue))
        BY <4>1, HandleGood DEF Outcome, IInv
      <4>. QED
        BY <4>2 DEF Good, Nearly
    <3>. QED
      BY <2>2, <3>1 DEF Run, State
  <2>. QED
    BY <2>1, <2>2 DEF Next, vars
<1>2. Init => proc.sent = {}
  <2>1. Boot(Self) \in State
    BY BootGood, LoopAssumption DEF Good, Nearly
  <2>. QED
    BY <2>1 DEF Init, State
<1>3. ASSUME IInv, proc.sent = {}, queue # <<>>, AnnounceMsg \in Outcome.sent
      PROVE  \/ Head(queue) \in AnnounceWaits
             \/ Outcome.physicalNodes # proc.physicalNodes
  <2>1. Head(queue) \in Completion
    BY <1>3, TailKeeps DEF IInv, TypeOK
  <2>. QED
    BY <1>3, <2>1, HandleQuiet DEF Outcome, IInv
<1>4. IInv /\ proc.sent = {} /\ [Next]_vars =>
        [(queue # <<>> /\ AnnounceMsg \in Outcome.sent) =>
           \/ Head(queue) \in AnnounceWaits
           \/ Outcome.physicalNodes # proc.physicalNodes]_vars
  BY <1>3
<1> QED
  BY Invariance, <1>1, <1>2, <1>4, PTL DEF Spec, NoStorm
=============================================================================
