# A verification of DistMap

DistMap (`src/src/distmap`, about 2700 lines of C++ without its vendored
libraries) keeps a ring of nodes: each process finds the others by multicast,
holds the set of nodes it knows of on a consistent-hash ring, and pings the node
after it to learn of its death. This directory models that protocol and its data
structure in TLA+, checks small instances with TLC and proves the main safety
properties for every instance with TLAPS.

## The system

| Component | State | Operations | Interacts by |
|---|---|---|---|
| `Ring` (`ring.cpp`) | `m_physicalNodes`, a set of names; `m_ring`, a bimap from hash to name; `m_hasChanged` | `add`, `remove`, `node`, `nextNode`, `nextPhysicalNode`, `preferenceList`, `hasChanged` | called by `Membership` |
| `Membership` (`membership.cpp`) | the `Ring`, the `Finder`, the `Monitor`, two announce timers, its own name | `setNodeName`, `announce`, `receivedAnnounce`, `receivedNodeList`, `nodeIsDown`, `doMonitoring`, `announceTimeout` | called by `Finder`, `Connection`, `Monitor`, `Server`; sends node lists with `MessageBus::send` |
| `Monitor` (`monitor.cpp`) | `m_monitoredNode`, `m_timer` | `startMonitoring`, `stopMonitoring`, `handlePing`, `handleTimeout`, `handleSendNextPing` | calls with `MessageBus::sendAndReceive`; calls back `Membership` |
| `Finder` (`finder.cpp`) | a UDP socket in the multicast group | `announceMyself`, `handleReceiveFrom` | datagrams |
| `Server`, `Connection` (`server.cpp`, `connection.cpp`) | the acceptor; one socket per client | `bindAddress`, `handleAccept`, `handleReceive`, `handleSend` | TCP; calls `Membership` |
| `MessageBus`, `ClientConnection` (`message_bus.cpp`) | a pool of connections per address | `send`, `sendAndReceive`, `getConnection`, `release`, keep-alive reads | TCP; calls back `Monitor` and `Membership` |
| messages (`message.cpp`, `distmap.proto`), `asio.hpp`, `Configuration`, `main`, `StringHash`, logging | none or constants | construction, framing, hashing | |

One process is one thread: `main` runs `io_service::run()` once, so a handler is
never interrupted by another of the same process, only by a signal. All that is
hard is between handlers, between processes, and between the steps of the loop:

- **Timers that can no longer be cancelled.** `expires_from_now()` cancels the
  wait before it, unless that wait has already expired and its completion is
  queued. asio's reactor (`epoll_reactor.hpp:343-398`) queues the completions of
  one poll with the sockets first and the timers last, so the handler of a Pong
  may run, replace the timer, and still be followed by the timeout of the ping
  it answered. A poll may complete several reads and several timers at once.
- **One timer for two things.** `Monitor::m_timer` is the timeout of a ping and
  the pause before the next.
- **Answers matched by name.** `handlePing` compares the name bound to the call
  with `m_monitoredNode`; an answer to an earlier call to the same node passes.
- **A flag cleared when read.** `Ring::hasChanged()` decides if a Ping carries
  the node list, and forgets.
- **Rings that differ.** Announcements, lists and deaths reach each process in an
  order of its own; each decides alone whom to monitor and whether it is the one
  that answers a newcomer.
- **Signals.** `signalHandler` calls `io_service::stop()` between any two steps of
  `main` and of the loop, and no mutex keeps it out (`BOOST_DISABLE_THREADS`).
- **Crashes, lost datagrams, lost lists, broken connections**, and restarts under
  the same name.

What makes each component correct:

- `Ring`: it is a consistent hash of its members, whatever its history; a
  preference list is the order of failover and is always completed; no change is
  missed.
- `Membership` and `Monitor`: a process stays in its own ring, monitors its
  successor in it, always has an announcement ahead; a monitored node is always
  timed; the successor is told every change; nobody else than the successor is
  dropped, and nobody at all if nothing failed.
- The cluster: deaths are noticed, rings become equal once processes stay up.
- `MessageBus`, `Connection`: a request is handled and called back once at most, a
  call with the answer to its own Ping; a connection is in the pool or in use; a
  message is handled whole. A first read that ends within a size breaks what is said
  of answers and of whole messages, on its own connection and on no other.
- `Server`: the name a process announces is the port it listens on, and its own;
  only a host without a free port leaves one nameless; whoever connects is accepted.
- The program: a process that is signalled ends, whenever the signal comes.

`PROJECT.json` lists the hazards, each at its line with the properties that would
catch it.

## The modules

| Module | Models |
|---|---|
| `HashRing` | the pure part of `Ring`: `lower_bound` with wrap, the points of a node, who owns a position, who follows whom |
| `ConsistentHash` | abstract: what a consistent hash promises of joins and leaves |
| `Ring` | class `Ring` as a state machine; the loop of `preferenceList` step by step |
| `Membership` | one process: `Membership`, `Monitor`, the set of nodes of its `Ring`, its timers |
| `EventLoop` | one process with the queue of its `io_service`: polls that complete any messages and timers together, the others sending anything |
| `Cluster` | processes, messages under way, crashes and failures |
| `RequestChannel` | abstract: what `MessageBus` promises to its callers |
| `MessageBus` | the pool and the `ClientConnection`s to one address, the `Connection`s that serve them, broken connections and crashes |
| `Framing` | the bytes a `Connection` reads: sizes, first and second part |
| `ServerPort` | `Server`s of one host: the search for a port, the accept loop |
| `Shutdown` | `main`, its signal handler and the loop of asio's `task_io_service`, step by step |
| `MCRing`, `MCCluster`, `MCTicks`, `MCEventLoop`, `MCFraming` | instances for TLC; `MessageBus`, `ServerPort` and `Shutdown` need no definitions of their own for that |
| `RingProofs`, `MembershipProofs`, `EventLoopProofs`, `ClusterProofs`, `MessageBusProofs`, `FramingProofs`, `ServerPortProofs`, `ShutdownProofs` | theorems |

`Cluster` and `EventLoop` extend `Membership`, which extends `HashRing`; `Ring` extends
`HashRing` and instantiates `ConsistentHash`. `Membership` does not carry
`m_ring`: with the default of 100 points per node, which is all `Membership`
ever asks for, `m_ring` is the function `RingOf` of the set of nodes. That is
the theorem `RingIsFunction` of `RingProofs`.

**State.** `node[n]` of `Cluster` is the record of the objects of process `n`:
`physicalNodes` and `hasChanged` of its ring, `monitored` and `timer` of its
`Monitor`, the two announce timers of `Membership` (set or not: both run the
same handler). `sent` collects what a handler gives to the sockets and is empty
between handlers. `told`, a history variable that nothing reads, is the list
that last left in a Ping since the ring changed. A wait on the timer is the
handler and the node name bound to it.

**Actions.** The methods call each other synchronously, so in `Membership` each
is an operator from a state to a state with the name it has in the code, and a
handler is their composition: `DoMonitoring` contains the first ping of
`StartMonitoring` and the announcement of a process that finds itself alone.
An action of `Cluster` is one handler with all it does: `ReceiveAnnounce`
(`Finder::handleReceiveFrom`), `ReceiveNodeList` and `ReceivePing`
(`Connection::handleReceive`), `ReceivePong` and `ReceiveFailure`
(`Monitor::handlePing`), `TimerExpires` (`handleTimeout`, `handleSendNextPing`,
`announceTimeout`), `Start` (`Server::Server`). Every action of a message takes a
wait `w`: `NoWait`, or one that expired in the same poll, taken off its timer
before the handler runs and handled right after it. That is the race of the
first hazard.

`EventLoop` drops that restriction and the other processes. Its state is the
process, the queue of completions and, per node, the pings that may still be
answered. `Poll` is `epoll_reactor::run` on an empty queue: any sequence of reads
that are ready, then every timer that is due, in any order; `Run` is one turn of
`task_io_service::do_one`. The sockets give what any other process might send: each
announcement, the own one included, any list, an answer or an error for each ping.
So a Pong, an error of another call, an announcement and both kinds of timers may
all be queued before the first of them runs, and what one handler cancels may be
past cancelling. `Cluster` is what it takes to speak of several processes at once.

**The network.** `udp` has a copy of an announcement per listener, in any order,
lossy. `lists` are one-way. A call is a Ping under way, then its Pong, then an
error if the connection broke; several calls of one process are told apart by a
slot number, so an answer of an earlier call is not confused with a later one by
the model, only by the code. When a process dies, its calls disappear, but a Ping
it wrote may still be read (`from = None`).

**Connections.** `MessageBus` looks at what `Cluster` takes for granted. `cnx[c]` is a
`ClientConnection` with its socket and the operation whose handler holds it; the
reference counts of `IntrusivePoolBase` appear as `Release`, which runs at the end
of the handler that held the last reference: `MessageBus::release` puts the
connection in the pool and starts its keep-alive read, or lets it be deleted.
A message is a head and a tail, and so is a Pong, so that a read may end within one
or take more than one. A `send` is called back when it is written, so the next
message follows on the same connection before the server has read the first: that
is how two can arrive together. `Framing` has the reads of a `Connection` byte by
byte, with the size that is taken from however many bytes have come. `MessageBus`
implements `RequestChannel`, which is what a call and a list of `Cluster` are: a call
is answered or fails once, a message arrives once or never. A Ping that the server
drops is a call of `Cluster` whose answer does not come before its timeout.

Both `handleReceive` take the first read for a size, also if it has less than its
four bytes: the rest are zeros of the new buffer, so the size is too small. Either
no second read follows, or one that ends before the message. What this does differs
between the two sides. A `Connection` that cannot parse what it has is deleted, and
its socket closes (`ReadCut`, `Close`); one that can goes on with the end of the
message still to be read (`ReadRest`, `ReadGarbage`). A `ClientConnection` calls back
without an error, is not marked, and goes to the pool with the rest of the Pong still
to come (`ReadShort`). There the keep-alive read may take a byte of it
(`KeepAliveReads`), and the read after the next Ping takes what is left for the answer
(`ReadDone`) or for a size (`ReadPart`), and then waits for as many bytes as that
says, which come or not (`ReadAstray`). The history `cut` of a connection says that
this has happened to it, and `torn` is the set of calls that succeeded on such a
connection. Properties hold of all other connections and calls as before, and
`RequestChannel` allows a torn call to succeed without having been handled (`Tear`).
A cut Pong, of which the missing bytes are zeros, has no type and goes to the default
branch of `Monitor::handlePing`: the node is dropped as if the call had failed, which
is a failure of `Cluster`, a fault there. That a call is answered by
what is left of an earlier Pong is not in `Cluster`; if those bytes parse as a
Pong, the code keeps a node that did not answer until the next ping.

`ServerPort` has the steps of `bindAddress` as separate system calls of processes
that interleave: sockets with `reuse_address` may share a port until one of them
listens. `Cluster` tells processes apart by their names, which is what `NameIsOwn`
is for. Its processes do not run out of ports or of descriptors. `Configuration`
gives every process port 22000 and `portIsFixed` false, so the 16 bits of a port
are never exceeded.

`Shutdown` has the steps of `do_one` one by one, because a signal may come between
them: the test of `stopped_`, the operation taken, `task_interrupted_` set, the
poll, the handler. It shows a wake-up that is lost: a signal after the test finds
`task_interrupted_` still set from the poll before and wakes nobody, and then the
flag is cleared and the poll waits. `stop()` promises a return "as soon as possible"
(`io_service.hpp`, lines 370-376). The process ends all the same, because a timer
is always set (`NeverMute`), so with the next timer or message, and after one more
poll or handler at most (`OneMore`). What the signal handler prints is left
out with all logging.

**Abstractions.** Names and hashes are numbers, of which only the order is used.
MD5 is a constant function without collisions (`NoCollision`). In `Ring::add`,
`ss.clear()` resets the flags of the stream and not its text, so the strings that
are hashed grow from point to point; `PointHash[m][i]` is the hash of the i-th
string whichever it is. Durations are left
out: any armed timer may expire at any time, but for `Timely`. The payload of a
message is the set of nodes it carries. The models are of the default build of
`SConstruct` (`NDEBUG`), in which traces and assertions are empty. In the other
build, the trace at `message_bus.cpp:60` throws after a failed connect and ends
the sender.

## The runs

| Run | Question |
|---|---|
| `ring` | Is `Ring` a consistent hash with right and finite preference lists under every history? |
| `two` | Do the timers, the calls under way and the ring of a process stay consistent with no bound on the timers and two faults? |
| `three` | Does the monitor follow the ring where the successor changes, as others join, crash or are dropped? Is a live node ever dropped when nothing fails? |
| `loop` | Does any order of what is queued in one process break its monitor, make it announce itself without need, or let it keep a silent successor? |
| `live` | Do rings heal, and are deaths noticed? |
| `bus` | Is `MessageBus` a request channel, does each call get its own answer, and is every request called back, whatever breaks? A cut Pong spoils the answers on its own connection and no other. Not called back are those that the server dropped with another message, that wait behind such a one, or that wait for a size read where none is. |
| `framing` | Are messages of any size handled whole and in order if they do not arrive together? |
| `port` | Are the names of processes that look for a port at once their own, does no search pass over a free port, and are connections accepted? One that loses its port in `listen()` ends by an exception instead, whatever is free. |
| `shutdown` | Does a process that is signalled end, wherever the signal finds it, and how much does it still do? |
| `found_open` | Is a connection that is taken from the pool connected? Not always. |
| `one_list` | Does one member only answer a newcomer? It does not. |
| `pong_list` | Is the list of a Pong merged? It is not. |

**Bounds.** `MaxCalls`, `MaxCallsOf`: pings under way at once, of all and of one
process; a step that would send one more is not taken. Two of one process are
needed to confuse an answer with an earlier call: `two` and `three` have them, and
`live`, where timeouts wait for answers, has one. `MaxFaults` counts crashes, lost
datagrams, lists lost on the way to a process that runs, and connections that
break; losses caused by a crash are not counted again. `MaxEvents` and
`MaxRestarts` (module `MCTicks` only) count timers that expire or faults, and
processes that start again in a behaviour: without them three processes that may
announce themselves for ever exceed what TLC can visit. The three of `three` have one
such event and do not restart; `two` has two faults, restarts and any number of
timers, and `loop` any number of polls. Three
processes are the least with which a successor can change while both stay up,
with which a newcomer can have two members to answer it, and with which a death
is followed by a turn to another node. `ring` has three nodes of one or two
points that alternate on the ring, positions before, between, on and after the
points, and lists longer than there are nodes. Points are one per node in the
cluster instances, because the ring matters there only for `NextNode`; in `three` and
`live` they lie so that a newcomer may be one to whom no member sends a list.

`loop` has the process in the middle of three names, lists of every other node, two
reads per poll and one ping per node that may still be answered: enough for a Pong
and an error, or an error and an announcement, to come together before an expired
timeout of each kind. A ping beyond the bound is one that is never answered, so an
answer may still be that of an earlier ping to the same node. Three reads before one
expired timeout are beyond the bound; the proofs of `EventLoop` have none.

`bus` has a node list and two Pings, two connections and two faults: enough for a
list and a Ping to arrive together with another Ping behind them, for both
connections to be pooled, for a connection to break after another was lost, and for
a Pong to be cut and the next Ping to meet what is left of it. Here `MaxFaults` counts
the reads of less than a size as well, so two of them, or one and a crash.
In `framing` a byte has four values, a size two bytes and a buffer five: the six
messages are smaller than, as large as and larger than the buffer, and one has a size whose first byte is zero. In `port`
three processes look for one of two ports, so that one finds none, and one
descriptor is too few for two connections. In `shutdown` three completions and two
signals are enough for a signal to be lost and another to come after it.

Deadlock is checked in `ring`, `two`, `live` and `loop`. In the runs of `MCTicks` the
budget of timers runs out and the system stops. So it does in `MessageBus` and
`Framing` when all messages are done, in `ServerPort` when nothing listens any
more, and in `Shutdown` when the process has ended.

**What the findings say.** `pong_list`: `Monitor::handlePing` looks for the list of
a Pong in the field of a Ping, so the list that `Connection` takes care to send
back is dropped. The rings become equal later all the same, through
announcements and lists, as `live` shows. `one_list`: with rings that
differ, two members take themselves for the node after a newcomer. It does no
harm, for lists are merged. `found_open`: a connection whose connect failed goes to the
pool, because nothing marks it; the next message to a node that has just come back
is written to it and fails, and the monitor takes the node for dead again.

More facts show as exceptions in properties that hold, which therefore say nothing
of these cases: a Pong whose size arrives in pieces is taken for complete, and what
is left of it may answer the next Ping on that connection (`AnswerIsOwn`,
`PoolIsQuiet`, `IsRequestChannel`; without the exception TLC finds that answer); a
Ping that reaches the server in one read with the node list before it is never
answered, and one that waits for a size read from what is left of a Pong
may wait for ever (`CalledBack`); a first read of a part of a size, or of more than a
message, ends what is said of a connection (`NothingLost`, `Delivered`); one accept
that fails is the last (`Served`); a process without a port announces 0.0.0.0:0, as does
any other that found none (`NameIsOwn`). `OnlySuccessorDropped` permits a timeout
that is past cancelling to drop a node that was dropped, added again and monitored
anew in between: it is the successor. `Wakeable` and `Stops` permit a signal that
wakes nobody; they say that a later one does, and that the process ends with the
next timer. `WalkEnds` is for rings in which each physical node has a point
(`CountsAssumption`): one added with none would count and never be found, and
nothing in the program adds such a one.

**Fairness.** `FairSpec` assumes weak fairness of, per process: the timer of the
monitor; the announce timers; announcements; lists; pings; answers. The queue of
asio is first in, first out and `run()` stops only for a signal, which is a crash
to the others, so a completion that is queued is run; the reactor hands over every socket that is ready. Answers and
errors are one assumption because they end the same kind of call. The two
announce timers are one as well, since `receivedNodeList` moves
`m_nextAnnounceTimer` forward each time and either is followed by an
announcement. Each is stated for a round in which no other wait expires, so that
it does not force a race to happen. `CallFails` is fair because the operating
system refuses or resets connections to a process that died. Nothing is assumed
of restarts, and faults are finitely many only by their bound. `Timely`, in `live`
and `three`, says that a ping does not time out while its answer can still come:
5 seconds on a network that delivers. Without it a live node may be dropped and
found again for ever, so neither `NoFalseDown` nor `Convergence` holds; `two`, `loop`
and the proofs, but for `NobodyDropped`, are without it. `DeathNoticed` says that no
process monitors a dead one for ever: again and again what it monitors runs, or is
nothing.

In `EventLoop` what is queued is run, and a poll takes the monitor's timer whenever
it is set again and again: strong fairness, because a poll is possible only while
the queue is empty, and time passes whether it is or not. In `Shutdown` the
thread runs, and a poll that waits ends with the next timer if with nothing else.
In `MessageBus` a connection's completions are run and the sockets of both sides are
read; nothing is assumed of a server that is down, for a connect then fails, nor of
the reads that end within a size or wait for a wrong number of bytes (`Astray`). In
`Framing` what has arrived is read. In `ServerPort` a process runs, and an accept that
can be completed is completed, with a connection or with an error.

`live` has two processes: what three do under fairness is beyond TLC's reach here.
Whether a death is noticed depends on the predecessor only, but healing of
three rings is not checked.

## The proofs

`MembershipProofs` has lemmas about one handler; `EventLoopProofs` and
`ClusterProofs` lift them to one process with any queue and to every cluster: any
set of processes, any number of points, any bound. Assumptions are those of
`HashRing`, `Membership` and the module itself: names and hashes are natural numbers,
no two nodes share a point, bounds are numbers.

- `Good(n, s, W)` is what holds of the state `s` of process `n` while the waits `W`
  have expired and are still to be handled: the types, that the process is in its own
  ring, that it monitors its successor, that a monitored node has a wait on the timer
  or in `W`, that an announcement is ahead on a timer or in `W`, that the successor is
  told every change. None of these is inductive alone: that the successor is monitored
  needs that a process is in its own ring, for its name is where the search starts;
  that a monitored node is timed needs the type of the wait a handler finds. Each
  handler leads from a good state to a good one, with the wait it handles taken off
  `W`.
- `EventLoopProofs`: the invariant is `Good` with the waits in the queue. A poll moves
  waits from the timers to the queue, which `Good` does not see. Theorems
  `TypeCorrect`, `SuccessorMonitored`, `MonitorTimed`, `AnnouncementAhead`,
  `SuccessorTold`; and, as action properties, `SuccessorDropped` and `StormFree`.
- `ClusterProofs`: the invariant is `Good` of every process with no wait left, for an
  action handles the wait it takes along. Theorems `TypeCorrect`, `SelfStays`,
  `SuccessorMonitored`, `AnnouncementAhead` (of `NeverMute`, which no run repeats for
  `Cluster`), `MonitorTimed`, `SuccessorTold`.
- `SuccessorDropped` follows from the invariant before the step, handler by handler:
  the only removal is behind the comparison with `m_monitoredNode`, which the
  invariant says is the successor.
- `PingBacked` (a process that waits for a Pong has a call under way) relates the
  processes to the network: every call that leaves the network does so in the
  handler of its answer, which ends the wait, or with its client.
- `NobodyDropped` (of `NoFalseDown`) and `RingsAreOfRunning`: `KInv` says that, as long as
  there was no fault, every name a process knows, remembers, has told or that is in a
  message under way is that of a process that runs, and no call has failed.
  `MembershipProofs` shows of each operator that it puts no name anywhere that it did
  not get (`Within`). A node is then dropped only by a timeout, for which the process
  must wait for a Pong; by `PingBacked` the call is still under way, its server runs,
  and `Timely` lets no timeout be handled. `RingsAreOfRunning` does without `Timely`: who
  is dropped by a late answer was running, and is only missing.
- `OneListPerRing`: a list is sent by the node after the newcomer in the ring that the
  list is (`Chosen`, for each operator of `Membership`; `LInv`, for the lists under way), so
  two lists with the same content to the same newcomer have the same sender. This is
  the comment at `membership.cpp:71` as far as it holds; that the rings may differ is
  the finding `one_list`.
- `MessageBusProofs`, for any number of connections and requests: `PoolInv` says that a
  connection is in the pool or has one request, and no request has two; `UseInv`,
  what the operation and the keep-alive read of a connection say of each other;
  `PlaceInv`, where the parts of a request can be, on one connection at most and
  nowhere before it is written; `WireInv`, that a head is followed by its tail unless
  the connection broke, and is that of a request not handled yet; `CleanInv`, of each
  connection that is not cut, that only the call it has can be on it unhandled and
  that what is on its way back is the rest of the Pong of that call. `AnswersOwn` and
  `QuietPool` follow. A cut connection may have anything on its way back; that this
  touches no other needs only that connections share nothing but the pool, which
  `PoolInv` says. `Refinement` shows each step to be a `Submit`, `Handle`, `CallBack` or
  `Tear` of `RequestChannel` or a stutter: that a request is handled once at most needs
  that a head on a connection is that of a request not handled yet, that a call
  succeeds only when handled needs `CleanInv`, and that nothing is torn before a call
  that was handled is part of `UseInv`. `CallbackAhead`: `WaitInv` adds that
  every pending request has a connection (`Carried`), and of each connection (`Served`)
  that what is up has a `Connection` at the other side, and that a call written to it
  with nothing on its way back (`Awaits`) is on the stream unhandled or was dropped
  (`Due`). So something is still to happen on its connection (`MayGoOn`; on the
  instance of `bus` that is a step the specification allows), or it is the second read
  of a connection that is cut.
- `FramingProofs`: `InStep` says that as long as no first read was mixed, the reader
  stands at the beginning of the message after those handled, or as many bytes before
  its end as it waits for. `Missing` and `SizeRead` give the right number only for a
  read that got the size. Theorems `TypeCorrect` and `WholeInOrder`. `NothingWaits`: what
  the reader waits for has been written, so it may read or has handled everything.
- `RingProofs`: the invariant `RInv` says that the ring has just the points of its
  members and that what is looked for is never more than there is. From
  `NoCollision` the node at a point is unique, so the owner of a position changes
  only if the first point after it comes or goes (`LookupSubset`). Hence
  `Refinement`: `Ring` implements `ConsistentHash`. `WalkInv` says that the nodes of all
  points between the key and the iterator have been found; so the next one found owns
  the key without them (`PreferenceFollowsFailover`). `LoopIsFinite`: every turn of the
  loop takes a point that was not passed before, for as long as a node is missing from
  the list there is such a point; so the number of points not passed is a natural
  number that each turn decreases. Also `TypeCorrect`,
  `RingIsOfMembers`, `ChangeReported`, `RingIsFunction`.
- `ServerPortProofs`: `NameIsOwn` speaks of names only; the invariant adds how they
  come about: a process that listens is alone on its port, and one that came out
  of the search with a port listens (`NamesAreOwn`, `TypeCorrect`). `PassedInv`: until
  a process dies, the ports a search has left behind it are taken (`NoPortSkipped`).
- `ShutdownProofs`: the task leaves the queue only for the poll that puts it back
  (`NeverWaits`), and what is taken up after a signal leads back to the test
  (`StopsSoon`); `PollEnds`, `TypeCorrect`.

Only model-checked are the liveness properties `WalkEnds`, `Convergence`,
`DeathNoticed`, `SilentDropped`, `CalledBack`, `Delivered`, `Served` and `Stops`, which are out
of the prover's reach, and the findings. What is safety in them is proved where it
says something of its own: a variant of the loop for `WalkEnds` (`LoopIsFinite`), that
something is still to happen for `CalledBack` (`CallbackAhead`) and `Delivered`
(`NothingWaits`), a timer ahead for `DeathNoticed` and `SilentDropped` (`MonitorTimed`), one poll
or handler at most, and a poll that can be ended, for `Stops` (`StopsSoon`, `PollEnds`).
What is left of them is fairness.

## Not modelled

- In `Cluster`, an answer made of what is left of an earlier Pong (`Tear`): its calls
  are answered by the node they were sent to or fail.
- What happens after `run()` has returned. The `MessageBus`, a local of `main`, is then
  destroyed before the global `io_service`, whose pending handlers may hold the last
  reference to a `ClientConnection` and release it to the bus that is gone
  (`asio.hpp:99-109`). Nothing in the repository states what should happen there.
- That copies of a `SharedBuffer` share one vector; the wire format of protobuf, but
  that a zero byte after a message ends its parsing, so that what follows it in the
  buffer is dropped; joining the multicast group, one call at the start.
- The other build (without `NDEBUG`): its one difference in behaviour is the trace at
  `message_bus.cpp:60`, a crash of the sender.
- `StringHash` (MD5 is third-party code and the ring only compares hashes),
  `Configuration` but for the port (constants and a question to the operating
  system), logging and the timer of `util`, the benchmark `testRing.cpp`.
- The vendored boost, protobuf, glog and their tests, of which only what the program's
  own correctness rests on is used: the loop of `task_io_service`, the order of a
  poll's completions, the cancelling of timers. They are nearly all of the files of
  the repository, so the models stand for a small share of its lines. Of the program
  itself, `src/src/distmap`, they stand for most of the lines of the files with its
  logic (`ring`, `membership`, `monitor`, `message_bus`, `connection`, `server`).

## Plan

Done: all modules of the table, their runs and the theorems above. What could be
added, with what stands against it:

1. Healing of three rings (`Convergence` with three processes) exceeds TLC; it would take
   an abstraction of the network, sets of names that may still be announced.
2. The data that `SharedBuffer` shares, if a buffer is ever written after it was sent.
