----------------------------- MODULE MessageBus -----------------------------
(***************************************************************************)
(* MessageBus and its ClientConnections (message_bus.cpp) to one address,  *)
(* and the Connections that serve them there (connection.cpp).             *)
(*                                                                         *)
(* A ClientConnection lives as long as something refers to it: the list of *)
(* the pool, or the handler of an operation under way.  When the last      *)
(* reference goes, it puts itself in the pool, or is deleted if it is      *)
(* marked with an error or was in the pool already.  While it waits in the *)
(* pool it reads, to see the other side close.                             *)
(*                                                                         *)
(* A message and a Pong are a head and a tail, so that a read may end in   *)
(* the middle of one or take more than one.                                *)
(*                                                                         *)
(* A first read may also take less than the four bytes of a size, which    *)
(* both handleReceive then read over a buffer of zeros: the size they get  *)
(* is too small.  The Connection closes, or it handles a message whose end *)
(* was not read.  The ClientConnection runs the callback with no error and *)
(* goes to the pool, with the rest of the Pong still to come: it is cut.   *)
(***************************************************************************)
EXTENDS Naturals, Sequences, FiniteSets

CONSTANTS
  Conn,       \* bound: the connections that exist at once
  Send, Call, \* the messages of MessageBus::send and sendAndReceive
  None,
  MaxFaults   \* bound: crashes, broken connections and reads of less than a size

ASSUME RequestAssumption ==
  Send \cap Call = {} /\ None \notin Send \cup Call /\ MaxFaults \in Nat

VARIABLES
  pool,       \* m_pool[address]
  cnx,        \* the ClientConnections and their sockets
  stream,     \* stream[c]: bytes on their way to the server
  reply,      \* reply[c]: bytes of Pongs on their way back
  peer,       \* peer[c]: what the Connection of c waits for
  listening,  \* the server runs
  req,        \* the callback of each request
  answer,     \* history: the request whose Pong a callback got
  torn,       \* history: calls that succeeded on a connection that was cut
  handled,    \* history: requests that reached Membership at the server
  skipped,    \* history: requests the server read and dropped
  faults

wire  == <<stream, reply, peer, listening>>
seen  == <<handled, skipped>>
got   == <<answer, torn>>
vars  == <<pool, cnx, wire, req, got, seen, faults>>

Request == Send \cup Call

Part == [of : Request, part : {"head", "tail"}]
Pong == [of : Call, part : {"head", "tail"}]

Whole(r) == <<[of |-> r, part |-> "head"], [of |-> r, part |-> "tail"]>>

\* bus: m_pool is not NULL.  op: the operation under way for req; unwritten: a
\* write that has failed.  keep: the keep-alive read; failed, aborted, taken (it
\* got a byte): its completion is queued.  cut: history, a read has left a part
\* of a Pong behind.
Connection ==
  [made  : BOOLEAN,
   bus   : BOOLEAN,
   error : BOOLEAN,
   link  : {"none", "up", "shut"},
   op    : {"none", "connect", "write", "unwritten", "read", "rest"},
   keep  : {"none", "reading", "failed", "aborted", "taken"},
   cut   : BOOLEAN,
   req   : Request \cup {None}]

\* No object, or one that was deleted.
Absent ==
  [made |-> FALSE, bus |-> FALSE, error |-> FALSE, link |-> "none",
   op |-> "none", keep |-> "none", cut |-> FALSE, req |-> None]

TypeOK ==
  /\ pool \in Seq(Conn)
  /\ cnx \in [Conn -> Connection]
  /\ stream \in [Conn -> Seq(Part)]
  /\ reply \in [Conn -> Seq(Pong)]
  /\ peer \in [Conn -> {"none", "first", "rest", "stuck", "writing"}]
  /\ listening \in BOOLEAN
  /\ req \in [Request -> {"idle", "pending", "ok", "failed"}]
  /\ answer \in [Call -> Call \cup {None}]
  /\ torn \subseteq Call
  /\ handled \subseteq Request
  /\ skipped \subseteq Request
  /\ faults \in 0 .. MaxFaults

Init ==
  /\ pool = <<>>
  /\ cnx = [c \in Conn |-> Absent]
  /\ stream = [c \in Conn |-> <<>>]
  /\ reply = [c \in Conn |-> <<>>]
  /\ peer = [c \in Conn |-> "none"]
  /\ listening = TRUE
  /\ req = [r \in Request |-> "idle"]
  /\ answer = [r \in Call |-> None]
  /\ torn = {}
  /\ handled = {}
  /\ skipped = {}
  /\ faults = 0

Items(s) == {s[i] : i \in DOMAIN s}

\* What is left of the bytes s when k parts are read, and what may arrive of them
\* when the connection ends.
Past(s, k) == SubSeq(s, k + 1, Len(s))
Prefixes(s) == {SubSeq(s, 1, n) : n \in 0 .. Len(s)}

Fault == faults < MaxFaults /\ faults' = faults + 1

-----------------------------------------------------------------------------
(* The client                                                              *)

\* ClientConnection::send and sendAndReceive on c, in the state s: the write is
\* tried at once, its completion is queued.  The first write after the other
\* side has closed may succeed.
Write(f, c, s, r) ==
  \E written \in CASE s.link = "up"   -> {TRUE}
                   [] s.link = "none" -> {FALSE}
                   [] OTHER           -> BOOLEAN :
    /\ cnx' = [f EXCEPT ![c] =
                 [s EXCEPT !.req = r,
                           !.op  = IF written THEN "write" ELSE "unwritten"]]
    /\ stream' = IF s.link = "up"
                 THEN [stream EXCEPT ![c] = @ \o Whole(r)]
                 ELSE stream

\* The handler of c returns, and with it goes the last reference to c, whose
\* state is s.  It is deleted, or goes to the pool and reads there; the read of
\* a socket that never connected fails.
Release(c, s) ==
  IF s.error \/ ~s.bus
  THEN /\ cnx' = [cnx EXCEPT ![c] = Absent]
       /\ UNCHANGED pool
  ELSE /\ cnx' = [cnx EXCEPT ![c] =
                    [s EXCEPT !.bus = FALSE, !.op = "none", !.req = None,
                              !.keep = IF s.link = "none" THEN "failed" ELSE "reading"]]
       /\ pool' = <<c>> \o pool

\* Mutants: an error is not passed on; the callback runs only on success.
CallBackOk(r, outcome) == req[r] = "pending" /\ req' = [req EXCEPT ![r] = "ok"]
CallBackSilent(r, outcome) == req' = [req EXCEPT ![r] = IF outcome = "ok" THEN "ok" ELSE @]

CallBack(r, outcome) ==
  /\ req[r] = "pending"
  /\ req' = [req EXCEPT ![r] = outcome]

\* Mutant: the connection that is used stays in the pool.
AfterKept(i) == SubSeq(pool, i, Len(pool))

After(i) == SubSeq(pool, i + 1, Len(pool))

Usable == {i \in DOMAIN pool : ~cnx[pool[i]].error}

\* getConnection finds a connection; those before it are deleted.  The
\* keep-alive read is cancelled, unless it has failed already.  The socket is
\* open (is_open()), connected or not: the message is written.
Reuse(r) ==
  \E i \in Usable :
    /\ \A j \in Usable : i <= j
    /\ LET c    == pool[i]
           s    == [cnx[c] EXCEPT !.bus  = TRUE,
                                  !.keep = IF @ = "reading" THEN "aborted" ELSE @]
           gone == {pool[j] : j \in 1 .. i - 1}
       IN  Write([d \in Conn |-> IF d \in gone THEN Absent ELSE cnx[d]], c, s, r)
    /\ pool' = After(i)
    /\ UNCHANGED reply

Free == {c \in Conn : ~cnx[c].made /\ peer[c] = "none"}

\* getConnection makes one, and it connects.
Connect(r) ==
  /\ Usable = {} /\ Free # {}
  /\ LET c == CHOOSE d \in Free : TRUE
         s == [Absent EXCEPT !.made = TRUE, !.bus = TRUE, !.op = "connect", !.req = r]
     IN  /\ cnx' = [d \in Conn |-> CASE d = c           -> s
                                     [] d \in Items(pool) -> Absent
                                     [] OTHER           -> cnx[d]]
         /\ stream' = [stream EXCEPT ![c] = <<>>]
         /\ reply' = [reply EXCEPT ![c] = <<>>]
  /\ pool' = <<>>

\* MessageBus::send and sendAndReceive
Submit(r) ==
  /\ req[r] = "idle"
  /\ req' = [req EXCEPT ![r] = "pending"]
  /\ Reuse(r) \/ Connect(r)
  /\ UNCHANGED <<peer, listening, got, seen, faults>>

\* The completions of c are run in the order they were queued in.
Runs(c) == cnx[c].keep = "none"

\* handleConnect, handleConnectSendReceive: a failure does not mark the
\* connection.  The server has accepted what connects.
ConnectSucceeds(c) ==
  /\ Runs(c) /\ cnx[c].op = "connect" /\ listening
  /\ Write(cnx, c, [cnx[c] EXCEPT !.link = "up"], cnx[c].req)
  /\ peer' = [peer EXCEPT ![c] = "first"]
  /\ UNCHANGED <<pool, reply, listening, req, got, seen, faults>>

ConnectFails(c) ==
  /\ Runs(c) /\ cnx[c].op = "connect" /\ ~listening
  /\ CallBack(cnx[c].req, "failed")
  /\ Release(c, cnx[c])
  /\ UNCHANGED <<wire, got, seen, faults>>

\* handleSend, handleSendReceive
WriteDone(c) ==
  /\ Runs(c) /\ cnx[c].op = "write"
  /\ IF cnx[c].req \in Send
     THEN CallBack(cnx[c].req, "ok") /\ Release(c, cnx[c])
     ELSE cnx' = [cnx EXCEPT ![c].op = "read"] /\ UNCHANGED <<pool, req>>
  /\ UNCHANGED <<wire, got, seen, faults>>

WriteFailed(c) ==
  /\ Runs(c) /\ cnx[c].op = "unwritten"
  /\ CallBack(cnx[c].req, "failed")
  /\ Release(c, [cnx[c] EXCEPT !.error = TRUE])
  /\ UNCHANGED <<wire, got, seen, faults>>

\* handleReceive with a buffer it takes for a complete Pong: k parts are read (0: a
\* piece of the first), the callback runs with no error, and c, in the state s,
\* is released.
Got(c, k, s) ==
  /\ CallBack(s.req, "ok")
  /\ answer' = [answer EXCEPT ![s.req] = Head(reply[c]).of]
  /\ torn' = IF s.cut THEN torn \cup {s.req} ELSE torn
  /\ reply' = [reply EXCEPT ![c] = Past(@, k)]
  /\ Release(c, s)
  /\ UNCHANGED <<stream, peer, listening, seen>>

Reads(c, op) == Runs(c) /\ cnx[c].op = op /\ reply[c] # <<>>

\* handleReceive, a part of a Pong: the rest is read.  What is left of an earlier
\* one, of any length, is taken for a size and a part.
ReadPart(c, k) ==
  /\ Reads(c, "read") /\ k \in 0 .. Len(reply[c])
  /\ Head(reply[c]).part = "head" => k = 1
  /\ cnx' = [cnx EXCEPT ![c].op = "rest"]
  /\ reply' = [reply EXCEPT ![c] = Past(@, k)]
  /\ UNCHANGED <<pool, stream, peer, listening, req, got, seen, faults>>

\* handleReceive, a complete Pong in one read or in two, or what is left of an
\* earlier one taken for it.
ReadDone(c, k) ==
  /\ k \in 0 .. Len(reply[c])
  /\ \/ Reads(c, "read") /\ (Head(reply[c]).part = "head" => k >= 2)
     \/ Reads(c, "rest") /\ ~cnx[c].cut /\ k = 1
  /\ Got(c, k, cnx[c])
  /\ UNCHANGED faults

\* The first read takes less than a size.  If the size it then finds is not
\* more than it took, there is no second one; the second one ends before the Pong.
ReadShort(c) ==
  /\ Fault
  /\ \/ Reads(c, "read") /\ Head(reply[c]).part = "head"
        /\ Got(c, 1, [cnx[c] EXCEPT !.cut = TRUE])
     \/ Reads(c, "rest") /\ ~cnx[c].cut
        /\ Got(c, 0, [cnx[c] EXCEPT !.cut = TRUE])

\* The second read of a connection that is cut waits for a number of bytes that may
\* come or not.  That such a connection may find the place of a size again is not
\* kept track of.
ReadAstray(c, k) ==
  /\ Reads(c, "rest") /\ cnx[c].cut /\ k \in 0 .. Len(reply[c])
  /\ Got(c, k, cnx[c])
  /\ UNCHANGED faults

\* handleReceive, an error
ReadFailed(c) ==
  /\ Runs(c) /\ cnx[c].op \in {"read", "rest"} /\ cnx[c].link = "shut"
  /\ reply[c] = <<>> \/ (cnx[c].op = "rest" /\ cnx[c].cut)
  /\ CallBack(cnx[c].req, "failed")
  /\ Release(c, [cnx[c] EXCEPT !.error = TRUE])
  /\ UNCHANGED <<wire, got, seen, faults>>

\* The reactor completes the keep-alive read of a connection that was closed.
KeepAliveEnds(c) ==
  /\ cnx[c].keep = "reading" /\ cnx[c].link = "shut" /\ reply[c] = <<>>
  /\ cnx' = [cnx EXCEPT ![c].keep = "failed"]
  /\ UNCHANGED <<pool, wire, req, got, seen, faults>>

\* The keep-alive read takes one byte of a Pong: the first, or one of what is left.
KeepAliveReads(c, k) ==
  /\ cnx[c].keep = "reading" /\ reply[c] # <<>>
  /\ k \in {0, 1} /\ (Head(reply[c]).part = "head" => k = 1)
  /\ cnx' = [cnx EXCEPT ![c].keep = "taken"]
  /\ reply' = [reply EXCEPT ![c] = Past(@, k)]
  /\ UNCHANGED <<pool, stream, peer, listening, req, got, seen, faults>>

HandleKeepAlive(c) ==
  /\ cnx[c].keep \in {"failed", "aborted", "taken"}
  /\ cnx' = [cnx EXCEPT ![c].keep  = "none",
                        ![c].error = @ \/ cnx[c].keep = "failed"]
  /\ UNCHANGED <<pool, wire, req, got, seen, faults>>

-----------------------------------------------------------------------------
(* The server                                                              *)

\* Mutant: every message is answered.
AnswersAll(r) == TRUE

Answers(r) == r \in Call

\* handleReceive with the complete message r.  The Pong of a Ping is written
\* to a socket that may be closed by now.
Receive(c, r) ==
  /\ handled' = handled \cup {r}
  /\ peer' = [peer EXCEPT ![c] = IF Answers(r) THEN "writing" ELSE "first"]
  /\ reply' = [reply EXCEPT ![c] = IF Answers(r) /\ cnx[c].link = "up"
                                   THEN @ \o Whole(r) ELSE @]

\* The first read takes k parts.  Of a head alone it reads the rest; what comes
\* after a complete message is dropped with the buffer.
ReadFirst(c, k) ==
  /\ peer[c] = "first" /\ k \in DOMAIN stream[c]
  /\ stream[c][1].part = "head"
  /\ stream' = [stream EXCEPT ![c] = Past(@, k)]
  /\ IF k = 1
     THEN peer' = [peer EXCEPT ![c] = "rest"] /\ UNCHANGED <<reply, seen>>
     ELSE /\ Receive(c, stream[c][1].of)
          /\ skipped' = skipped \cup {stream[c][i].of : i \in 3 .. k}
  /\ UNCHANGED <<pool, cnx, listening, req, got, faults>>

\* A size read from less than four bytes is too small: the tail stays behind.
ReadRest(c) ==
  /\ peer[c] = "rest" /\ stream[c] # <<>>
  /\ \/ stream' = [stream EXCEPT ![c] = Tail(@)] /\ UNCHANGED faults
     \/ UNCHANGED stream /\ Fault
  /\ Receive(c, Head(stream[c]).of)
  /\ UNCHANGED <<pool, cnx, listening, req, got, skipped>>

\* The message is invalid: nothing more is read, the Connection is deleted and its
\* socket closes.
Close(c) ==
  /\ peer' = [peer EXCEPT ![c] = "none"]
  /\ stream' = [stream EXCEPT ![c] = <<>>]
  /\ \E left \in Prefixes(reply[c]) : reply' = [reply EXCEPT ![c] = left]
  /\ skipped' = skipped \cup ({p.of : p \in Items(stream[c])} \ handled)
  /\ cnx' = [cnx EXCEPT ![c].link = IF @ = "up" THEN "shut" ELSE @]

\* The first read takes less than a size and is taken for a message.
ReadCut(c) ==
  /\ peer[c] = "first" /\ stream[c] # <<>> /\ stream[c][1].part = "head"
  /\ Close(c) /\ Fault
  /\ UNCHANGED <<pool, listening, req, got, handled>>

\* What is left of a message is taken for a size and a message: the rest of it never
\* comes, though all that comes is read for it, or it is invalid.
ReadGarbage(c, k) ==
  /\ k \in DOMAIN stream[c]
  /\ peer[c] = "stuck" \/ (peer[c] = "first" /\ stream[c][1].part = "tail")
  /\ \/ /\ peer' = [peer EXCEPT ![c] = "stuck"]
        /\ stream' = [stream EXCEPT ![c] = Past(@, k)]
        /\ skipped' = skipped \cup ({stream[c][i].of : i \in 1 .. k} \ handled)
        /\ UNCHANGED <<cnx, reply>>
     \/ Close(c)
  /\ UNCHANGED <<pool, listening, req, got, handled, faults>>

\* Connection::handleSend
PongSent(c) ==
  /\ peer[c] = "writing"
  /\ peer' = [peer EXCEPT ![c] = IF cnx[c].link = "up" THEN "first" ELSE "none"]
  /\ UNCHANGED <<pool, cnx, stream, reply, listening, req, got, seen, faults>>

\* The client has closed and all it wrote was read: a read fails.
ReadEnds(c) ==
  /\ peer[c] \in {"first", "rest", "stuck"}
  /\ stream[c] = <<>> /\ cnx[c].link # "up"
  /\ peer' = [peer EXCEPT ![c] = "none"]
  /\ UNCHANGED <<pool, cnx, stream, reply, listening, req, got, seen, faults>>

-----------------------------------------------------------------------------
(* Failures                                                                *)

\* The Pongs under way from the server arrive up to some byte.
ServerDies ==
  /\ listening /\ Fault
  /\ listening' = FALSE
  /\ peer' = [c \in Conn |-> "none"]
  /\ stream' = [c \in Conn |-> <<>>]
  /\ reply' \in {left \in [Conn -> UNION {Prefixes(reply[c]) : c \in Conn}] :
                  \A c \in Conn : left[c] \in Prefixes(reply[c])}
  /\ cnx' = [c \in Conn |-> [cnx[c] EXCEPT !.link = IF @ = "up" THEN "shut" ELSE @]]
  /\ UNCHANGED <<pool, req, got, seen>>

ServerStarts ==
  /\ ~listening
  /\ listening' = TRUE
  /\ UNCHANGED <<pool, cnx, stream, reply, peer, req, got, seen, faults>>

\* The server still reads what has arrived.
LinkBreaks(c) ==
  /\ cnx[c].link = "up" /\ Fault
  /\ cnx' = [cnx EXCEPT ![c].link = "shut"]
  /\ \E left \in Prefixes(stream[c]) : stream' = [stream EXCEPT ![c] = left]
  /\ \E left \in Prefixes(reply[c]) : reply' = [reply EXCEPT ![c] = left]
  /\ UNCHANGED <<pool, peer, listening, req, got, seen>>

-----------------------------------------------------------------------------
Client(c) ==
  \/ ConnectSucceeds(c) \/ ConnectFails(c)
  \/ WriteDone(c) \/ WriteFailed(c)
  \/ \E k \in 0 .. Len(reply[c]) :
       ReadPart(c, k) \/ ReadDone(c, k) \/ KeepAliveReads(c, k)
  \/ ReadFailed(c) \/ KeepAliveEnds(c) \/ HandleKeepAlive(c)

\* The reads that lose the place of the size.
Astray(c) ==
  \/ ReadShort(c) \/ \E k \in 0 .. Len(reply[c]) : ReadAstray(c, k)
  \/ ReadCut(c)

Server(c) ==
  \/ \E k \in DOMAIN stream[c] : ReadFirst(c, k) \/ ReadGarbage(c, k)
  \/ ReadRest(c) \/ PongSent(c) \/ ReadEnds(c)

Next ==
  \/ \E r \in Request : Submit(r)
  \/ \E c \in Conn : Client(c) \/ Server(c) \/ Astray(c) \/ LinkBreaks(c)
  \/ ServerDies
  \/ ServerStarts

Spec == Init /\ [][Next]_vars

\* Both io_services run what is queued; the sockets of both sides are read.
FairSpec == Spec /\ \A c \in Conn : WF_vars(Client(c)) /\ WF_vars(Server(c))

-----------------------------------------------------------------------------
\* A callback gets the Pong of its own Ping, though Pongs carry no name and
\* connections are used again: Monitor takes any Pong for its own.  A read of less
\* than a size spoils the answers of the connection it is on, and of no other.
AnswerIsOwn == \A r \in Call : r \in torn \/ answer[r] \in {r, None}

\* A ClientConnection is in the pool or in use, never both, and none is lost by
\* IntrusivePoolBase.  In the pool it is there once and, unless it is cut, nothing is
\* to come back on it: the keep-alive read takes no byte of a Pong, and no two
\* requests share it.
PoolIsQuiet ==
  /\ \A c \in Conn :
       cnx[c].made => (c \in Items(pool) <=> cnx[c].op = "none")
  /\ \A i, j \in DOMAIN pool : pool[i] = pool[j] => i = j
  /\ \A c \in Items(pool) :
       \/ cnx[c].cut
       \/ /\ reply[c] = <<>>
          /\ \A p \in Items(stream[c]) : p.of \in Send \cup handled

\* MessageBus is a request channel.
Channel == INSTANCE RequestChannel
IsRequestChannel == Channel!Spec

\* No request is pending for ever: it is called back, unless the server dropped
\* it because it came together with another, or it follows such a one on its
\* connection, or the size of its Pong was read where none is, on a connection that
\* is cut.
CalledBack ==
  \A r \in Request :
    []<>(\/ req[r] # "pending"
         \/ r \in skipped
         \/ \E c \in Conn : cnx[c].req = r /\ cnx[c].op = "rest" /\ cnx[c].cut)

\* "Connection found open in pool" (message_bus.cpp:172): a connection that is
\* taken from the pool has been connected.
FoundOpen ==
  [][\A c \in Items(pool) :
       cnx'[c].req # None => cnx[c].link # "none"]_vars
=============================================================================
