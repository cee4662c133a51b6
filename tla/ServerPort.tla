----------------------------- MODULE ServerPort -----------------------------
(***************************************************************************)
(* Servers of one host (server.cpp): the search for a free port, and the   *)
(* loop that accepts connections.  The steps of a search are system calls, *)
(* so those of several processes interleave.                               *)
(***************************************************************************)
EXTENDS Naturals, Sequences, FiniteSets

CONSTANTS
  Process, Client,
  FirstPort,  \* Configuration::m_listenPort
  Tries,      \* ports of a search: 1000, or 1 with portIsFixed()
  MaxOpen,    \* connections a process has descriptors for
  MaxDeaths,  \* bound: processes that die
  None

ASSUME PortAssumption ==
  /\ {FirstPort, Tries, MaxOpen} \subseteq Nat \ {0} /\ MaxDeaths \in Nat
  /\ None \notin Nat

VARIABLES
  srv,    \* srv[p]: the Server of process p and what the system keeps for it
  deaths

vars == <<srv, deaths>>

Port == FirstPort .. FirstPort + Tries - 1

\* at is how far the process is; port the local of bindAddress; boundTo the
\* port of m_acceptor (0: none); name the port in the node name; backlog the
\* connections made for the process and open those it has accepted.  starved
\* is a history variable: it had no descriptor left.
Server ==
  [at : {"off", "binding", "bound", "returned", "serving", "ended"},
   port : FirstPort .. FirstPort + Tries, boundTo : Port \cup {0},
   listening : BOOLEAN, accepting : BOOLEAN, starved : BOOLEAN,
   name : Port \cup {0, None}, backlog : Seq(Client), open : SUBSET Client]

Off ==
  [at |-> "off", port |-> FirstPort, boundTo |-> 0, listening |-> FALSE,
   accepting |-> FALSE, starved |-> FALSE, name |-> None, backlog |-> <<>>,
   open |-> {}]

TypeOK == srv \in [Process -> Server] /\ deaths \in 0 .. MaxDeaths

Init == srv = [p \in Process |-> Off] /\ deaths = 0

Start(p) ==
  /\ srv[p].at = "off"
  /\ srv' = [srv EXCEPT ![p].at = "binding"]
  /\ UNCHANGED deaths

-----------------------------------------------------------------------------
(* Server::bindAddress.  Sockets with reuse_address share a port until one *)
(* of them listens.                                                        *)

Taken(n) == \E q \in Process : srv[q].listening /\ srv[q].boundTo = n

\* Mutants: the loop goes one port too far, ends one too early.
GivesUpLate(n) == n >= FirstPort + Tries
GivesUpEarly(n) == n + 2 >= FirstPort + Tries

NextPort(n) == n + 1

GivesUp(n) == NextPort(n) >= FirstPort + Tries

\* A turn of the loop.  When no port is left the method returns all the same.
Bind(p) ==
  LET n == srv[p].port
  IN  /\ srv[p].at = "binding"
      /\ \/ /\ Taken(n)
            /\ srv' = [srv EXCEPT ![p].port = NextPort(n),
                                  ![p].at = IF GivesUp(n) THEN "returned" ELSE @]
         \/ /\ ~Taken(n)
            /\ srv' = [srv EXCEPT ![p].at = "bound", ![p].boundTo = n]
      /\ UNCHANGED deaths

\* Mutant: the error of listen() is not looked at.
ListenThrowsNever(p) == FALSE

ListenThrows(p) == Taken(srv[p].boundTo)

\* listen() throws if another process was faster, and main ends.
Listen(p) ==
  /\ srv[p].at = "bound"
  /\ srv' = IF ListenThrows(p)
            THEN [srv EXCEPT ![p].at = "ended", ![p].boundTo = 0]
            ELSE [srv EXCEPT ![p].at = "returned", ![p].listening = TRUE]
  /\ UNCHANGED deaths

\* The rest of Server::Server
Serve(p) ==
  /\ srv[p].at = "returned"
  /\ srv' = [srv EXCEPT ![p].at = "serving", ![p].accepting = TRUE,
                        ![p].name = srv[p].boundTo]
  /\ UNCHANGED deaths

-----------------------------------------------------------------------------
Waits(c, p) == \E i \in DOMAIN srv[p].backlog : srv[p].backlog[i] = c

\* A process that has heard the name connects.
Connect(c, p) ==
  /\ srv[p].listening /\ srv[p].name # None
  /\ \A q \in Process : c \notin srv[q].open /\ ~Waits(c, q)
  /\ srv' = [srv EXCEPT ![p].backlog = Append(@, c)]
  /\ UNCHANGED deaths

\* Mutant: no accept after the first.
AcceptsOnce(p) == FALSE

\* handleAccept calls startAccept again.
AcceptsAgain(p) == TRUE

Accept(p) ==
  /\ srv[p].accepting /\ srv[p].backlog # <<>>
  /\ Cardinality(srv[p].open) < MaxOpen
  /\ srv' = [srv EXCEPT ![p].backlog   = Tail(@),
                        ![p].open      = @ \cup {Head(srv[p].backlog)},
                        ![p].accepting = AcceptsAgain(p)]
  /\ UNCHANGED deaths

\* handleAccept with an error: the last one.  The operating system takes the
\* descriptor before it looks for a connection.
AcceptFails(p) ==
  /\ srv[p].accepting
  /\ ~srv[p].listening \/ Cardinality(srv[p].open) = MaxOpen
  /\ srv' = [srv EXCEPT ![p].accepting = FALSE,
                        ![p].starved   = @ \/ srv[p].listening]
  /\ UNCHANGED deaths

Close(c, p) ==
  /\ c \in srv[p].open
  /\ srv' = [srv EXCEPT ![p].open = @ \ {c}]
  /\ UNCHANGED deaths

\* The process may be started again.
Die(p) ==
  /\ srv[p].at # "off" /\ deaths < MaxDeaths
  /\ deaths' = deaths + 1
  /\ srv' = [srv EXCEPT ![p] = Off]

Construct(p) == Bind(p) \/ Listen(p) \/ Serve(p)

HandleAccept(p) == Accept(p) \/ AcceptFails(p)

Next ==
  \E p \in Process :
    \/ Start(p) \/ Construct(p) \/ HandleAccept(p) \/ Die(p)
    \/ \E c \in Client : Connect(c, p) \/ Close(c, p)

Spec == Init /\ [][Next]_vars

\* A process runs, and its reactor completes an accept that can be completed.
FairSpec ==
  Spec /\ \A p \in Process : WF_vars(Construct(p)) /\ WF_vars(HandleAccept(p))

-----------------------------------------------------------------------------
\* A name that says where to connect is the port the process listens on, and no
\* other process of the host has it: Cluster identifies processes by their names.
NameIsOwn ==
  \A p \in Process :
    srv[p].name \notin {None, 0} =>
      /\ srv[p].listening /\ srv[p].boundTo = srv[p].name
      /\ \A q \in Process \ {p} : srv[q].name # srv[p].name

\* bindAddress returns without a port, and the process announces the name 0,
\* only when others listen on all of them: as long as none of those has died,
\* no order of the calls of concurrent searches makes one skip a free port.
GivesUpWhenFull ==
  [][\A p \in Process :
       (deaths = 0 /\ srv[p].at = "binding" /\ srv'[p].at = "returned") =>
         \A n \in Port : Taken(n)]_vars

\* A connection is accepted, if the process was never out of descriptors.
Served ==
  \A p \in Process, c \in Client :
    Waits(c, p) ~> ~Waits(c, p) \/ srv[p].starved
=============================================================================
