-------------------------- MODULE ServerPortProofs --------------------------
(* For any number of processes and ports: names are unique and reachable,  *)
(* and a search that fails has found no port free.                         *)
EXTENDS ServerPort, TLAPS

\* What the search for a port leaves: an acceptor that listens is alone on its
\* port, and what is bound after the search listens.
SearchInv ==
  \A p \in Process :
    /\ srv[p].listening =>
         /\ srv[p].at \in {"returned", "serving"} /\ srv[p].boundTo \in Port
         /\ \A q \in Process :
              srv[q].listening /\ srv[q].boundTo = srv[p].boundTo => q = p
    /\ srv[p].at = "off" => srv[p] = Off
    /\ srv[p].at = "binding" => srv[p].boundTo = 0
    /\ srv[p].at = "binding" => srv[p].port \in Port
    /\ srv[p].at = "bound" => srv[p].boundTo \in Port
    /\ srv[p].at \in {"returned", "serving"} =>
         srv[p].boundTo = 0 \/ srv[p].listening
    /\ srv[p].name # None => srv[p].at = "serving" /\ srv[p].name = srv[p].boundTo

\* The ports that a search has left behind it are still taken.
PassedInv ==
  deaths = 0 =>
    \A p \in Process : srv[p].at = "binding" =>
      \A n \in Port : n < srv[p].port => Taken(n)

IInv == TypeOK /\ SearchInv /\ PassedInv

LEMMA PortFacts ==
  /\ Port \subseteq Nat \ {0} /\ None \notin Nat /\ FirstPort \in Port
  /\ FirstPort \in FirstPort .. FirstPort + Tries
  /\ \A n \in Port : FirstPort <= n
BY PortAssumption DEF Port

LEMMA OffFacts == Off \in Server
<1>1. <<>> \in Seq(Client)
  OBVIOUS
<1> QED BY <1>1, PortFacts DEF Off, Server

LEMMA InitInv == Init => IInv
<1> SUFFICES ASSUME Init PROVE IInv
  OBVIOUS
<1>1. TypeOK
  BY OffFacts, PortAssumption DEF Init, TypeOK
<1>2. SearchInv
  BY DEF Init, SearchInv, Off
<1>3. PassedInv
  BY DEF Init, PassedInv, Off
<1> QED BY <1>1, <1>2, <1>3 DEF IInv

\* Taken ports stay taken in a step that ends no process's listening.
LEMMA TakenStays ==
  ASSUME NEW n,
         \A q \in Process :
           srv[q].listening => srv'[q].listening /\ srv'[q].boundTo = srv[q].boundTo,
         Taken(n)
  PROVE  Taken(n)'
BY DEF Taken

\* A step of one process that keeps its types.
LEMMA StepType ==
  ASSUME TypeOK, NEW p \in Process, NEW r \in Server,
         srv' = [srv EXCEPT ![p] = r], deaths' \in 0 .. MaxDeaths
  PROVE  TypeOK'
BY DEF TypeOK

-----------------------------------------------------------------------------
(* The search for a port *)

LEMMA StartInv ==
  ASSUME IInv, NEW p \in Process, Start(p)
  PROVE  IInv'
<1> USE DEF IInv
<1>1. /\ srv[p] \in Server /\ deaths' = deaths /\ deaths \in 0 .. MaxDeaths
      /\ srv' = [srv EXCEPT ![p] = [srv[p] EXCEPT !.at = "binding"]]
  BY DEF Start, TypeOK
<1>2. [srv[p] EXCEPT !.at = "binding"] \in Server
  BY <1>1 DEF Server
<1>3. TypeOK'
  BY <1>1, <1>2, StepType
<1>4. srv[p] = Off
  BY DEF Start, SearchInv
<1>5. SearchInv'
  BY <1>1, <1>4, PortFacts DEF SearchInv, TypeOK, Off
<1>6. PassedInv'
  <2>1. \A q \in Process :
          srv[q].listening => srv'[q].listening /\ srv'[q].boundTo = srv[q].boundTo
    BY <1>1 DEF TypeOK
  <2>2. \A n \in Port : Taken(n) => Taken(n)'
    BY <2>1, TakenStays
  <2>3. srv'[p].port = FirstPort
    BY <1>1, <1>4 DEF TypeOK, Off
  <2>4. \A n \in Port : ~(n < FirstPort)
    BY PortAssumption DEF Port
  <2> QED BY <1>1, <2>2, <2>3, <2>4 DEF PassedInv, TypeOK
<1> QED BY <1>3, <1>5, <1>6

\* A turn of the loop: a port that is taken is left behind, or a free one bound.
LEMMA BindInv ==
  ASSUME IInv, NEW p \in Process, Bind(p)
  PROVE  IInv'
<1> USE DEF IInv
<1> DEFINE n == srv[p].port
           late == [srv[p] EXCEPT !.port = n + 1,
                                  !.at = IF n + 1 >= FirstPort + Tries
                                         THEN "returned" ELSE @]
           done == [srv[p] EXCEPT !.at = "bound", !.boundTo = n]
<1>1. /\ srv[p] \in Server /\ srv[p].at = "binding" /\ srv[p].boundTo = 0
      /\ n \in Port /\ ~srv[p].listening /\ srv[p].name = None
      /\ deaths' = deaths /\ deaths \in 0 .. MaxDeaths
  BY DEF Bind, TypeOK, SearchInv
<1>2. /\ n \in FirstPort .. FirstPort + Tries /\ n + 1 \in FirstPort .. FirstPort + Tries
      /\ ~(n + 1 >= FirstPort + Tries) => n + 1 \in Port
      /\ \A k \in Port : k < n + 1 => k < n \/ k = n
  BY <1>1, PortAssumption DEF Port
<1>3. \/ Taken(n) /\ srv' = [srv EXCEPT ![p] = late]
      \/ ~Taken(n) /\ srv' = [srv EXCEPT ![p] = done]
  BY <1>1 DEF Bind, GivesUp, NextPort, TypeOK
<1>4. late \in Server /\ done \in Server
  BY <1>1, <1>2 DEF Server
<1>5. /\ late.at \in {"binding", "returned"} /\ late.boundTo = 0 /\ ~late.listening
      /\ late.name = None /\ late.port = n + 1
      /\ late.at = "binding" => n + 1 \in Port
  BY <1>1, <1>2 DEF Server
<1>6. /\ done.at = "bound" /\ done.boundTo = n /\ ~done.listening /\ done.name = None
  BY <1>1 DEF Server
<1>7. \A q \in Process \ {p} : srv'[q] = srv[q]
  BY <1>3 DEF TypeOK
<1>8. srv'[p] = late \/ srv'[p] = done
  BY <1>3 DEF TypeOK
<1> HIDE DEF n, late, done
<1>9. TypeOK'
  BY <1>1, <1>3, <1>4, StepType
<1>10. SearchInv'
  <2> SUFFICES ASSUME NEW q \in Process
               PROVE  SearchInv!(q)'
    BY DEF SearchInv
  <2> QED BY <1>1, <1>5, <1>6, <1>7, <1>8, PortFacts DEF SearchInv
<1>11. PassedInv'
  <2>1. \A q \in Process :
          srv[q].listening => srv'[q].listening /\ srv'[q].boundTo = srv[q].boundTo
    BY <1>1, <1>7
  <2>2. \A k \in Port : Taken(k) => Taken(k)'
    BY <2>1, TakenStays
  <2>3. srv'[p].at = "binding" => Taken(n) /\ srv'[p].port = n + 1
    BY <1>3, <1>5, <1>6 DEF TypeOK
  <2>4. deaths = 0 => \A k \in Port : k < n => Taken(k)
    BY <1>1 DEF PassedInv, n
  <2> QED BY <1>1, <1>2, <1>7, <2>2, <2>3, <2>4 DEF PassedInv
<1> QED BY <1>9, <1>10, <1>11

\* listen() fails unless the process is the only one on its port.
LEMMA ListenInv ==
  ASSUME IInv, NEW p \in Process, Listen(p)
  PROVE  IInv'
<1> USE DEF IInv
<1> DEFINE gone == [srv[p] EXCEPT !.at = "ended", !.boundTo = 0]
           up   == [srv[p] EXCEPT !.at = "returned", !.listening = TRUE]
<1>1. /\ srv[p] \in Server /\ srv[p].at = "bound" /\ srv[p].boundTo \in Port
      /\ ~srv[p].listening /\ srv[p].name = None
      /\ deaths' = deaths /\ deaths \in 0 .. MaxDeaths
  BY DEF Listen, TypeOK, SearchInv
<1>2. \/ srv' = [srv EXCEPT ![p] = gone]
      \/ /\ srv' = [srv EXCEPT ![p] = up]
         /\ \A q \in Process : ~(srv[q].listening /\ srv[q].boundTo = srv[p].boundTo)
  BY <1>1 DEF Listen, ListenThrows, Taken, TypeOK
<1>3. gone \in Server /\ up \in Server
  BY <1>1 DEF Server
<1>4. /\ gone.at = "ended" /\ ~gone.listening /\ gone.name = None
      /\ up.at = "returned" /\ up.listening /\ up.name = None
      /\ up.boundTo = srv[p].boundTo
  BY <1>1 DEF Server
<1>5. \A q \in Process \ {p} : srv'[q] = srv[q]
  BY <1>2 DEF TypeOK
<1>6. \/ srv'[p] = gone
      \/ /\ srv'[p] = up
         /\ \A q \in Process : ~(srv[q].listening /\ srv[q].boundTo = srv[p].boundTo)
  BY <1>2 DEF TypeOK
<1> HIDE DEF gone, up
<1>7. TypeOK'
  BY <1>1, <1>2, <1>3, StepType
<1>8. SearchInv'
  <2> SUFFICES ASSUME NEW q \in Process
               PROVE  SearchInv!(q)'
    BY DEF SearchInv
  <2> QED BY <1>1, <1>4, <1>5, <1>6, PortFacts DEF SearchInv
<1>9. PassedInv'
  <2>1. \A q \in Process :
          srv[q].listening => srv'[q].listening /\ srv'[q].boundTo = srv[q].boundTo
    BY <1>1, <1>5
  <2>2. \A k \in Port : Taken(k) => Taken(k)'
    BY <2>1, TakenStays
  <2>3. srv'[p].at # "binding"
    BY <1>4, <1>6
  <2> QED BY <1>1, <1>5, <2>2, <2>3 DEF PassedInv
<1> QED BY <1>7, <1>8, <1>9

-----------------------------------------------------------------------------
\* What the search has settled is not touched by a step that leaves these fields
\* of the process alone, or serves under the port found.
LEMMA QuietInv ==
  ASSUME IInv, NEW p \in Process, NEW r \in Server,
         srv' = [srv EXCEPT ![p] = r], deaths' = deaths,
         srv[p].at # "off",
         /\ r.port = srv[p].port /\ r.boundTo = srv[p].boundTo
         /\ r.listening = srv[p].listening,
         \/ r.at = srv[p].at /\ r.name = srv[p].name
         \/ /\ srv[p].at = "returned" /\ r.at = "serving"
            /\ r.name = srv[p].boundTo
  PROVE  IInv'
<1> USE DEF IInv
<1>1. \A q \in Process \ {p} : srv'[q] = srv[q]
  BY DEF TypeOK
<1>2. srv'[p] = r
  BY DEF TypeOK
<1>3. TypeOK'
  BY StepType DEF TypeOK
<1>4. SearchInv'
  <2> SUFFICES ASSUME NEW q \in Process
               PROVE  SearchInv!(q)'
    BY DEF SearchInv
  <2> QED BY <1>1, <1>2 DEF SearchInv
<1>5. PassedInv'
  <2>1. \A q \in Process :
          srv[q].listening => srv'[q].listening /\ srv'[q].boundTo = srv[q].boundTo
    BY <1>1, <1>2
  <2>2. \A k \in Port : Taken(k) => Taken(k)'
    BY <2>1, TakenStays
  <2> QED BY <1>1, <1>2, <2>2 DEF PassedInv
<1> QED BY <1>3, <1>4, <1>5

LEMMA ServeInv ==
  ASSUME IInv, NEW p \in Process, Serve(p)
  PROVE  IInv'
<1> DEFINE r == [srv[p] EXCEPT !.at = "serving", !.accepting = TRUE,
                               !.name = srv[p].boundTo]
<1>1. srv[p] \in Server /\ srv[p].at = "returned" /\ srv' = [srv EXCEPT ![p] = r]
  BY DEF Serve, IInv, TypeOK
<1>2. r \in Server
  BY <1>1 DEF Server
<1>3. /\ r.port = srv[p].port /\ r.boundTo = srv[p].boundTo
      /\ r.listening = srv[p].listening /\ r.at = "serving" /\ r.name = srv[p].boundTo
  BY <1>1 DEF Server
<1> HIDE DEF r
<1> QED BY <1>1, <1>2, <1>3, QuietInv DEF Serve

LEMMA AcceptInv ==
  ASSUME IInv, NEW p \in Process, Accept(p)
  PROVE  IInv'
<1> DEFINE r == [srv[p] EXCEPT !.backlog   = Tail(@),
                               !.open      = @ \cup {Head(srv[p].backlog)},
                               !.accepting = AcceptsAgain(p)]
<1>1. /\ srv[p] \in Server /\ srv[p].backlog # <<>> /\ srv[p].accepting
      /\ srv' = [srv EXCEPT ![p] = r]
  BY DEF Accept, IInv, TypeOK
<1>2. /\ srv[p].backlog \in Seq(Client)
      /\ Tail(srv[p].backlog) \in Seq(Client) /\ Head(srv[p].backlog) \in Client
  BY <1>1 DEF Server
<1>3. r \in Server
  BY <1>1, <1>2 DEF Server, AcceptsAgain
<1>4. /\ r.port = srv[p].port /\ r.boundTo = srv[p].boundTo
      /\ r.listening = srv[p].listening /\ r.at = srv[p].at /\ r.name = srv[p].name
  BY <1>1 DEF Server
<1>5. srv[p].at # "off"
  BY <1>1 DEF IInv, SearchInv, Off
<1> HIDE DEF r
<1> QED BY <1>1, <1>3, <1>4, <1>5, QuietInv DEF Accept

LEMMA AcceptFailsInv ==
  ASSUME IInv, NEW p \in Process, AcceptFails(p)
  PROVE  IInv'
<1> DEFINE r == [srv[p] EXCEPT !.accepting = FALSE,
                               !.starved   = @ \/ srv[p].listening]
<1>1. srv[p] \in Server /\ srv[p].accepting /\ srv' = [srv EXCEPT ![p] = r]
  BY DEF AcceptFails, IInv, TypeOK
<1>2. r \in Server
  BY <1>1 DEF Server
<1>3. /\ r.port = srv[p].port /\ r.boundTo = srv[p].boundTo
      /\ r.listening = srv[p].listening /\ r.at = srv[p].at /\ r.name = srv[p].name
  BY <1>1 DEF Server
<1>4. srv[p].at # "off"
  BY <1>1 DEF IInv, SearchInv, Off
<1> HIDE DEF r
<1> QED BY <1>1, <1>2, <1>3, <1>4, QuietInv DEF AcceptFails

LEMMA ClientInv ==
  ASSUME IInv, NEW p \in Process, NEW c \in Client, Connect(c, p) \/ Close(c, p)
  PROVE  IInv'
<1>1. srv[p] \in Server
  BY DEF IInv, TypeOK
<1>2. CASE Connect(c, p)
  <2> DEFINE r == [srv[p] EXCEPT !.backlog = Append(@, c)]
  <2>1. srv[p].listening /\ srv' = [srv EXCEPT ![p] = r]
    BY <1>1, <1>2 DEF Connect, IInv, TypeOK
  <2>2. srv[p].backlog \in Seq(Client)
    BY <1>1 DEF Server
  <2>3. Append(srv[p].backlog, c) \in Seq(Client)
    BY <2>2
  <2>4. r \in Server
    BY <1>1, <2>3 DEF Server
  <2>5. /\ r.port = srv[p].port /\ r.boundTo = srv[p].boundTo
        /\ r.listening = srv[p].listening /\ r.at = srv[p].at /\ r.name = srv[p].name
    BY <1>1 DEF Server
  <2>6. srv[p].at # "off"
    BY <2>1 DEF IInv, SearchInv
  <2> HIDE DEF r
  <2> QED BY <1>2, <2>1, <2>4, <2>5, <2>6, QuietInv DEF Connect
<1>3. CASE Close(c, p)
  <2> DEFINE r == [srv[p] EXCEPT !.open = @ \ {c}]
  <2>1. c \in srv[p].open /\ srv' = [srv EXCEPT ![p] = r]
    BY <1>1, <1>3 DEF Close, IInv, TypeOK
  <2>2. r \in Server
    BY <1>1 DEF Server
  <2>3. /\ r.port = srv[p].port /\ r.boundTo = srv[p].boundTo
        /\ r.listening = srv[p].listening /\ r.at = srv[p].at /\ r.name = srv[p].name
    BY <1>1 DEF Server
  <2>4. srv[p].at # "off"
    BY <2>1 DEF IInv, SearchInv, Off
  <2> HIDE DEF r
  <2> QED BY <1>3, <2>1, <2>2, <2>3, <2>4, QuietInv DEF Close
<1> QED BY <1>2, <1>3

\* After a death nothing is known of the ports that a search has left behind.
LEMMA DieInv ==
  ASSUME IInv, NEW p \in Process, Die(p)
  PROVE  IInv'
<1> USE DEF IInv
<1>1. deaths \in 0 .. MaxDeaths /\ deaths < MaxDeaths /\ deaths' = deaths + 1
  BY DEF Die, TypeOK
<1>2. deaths' \in 0 .. MaxDeaths /\ deaths' # 0
  BY <1>1, PortAssumption
<1>3. srv' = [srv EXCEPT ![p] = Off]
  BY DEF Die
<1>4. TypeOK'
  BY <1>2, <1>3, OffFacts, StepType
<1>5. SearchInv'
  BY <1>3 DEF SearchInv, TypeOK, Off
<1>6. PassedInv'
  BY <1>2 DEF PassedInv
<1> QED BY <1>4, <1>5, <1>6

-----------------------------------------------------------------------------
LEMMA NextInv == IInv /\ [Next]_vars => IInv'
<1> SUFFICES ASSUME IInv, [Next]_vars PROVE IInv'
  OBVIOUS
<1>1. CASE UNCHANGED vars
  BY <1>1 DEF vars, IInv, TypeOK, SearchInv, PassedInv, Taken
<1>2. ASSUME NEW p \in Process, Start(p) PROVE IInv'
  BY <1>2, StartInv
<1>3. ASSUME NEW p \in Process, Construct(p) PROVE IInv'
  BY <1>3, BindInv, ListenInv, ServeInv DEF Construct
<1>4. ASSUME NEW p \in Process, HandleAccept(p) PROVE IInv'
  BY <1>4, AcceptInv, AcceptFailsInv DEF HandleAccept
<1>5. ASSUME NEW p \in Process, Die(p) PROVE IInv'
  BY <1>5, DieInv
<1>6. ASSUME NEW p \in Process, NEW c \in Client, Connect(c, p) \/ Close(c, p)
      PROVE  IInv'
  BY <1>6, ClientInv
<1> QED BY <1>1, <1>2, <1>3, <1>4, <1>5, <1>6 DEF Next

THEOREM Invariance == Spec => []IInv
<1>1. Init => IInv
  BY InitInv
<1>2. IInv /\ [Next]_vars => IInv'
  BY NextInv
<1> QED BY <1>1, <1>2, PTL DEF Spec

\* No search leaves the range of its ports (Server::bindAddress).
THEOREM TypeCorrect == Spec => []TypeOK
<1>1. IInv => TypeOK
  BY DEF IInv
<1> QED BY <1>1, Invariance, PTL

\* The name that a Server announces is the port it listens on, and its own.
THEOREM NamesAreOwn == Spec => []NameIsOwn
<1>1. IInv => NameIsOwn
  BY PortFacts DEF IInv, TypeOK, Server, SearchInv, NameIsOwn
<1> QED BY <1>1, Invariance, PTL

\* However many searches run together, the one that returns without a port has
\* met a process that listens on each of them.
THEOREM NoPortSkipped == Spec => GivesUpWhenFull
<1> DEFINE Step ==
      \A p \in Process :
        (deaths = 0 /\ srv[p].at = "binding" /\ srv'[p].at = "returned") =>
          \A n \in Port : Taken(n)
<1>1. IInv /\ [Next]_vars => Step
  <2> SUFFICES ASSUME IInv, [Next]_vars, NEW p \in Process, deaths = 0,
                      srv[p].at = "binding", srv'[p].at = "returned",
                      NEW n \in Port
               PROVE  Taken(n)
    OBVIOUS
  <2>1. /\ \A q \in Process : srv[q] \in Server
        /\ srv \in [Process -> Server]
    BY DEF IInv, TypeOK
  <2>2. ASSUME NEW q \in Process PROVE ~Start(q)
    BY <2>1 DEF Start, Server
  <2>3. ASSUME NEW q \in Process PROVE ~Listen(q)
    BY <2>1 DEF Listen, Server
  <2>4. ASSUME NEW q \in Process PROVE ~Serve(q)
    BY <2>1 DEF Serve, Server
  <2>5. ASSUME NEW q \in Process PROVE ~HandleAccept(q)
    <3>1. Accept(q) => srv'[p].at = srv[p].at
      BY <2>1 DEF Accept, Server
    <3>2. AcceptFails(q) => srv'[p].at = srv[p].at
      BY <2>1 DEF AcceptFails, Server
    <3> QED BY <3>1, <3>2 DEF HandleAccept
  <2>6. ASSUME NEW q \in Process PROVE ~Die(q)
    BY <2>1 DEF Die, Off
  <2>7. ASSUME NEW q \in Process, NEW c \in Client PROVE ~(Connect(c, q) \/ Close(c, q))
    <3>1. Connect(c, q) => srv'[p].at = srv[p].at
      BY <2>1 DEF Connect, Server
    <3>2. Close(c, q) => srv'[p].at = srv[p].at
      BY <2>1 DEF Close, Server
    <3> QED BY <3>1, <3>2
  <2>8. ASSUME NEW q \in Process, q # p PROVE ~Bind(q)
    BY <2>1, <2>8 DEF Bind, Server
  <2>9. Bind(p)
    BY <2>2, <2>3, <2>4, <2>5, <2>6, <2>7, <2>8 DEF Next, Construct, vars
  <2>10. srv[p].port \in Port /\ Taken(srv[p].port) /\ GivesUp(srv[p].port)
    BY <2>1, <2>9 DEF Bind, IInv, SearchInv, Server
  <2>11. n < srv[p].port \/ n = srv[p].port
    BY <2>10, PortAssumption DEF GivesUp, NextPort, Port
  <2> QED BY <2>10, <2>11 DEF IInv, PassedInv
<1>2. IInv /\ [Next]_vars => [Step]_vars
  BY <1>1
<1> HIDE DEF Step
<1>3. Spec => [][Step]_vars
  BY <1>2, Invariance, PTL DEF Spec
<1> QED BY <1>3 DEF Step, GivesUpWhenFull
=============================================================================
