-------------------------- MODULE MessageBusProofs --------------------------
(***************************************************************************)
(* MessageBus, for any number of connections, requests and faults: what is *)
(* in the pool is quiet, answers go to their own calls, the bus implements *)
(* RequestChannel, and no request is forgotten.                            *)
(*                                                                         *)
(* The invariant follows a request from its connection to the stream and   *)
(* back: it is in one place at a time, its two parts are adjacent and in   *)
(* order, its head is there only if it was not handled.  On a connection   *)
(* that is not cut a call is on the stream, or its Pong on the way back,   *)
(* only while the connection waits for it.                                 *)
(***************************************************************************)
EXTENDS MessageBus, SequenceTheorems, TLAPS

Head1(r) == [of |-> r, part |-> "head"]
Tail1(r) == [of |-> r, part |-> "tail"]

\* A stream of messages of two parts, the first of which may have been read and
\* the last of which is whole if the connection is up.
Pairs(s, up) ==
  /\ \A i \in 1 .. Len(s) :
       s[i].part = "head" =>
         \/ i = Len(s) /\ ~up
         \/ i < Len(s) /\ s[i + 1].of = s[i].of /\ s[i + 1].part = "tail"
  /\ \A i, j \in 1 .. Len(s) :
       i < j /\ s[i].of = s[j].of => s[i].part = "head" /\ s[j].part = "tail"

\* r has a part on c.
On(c, r) == \E i \in 1 .. Len(stream[c]) : stream[c][i].of = r

Up(c) == cnx[c].link = "up"

PoolInv ==
  /\ \A i, j \in DOMAIN pool : pool[i] = pool[j] => i = j
  /\ \A c \in Conn :
       /\ c \in Items(pool) <=> cnx[c].made /\ cnx[c].op = "none"
       /\ ~cnx[c].made => cnx[c] = Absent
       /\ cnx[c].op = "none" <=> cnx[c].req = None
       /\ cnx[c].op # "none" => req[cnx[c].req] = "pending"
  /\ \A c, d \in Conn : cnx[c].req = cnx[d].req => c = d \/ cnx[c].req = None

\* What a connection is used for: the keep-alive read was cancelled before, only a
\* call is answered, and a connection that is cut has answered one.
UseInv ==
  \A c \in Conn :
    /\ cnx[c].op # "none" => cnx[c].keep # "reading"
    /\ cnx[c].op \in {"read", "rest"} => cnx[c].req \in Call
    /\ cnx[c].cut => torn # {}

\* Where a request can be.
PlaceInv ==
  /\ \A r \in Request : req[r] = "idle" => r \notin handled
  /\ \A c \in Conn, r \in Request : On(c, r) => req[r] # "idle"
  /\ \A c, d \in Conn, r \in Request : On(c, r) /\ On(d, r) => c = d
  /\ \A c \in Conn : cnx[c].op = "connect" =>
       /\ cnx[c].link = "none" /\ stream[c] = <<>>
       /\ cnx[c].req \notin handled /\ \A d \in Conn : ~On(d, cnx[c].req)

\* What is on the stream of a connection.
WireInv ==
  \A c \in Conn :
    /\ Pairs(stream[c], Up(c))
    /\ \A i \in 1 .. Len(stream[c]) :
         stream[c][i].part = "head" => stream[c][i].of \notin handled
    /\ peer[c] = "rest" =>
         \/ stream[c] = <<>> /\ ~Up(c)
         \/ stream[c] # <<>> /\ stream[c][1].part = "tail"
                             /\ stream[c][1].of \notin handled
    /\ cnx[c].op = "unwritten" => ~Up(c)

\* What comes back on c is what c waits for.
Owed(c) ==
  IF cnx[c].op = "rest"
  THEN reply[c] = <<Tail1(cnx[c].req)>> \/ (reply[c] = <<>> /\ ~Up(c))
  ELSE \/ reply[c] = <<>> \/ reply[c] = Whole(cnx[c].req)
       \/ reply[c] = <<Head1(cnx[c].req)>> /\ ~Up(c)

Clean(c) ==
  /\ \A r \in Call \ handled : On(c, r) => cnx[c].req = r
  /\ reply[c] # <<>> \/ cnx[c].op = "rest" =>
       cnx[c].req \in Call \cap handled /\ cnx[c].op # "unwritten"
  /\ Owed(c)

CleanInv == \A c \in Conn : cnx[c].made /\ ~cnx[c].cut => Clean(c)

IInv ==
  TypeOK /\ PoolInv /\ UseInv /\ PlaceInv /\ WireInv /\ CleanInv /\ AnswerIsOwn

-----------------------------------------------------------------------------
(* Streams *)

\* The first k parts are read.
LEMMA DropParts ==
  ASSUME NEW s \in Seq(Part), NEW k \in 1 .. Len(s), NEW up \in BOOLEAN, Pairs(s, up)
  PROVE  LET t == SubSeq(s, k + 1, Len(s))
         IN  /\ t \in Seq(Part) /\ Len(t) = Len(s) - k
             /\ \A i \in 1 .. Len(t) : i + k \in 1 .. Len(s) /\ t[i] = s[i + k]
             /\ Pairs(t, up)
<1> DEFINE t == SubSeq(s, k + 1, Len(s))
<1>1. Len(s) \in Nat
  OBVIOUS
<1>2. /\ t \in Seq(Part) /\ Len(t) = Len(s) - k
      /\ \A i \in 1 .. Len(t) : i + k \in 1 .. Len(s) /\ t[i] = s[i + k]
  BY <1>1, SubSeqProperties
<1> HIDE DEF t
<1>3. Pairs(t, up)
  <2>1. ASSUME NEW i \in 1 .. Len(t), t[i].part = "head"
        PROVE  \/ i = Len(t) /\ ~up
               \/ i < Len(t) /\ t[i + 1].of = t[i].of /\ t[i + 1].part = "tail"
    <3>1. \/ i + k = Len(s) /\ ~up
          \/ i + k < Len(s) /\ s[i + k + 1].of = s[i + k].of
                            /\ s[i + k + 1].part = "tail"
      BY <1>2, <2>1 DEF Pairs
    <3>2. CASE i + k = Len(s) /\ ~up
      <4>1. i + k = Len(s) /\ i \in Nat /\ k \in Nat
        BY <3>2
      <4>2. Len(t) = Len(s) - k
        BY <1>2
      <4>3. i = Len(t)
        BY <1>1, <4>1, <4>2, SMT
      <4> QED BY <3>2, <4>3, Zenon
    <3>3. CASE i + k < Len(s) /\ s[i + k + 1].of = s[i + k].of
                              /\ s[i + k + 1].part = "tail"
      <4>1. i + 1 \in 1 .. Len(t) /\ i < Len(t) /\ t[i + 1] = s[(i + 1) + k]
        BY <1>1, <1>2, <3>3
      <4>2. (i + 1) + k = i + k + 1
        BY <1>1
      <4> QED BY <1>2, <3>3, <4>1, <4>2
    <3> QED BY <3>1, <3>2, <3>3
  <2>2. ASSUME NEW i \in 1 .. Len(t), NEW j \in 1 .. Len(t), i < j, t[i].of = t[j].of
        PROVE  t[i].part = "head" /\ t[j].part = "tail"
    <3>0. i + k \in 1 .. Len(s) /\ j + k \in 1 .. Len(s) /\ t[i] = s[i + k] /\ t[j] = s[j + k]
      BY <1>2, <2>2
    <3>1. i + k < j + k /\ s[i + k].of = s[j + k].of
      <4>1. i \in Nat /\ j \in Nat /\ k \in Nat
        BY <2>2
      <4>2. i + k < j + k
        BY <2>2, <4>1
      <4> QED BY <2>2, <3>0, <4>2, Zenon
    <3>2. s[i + k].part = "head" /\ s[j + k].part = "tail"
      BY <3>0, <3>1, Zenon DEF Pairs
    <3> QED BY <3>0, <3>2
  <2> QED BY <2>1, <2>2 DEF Pairs
<1> QED BY <1>2, <1>3 DEF t

\* A connection breaks and what is beyond n is lost.
LEMMA CutParts ==
  ASSUME NEW s \in Seq(Part), NEW n \in 0 .. Len(s), NEW up \in BOOLEAN, Pairs(s, up)
  PROVE  LET t == SubSeq(s, 1, n)
         IN  /\ t \in Seq(Part) /\ Len(t) = n
             /\ \A i \in 1 .. Len(t) : i \in 1 .. Len(s) /\ t[i] = s[i]
             /\ Pairs(t, FALSE)
<1> DEFINE t == SubSeq(s, 1, n)
<1>1. Len(s) \in Nat
  OBVIOUS
<1>2. /\ t \in Seq(Part) /\ Len(t) = n
      /\ \A i \in 1 .. Len(t) : i \in 1 .. Len(s) /\ t[i] = s[i]
  BY <1>1, SubSeqProperties
<1> HIDE DEF t
<1>3. Pairs(t, FALSE)
  <2>1. ASSUME NEW i \in 1 .. Len(t), t[i].part = "head", i # Len(t)
        PROVE  i < Len(t) /\ t[i + 1].of = t[i].of /\ t[i + 1].part = "tail"
    <3>1. i + 1 \in 1 .. Len(t) /\ i # Len(s)
      BY <1>1, <1>2, <2>1
    <3> QED BY <1>2, <2>1, <3>1 DEF Pairs
  <2> QED BY <1>2, <2>1 DEF Pairs
<1> QED BY <1>2, <1>3 DEF t

\* A message is written.
LEMMA WriteParts ==
  ASSUME NEW s \in Seq(Part), Pairs(s, TRUE), NEW r \in Request,
         \A i \in 1 .. Len(s) : s[i].of # r
  PROVE  LET t == s \o Whole(r)
         IN  /\ t \in Seq(Part) /\ Len(t) = Len(s) + 2
             /\ \A i \in 1 .. Len(s) : t[i] = s[i]
             /\ t[Len(s) + 1] = Head1(r) /\ t[Len(s) + 2] = Tail1(r)
             /\ Pairs(t, TRUE)
<1> DEFINE t == s \o Whole(r)
<1>1. Len(s) \in Nat /\ Head1(r) \in Part /\ Tail1(r) \in Part
  BY DEF Head1, Tail1, Part
<1>0. Whole(r) = <<Head1(r), Tail1(r)>>
  BY DEF Whole, Head1, Tail1
<1>2. <<Head1(r), Tail1(r)>> \in Seq(Part) /\ Len(<<Head1(r), Tail1(r)>>) = 2
  BY <1>1
<1>3. /\ t \in Seq(Part) /\ Len(t) = Len(s) + 2
      /\ \A i \in 1 .. Len(s) : t[i] = s[i]
      /\ t[Len(s) + 1] = Head1(r) /\ t[Len(s) + 2] = Tail1(r)
  BY <1>0, <1>1, <1>2, ConcatProperties
<1> HIDE DEF t
<1>4. /\ t[Len(s) + 1].of = r /\ t[Len(s) + 1].part = "head"
      /\ t[Len(s) + 2].of = r /\ t[Len(s) + 2].part = "tail"
  BY <1>3 DEF Head1, Tail1
<1>5. \A i \in 1 .. Len(t) :
        i \in 1 .. Len(s) \/ i = Len(s) + 1 \/ i = Len(s) + 2
  BY <1>1, <1>3
<1>6. Pairs(t, TRUE)
  <2>1. ASSUME NEW i \in 1 .. Len(t), t[i].part = "head"
        PROVE  i < Len(t) /\ t[i + 1].of = t[i].of /\ t[i + 1].part = "tail"
    <3>1. CASE i \in 1 .. Len(s)
      <4>1. i < Len(s) /\ s[i + 1].of = s[i].of /\ s[i + 1].part = "tail"
        BY <1>3, <2>1, <3>1 DEF Pairs
      <4>2. i + 1 \in 1 .. Len(s) /\ i < Len(t)
        BY <1>1, <1>3, <3>1, <4>1
      <4> QED BY <1>3, <3>1, <4>1, <4>2
    <3>2. CASE i = Len(s) + 1
      <4>1. i + 1 = Len(s) + 2 /\ i < Len(t)
        BY <1>1, <1>3, <3>2
      <4> QED BY <1>4, <3>2, <4>1
    <3>3. CASE i = Len(s) + 2
      BY <1>4, <2>1, <3>3
    <3> QED BY <1>5, <3>1, <3>2, <3>3
  <2>2. ASSUME NEW i \in 1 .. Len(t), NEW j \in 1 .. Len(t), i < j, t[i].of = t[j].of
        PROVE  t[i].part = "head" /\ t[j].part = "tail"
    <3>1. CASE j \in 1 .. Len(s)
      <4>1. i \in 1 .. Len(s)
        BY <1>1, <1>5, <2>2, <3>1
      <4> QED BY <1>3, <2>2, <3>1, <4>1 DEF Pairs
    <3>2. CASE j \notin 1 .. Len(s)
      <4>1. t[j].of = r
        BY <1>4, <1>5, <3>2
      <4>2. i \notin 1 .. Len(s)
        BY <1>3, <2>2, <4>1
      <4>3. i = Len(s) + 1 /\ j = Len(s) + 2
        BY <1>1, <1>5, <2>2, <3>2, <4>2
      <4> QED BY <1>4, <4>3
    <3> QED BY <3>1, <3>2
  <2> QED BY <2>1, <2>2 DEF Pairs
<1> QED BY <1>3, <1>6 DEF t

\* What is left after a read, and what arrives of what was sent, are Pongs.
LEMMA PongParts ==
  ASSUME NEW s \in Seq(Pong)
  PROVE  /\ \A k \in 0 .. Len(s) : Past(s, k) \in Seq(Pong)
         /\ \A t \in Prefixes(s) : t \in Seq(Pong)
<1>1. Len(s) \in Nat /\ \A i \in 1 .. Len(s) : s[i] \in Pong
  OBVIOUS
<1>2. ASSUME NEW k \in 0 .. Len(s) PROVE Past(s, k) \in Seq(Pong)
  <2>1. /\ k + 1 \in Int /\ Len(s) \in Int
        /\ \A i \in k + 1 .. Len(s) : s[i] \in Pong
    BY <1>1
  <2> QED BY <2>1, SubSeqProperties DEF Past
<1>3. ASSUME NEW n \in 0 .. Len(s) PROVE SubSeq(s, 1, n) \in Seq(Pong)
  <2>1. n \in Int /\ \A i \in 1 .. n : s[i] \in Pong
    BY <1>1
  <2> QED BY <2>1, SubSeqProperties
<1> QED BY <1>2, <1>3 DEF Prefixes

\* What arrives of one part, or of two, and what is left of them.
LEMMA ShortPrefixes ==
  ASSUME NEW a, NEW b
  PROVE  /\ Prefixes(<<>>) = {<<>>}
         /\ Prefixes(<<a>>) = {<<>>, <<a>>}
         /\ Prefixes(<<a, b>>) = {<<>>, <<a>>, <<a, b>>}
         /\ Past(<<a>>, 1) = <<>>
         /\ Past(<<a, b>>, 1) = <<b>> /\ Past(<<a, b>>, 2) = <<>>
<1>1. Len(<<>>) = 0 /\ Len(<<a>>) = 1 /\ Len(<<a, b>>) = 2
  OBVIOUS
<1>2. 0 .. 0 = {0} /\ 0 .. 1 = {0, 1} /\ 0 .. 2 = {0, 1, 2}
  OBVIOUS
<1>3. \A s : SubSeq(s, 1, 0) = <<>>
  BY SubSeqEmpty
<1>4. SubSeq(<<a>>, 1, 1) = <<a>> /\ SubSeq(<<a, b>>, 1, 1) = <<a>>
  <2>1. /\ <<a>>[1] = a /\ <<a, b>>[1] = a /\ 1 .. 1 = {1} /\ 1 \in Int
        /\ <<a>> \in Seq({a})
    OBVIOUS
  <2>2. ASSUME NEW s, s[1] = a PROVE SubSeq(s, 1, 1) = <<a>>
    <3> DEFINE t == SubSeq(s, 1, 1)
    <3>1. t \in Seq({a}) /\ Len(t) = 1 /\ t[1] = a
      <4>1. \A i \in 1 .. 1 : s[i] \in {a}
        BY <2>1, <2>2
      <4> QED BY <2>1, <2>2, <4>1, SubSeqProperties
    <3> HIDE DEF t
    <3>2. t = <<a>>
      BY <3>1
    <3> QED BY <3>2 DEF t
  <2> QED BY <2>1, <2>2
<1>5. SubSeq(<<a, b>>, 1, 2) = <<a, b>>
  <2> DEFINE s == <<a, b>>
             t == SubSeq(s, 1, 2)
  <2>1. s[1] = a /\ s[2] = b /\ 1 .. 2 = {1, 2} /\ \A i \in 1 .. 2 : s[i] \in {a, b}
    OBVIOUS
  <2> HIDE DEF s
  <2>2. t \in Seq({a, b}) /\ Len(t) = 2 /\ t[1] = a /\ t[2] = b
    BY <2>1, SubSeqProperties
  <2> HIDE DEF t
  <2>3. t = <<a, b>>
    BY <2>2
  <2> QED BY <2>3 DEF s, t
<1>6. SubSeq(<<a, b>>, 2, 2) = <<b>>
  <2> DEFINE s == <<a, b>>
             t == SubSeq(s, 2, 2)
  <2>1. s[2] = b /\ \A i \in 2 .. 2 : s[i] \in {b}
    OBVIOUS
  <2> HIDE DEF s
  <2>2. t \in Seq({b}) /\ Len(t) = 1 /\ t[1] = b
    BY <2>1, SubSeqProperties
  <2> HIDE DEF t
  <2>3. t = <<b>>
    BY <2>2
  <2> QED BY <2>3 DEF s, t
<1>7. \A s, m : m \in Int => SubSeq(s, m + 1, m) = <<>>
  BY SubSeqEmpty
<1>8. /\ Past(<<a>>, 1) = SubSeq(<<a>>, 1 + 1, 1)
      /\ Past(<<a, b>>, 1) = SubSeq(<<a, b>>, 2, 2)
      /\ Past(<<a, b>>, 2) = SubSeq(<<a, b>>, 2 + 1, 2)
  BY <1>1 DEF Past
<1>9. /\ Past(<<a>>, 1) = <<>> /\ Past(<<a, b>>, 1) = <<b>> /\ Past(<<a, b>>, 2) = <<>>
  BY <1>6, <1>7, <1>8
<1>10. Prefixes(<<>>) = {<<>>}
  <2>1. Prefixes(<<>>) = {SubSeq(<<>>, 1, n) : n \in {0}}
    BY <1>1, <1>2 DEF Prefixes
  <2> QED BY <1>3, <2>1
<1>11. Prefixes(<<a>>) = {<<>>, <<a>>}
  <2>1. Prefixes(<<a>>) = {SubSeq(<<a>>, 1, n) : n \in {0, 1}}
    BY <1>1, <1>2 DEF Prefixes
  <2> QED BY <1>3, <1>4, <2>1
<1>12. Prefixes(<<a, b>>) = {<<>>, <<a>>, <<a, b>>}
  <2>1. Prefixes(<<a, b>>) = {SubSeq(<<a, b>>, 1, n) : n \in {0, 1, 2}}
    BY <1>1, <1>2 DEF Prefixes
  <2> QED BY <1>3, <1>4, <1>5, <2>1
<1> QED BY <1>9, <1>10, <1>11, <1>12

LEMMA WholePong ==
  ASSUME NEW r \in Call
  PROVE  /\ Head1(r) \in Pong /\ Tail1(r) \in Pong /\ Whole(r) = <<Head1(r), Tail1(r)>>
         /\ Whole(r) \in Seq(Pong) /\ Whole(r) # <<>> /\ Len(Whole(r)) = 2
         /\ Head(Whole(r)) = Head1(r)
<1>1. Head1(r) \in Pong /\ Tail1(r) \in Pong /\ Whole(r) = <<Head1(r), Tail1(r)>>
  BY DEF Head1, Tail1, Pong, Whole
<1> QED BY <1>1

\* What is left of a Pong.
LEMMA PongPast ==
  ASSUME NEW r \in Call
  PROVE  /\ Past(Whole(r), 1) = <<Tail1(r)>> /\ Past(Whole(r), 2) = <<>>
         /\ Past(<<Head1(r)>>, 1) = <<>> /\ Past(<<Tail1(r)>>, 1) = <<>>
<1>1. Head1(r) \in Pong /\ Tail1(r) \in Pong /\ Whole(r) = <<Head1(r), Tail1(r)>>
  BY WholePong
<1> DEFINE a == Head1(r)
           b == Tail1(r)
<1> HIDE DEF a, b
<1>2. /\ Past(<<a, b>>, 1) = <<b>> /\ Past(<<a, b>>, 2) = <<>>
      /\ Past(<<a>>, 1) = <<>> /\ Past(<<b>>, 1) = <<>>
  BY ShortPrefixes
<1> QED BY <1>1, <1>2 DEF a, b

\* What arrives of a Pong.
LEMMA PongPrefixes ==
  ASSUME NEW r \in Call
  PROVE  /\ Prefixes(<<>>) = {<<>>}
         /\ Prefixes(<<Tail1(r)>>) = {<<>>, <<Tail1(r)>>}
         /\ Prefixes(<<Head1(r)>>) = {<<>>, <<Head1(r)>>}
         /\ Prefixes(Whole(r)) = {<<>>, <<Head1(r)>>, Whole(r)}
<1>1. Head1(r) \in Pong /\ Tail1(r) \in Pong /\ Whole(r) = <<Head1(r), Tail1(r)>>
  BY WholePong
<1> DEFINE a == Head1(r)
           b == Tail1(r)
<1> HIDE DEF a, b
<1>2. /\ Prefixes(<<>>) = {<<>>} /\ Prefixes(<<b>>) = {<<>>, <<b>>}
      /\ Prefixes(<<a>>) = {<<>>, <<a>>}
      /\ Prefixes(<<a, b>>) = {<<>>, <<a>>, <<a, b>>}
  BY ShortPrefixes
<1> QED BY <1>1, <1>2 DEF a, b

\* A fault is counted.
LEMMA FaultCount ==
  ASSUME TypeOK, Fault \/ UNCHANGED faults
  PROVE  faults' \in 0 .. MaxFaults
BY RequestAssumption DEF TypeOK, Fault

-----------------------------------------------------------------------------
(* Steps of one connection *)

LEMMA RequestFacts ==
  /\ Send \cap Call = {} /\ None \notin Request /\ None \notin Call
  /\ Send \subseteq Request /\ Call \subseteq Request
BY RequestAssumption DEF Request

LEMMA AbsentFacts ==
  /\ Absent \in Connection /\ ~Absent.made /\ Absent.link = "none"
  /\ Absent.op = "none" /\ Absent.req = None /\ ~Absent.error
  /\ ~Absent.cut /\ Absent.keep = "none"
BY DEF Absent, Connection

\* Nothing is to come back on a connection that is not in use and not cut.
LEMMA NotInUse ==
  ASSUME IInv, NEW c \in Conn, cnx[c].op = "none", cnx[c].made, ~cnx[c].cut
  PROVE  reply[c] = <<>> /\ \A r \in Call \ handled : ~On(c, r)
<1>1. cnx[c].req = None
  BY DEF IInv, PoolInv
<1> QED BY <1>1, RequestFacts DEF IInv, CleanInv, Clean

\* A step of c alone, that writes nothing.
LEMMA QuietWire ==
  ASSUME IInv, NEW c \in Conn, NEW s \in Connection,
         cnx' = [cnx EXCEPT ![c] = s], UNCHANGED <<stream, peer, handled>>,
         s.link = "up" => Up(c),
         s.op \in {"connect", "unwritten"} => s.op = cnx[c].op /\ s.link = cnx[c].link
                                              /\ s.req = cnx[c].req,
         \A d \in Conn \ {c} : reply'[d] = reply[d],
         s.made /\ ~s.cut => Clean(c)',
         \A r \in Request : req'[r] = "idle" => req[r] = "idle"
  PROVE  WireInv' /\ PlaceInv' /\ CleanInv'
<1>1. /\ \A d \in Conn \ {c} : cnx'[d] = cnx[d]
      /\ cnx'[c] = s
  BY DEF IInv, TypeOK
<1>2. \A d \in Conn : \A r : On(d, r)' <=> On(d, r)
  BY DEF On
<1>3. \A d \in Conn : Up(d)' => Up(d)
  BY <1>1 DEF Up
<1>4. ASSUME NEW d \in Conn PROVE Pairs(stream[d], Up(d)')
  <2>1. Pairs(stream[d], Up(d))
    BY DEF IInv, WireInv
  <2>2. CASE Up(d)'
    <3>1. Up(d)
      BY <1>3, <2>2
    <3> QED BY <2>1, <2>2, <3>1, Zenon DEF Pairs
  <2>3. CASE ~Up(d)'
    BY <2>1, <2>3, Zenon DEF Pairs
  <2> QED BY <2>2, <2>3
<1>5. WireInv'
  <2> SUFFICES ASSUME NEW d \in Conn PROVE WireInv!(d)'
    BY DEF WireInv
  <2>1. WireInv!(d)
    BY DEF IInv, WireInv
  <2>2. Pairs(stream[d], Up(d))'
    BY <1>4
  <2>3. (/\ \A i \in 1 .. Len(stream[d]) :
              stream[d][i].part = "head" => stream[d][i].of \notin handled
         /\ peer[d] = "rest" =>
              \/ stream[d] = <<>> /\ ~Up(d)
              \/ stream[d] # <<>> /\ stream[d][1].part = "tail"
                                  /\ stream[d][1].of \notin handled)'
    BY <1>3, <2>1
  <2>4. (cnx[d].op = "unwritten" => ~Up(d))'
    BY <1>1, <1>3, <2>1
  <2> QED BY <2>2, <2>3, <2>4
<1>6. PlaceInv'
  BY <1>1, <1>2 DEF IInv, PlaceInv
<1>7. CleanInv'
  <2> SUFFICES ASSUME NEW d \in Conn \ {c}, cnx'[d].made, ~cnx'[d].cut
               PROVE  Clean(d)'
    BY <1>1 DEF CleanInv
  <2>1. Clean(d) /\ (Up(d)' <=> Up(d)) /\ cnx'[d] = cnx[d] /\ reply'[d] = reply[d]
    BY <1>1 DEF IInv, CleanInv, Up
  <2>2. Owed(d)'
    BY <2>1 DEF Owed, Clean
  <2> QED BY <1>2, <2>1, <2>2 DEF Clean
<1> QED BY <1>5, <1>6, <1>7

\* A step of c alone does not change what the others are used for.
LEMMA SameUse ==
  ASSUME IInv, NEW c \in Conn, NEW s, cnx' = [cnx EXCEPT ![c] = s], torn \subseteq torn',
         s.op # "none" => s.keep # "reading",
         s.op \in {"read", "rest"} => s.req \in Call,
         s.cut => torn' # {}
  PROVE  UseInv'
BY DEF IInv, TypeOK, UseInv

LEMMA SamePool ==
  ASSUME IInv, UNCHANGED <<pool, req>>,
         \A d \in Conn : /\ cnx'[d].made = cnx[d].made /\ cnx'[d].req = cnx[d].req
                         /\ cnx'[d].op = "none" <=> cnx[d].op = "none"
                         /\ ~cnx[d].made => cnx'[d] = cnx[d]
  PROVE  PoolInv'
<1>1. Items(pool)' = Items(pool)
  BY DEF Items
<1>2. \A i, j \in DOMAIN pool' : pool'[i] = pool'[j] => i = j
  BY DEF IInv, PoolInv
<1>3. ASSUME NEW d \in Conn
      PROVE  /\ d \in Items(pool)' <=> cnx'[d].made /\ cnx'[d].op = "none"
             /\ ~cnx'[d].made => cnx'[d] = Absent
             /\ cnx'[d].op = "none" <=> cnx'[d].req = None
             /\ cnx'[d].op # "none" => req'[cnx'[d].req] = "pending"
  BY <1>1 DEF IInv, PoolInv
<1> QED BY <1>2, <1>3 DEF IInv, PoolInv

\* The items of a list after one is put before the others.
LEMMA PushItems ==
  ASSUME NEW q \in Seq(Conn), NEW c \in Conn
  PROVE  /\ <<c>> \o q \in Seq(Conn)
         /\ Items(<<c>> \o q) = {c} \cup Items(q)
         /\ (c \notin Items(q) /\ \A i, j \in DOMAIN q : q[i] = q[j] => i = j) =>
              LET p == <<c>> \o q IN \A i, j \in DOMAIN p : p[i] = p[j] => i = j
<1> DEFINE p == <<c>> \o q
<1>1. /\ p \in Seq(Conn) /\ Len(p) = Len(q) + 1 /\ p[1] = c /\ Len(q) \in Nat
      /\ \A i \in 2 .. Len(p) : i - 1 \in 1 .. Len(q) /\ p[i] = q[i - 1]
      /\ \A i \in 1 .. Len(q) : i + 1 \in 2 .. Len(p) /\ q[i] = p[i + 1]
      /\ DOMAIN p = 1 .. Len(p) /\ DOMAIN q = 1 .. Len(q)
  <2>1. <<c>> \in Seq(Conn) /\ Len(<<c>>) = 1 /\ <<c>>[1] = c
    OBVIOUS
  <2>2. Len(q) \in Nat
    OBVIOUS
  <2> QED BY <2>1, <2>2, ConcatProperties
<1> HIDE DEF p
<1>2. \A i \in 1 .. Len(p) : i = 1 \/ i \in 2 .. Len(p)
  BY <1>1
<1>3. Items(p) = {c} \cup Items(q)
  <2>1. ASSUME NEW x \in Items(p) PROVE x \in {c} \cup Items(q)
    <3>1. PICK i \in 1 .. Len(p) : x = p[i]
      BY <1>1 DEF Items
    <3> QED BY <1>1, <1>2, <3>1 DEF Items
  <2>2. ASSUME NEW x \in {c} \cup Items(q) PROVE x \in Items(p)
    <3>1. 1 \in 1 .. Len(p)
      BY <1>1
    <3>2. CASE x = c
      BY <1>1, <3>1, <3>2 DEF Items
    <3>3. CASE x \in Items(q)
      <4>1. PICK i \in 1 .. Len(q) : x = q[i]
        BY <1>1, <3>3 DEF Items
      <4>2. i + 1 \in DOMAIN p /\ x = p[i + 1]
        BY <1>1, <4>1
      <4> QED BY <4>2 DEF Items
    <3> QED BY <3>2, <3>3
  <2> QED BY <2>1, <2>2
<1>4. ASSUME c \notin Items(q), \A i, j \in DOMAIN q : q[i] = q[j] => i = j
      PROVE  \A i, j \in DOMAIN p : p[i] = p[j] => i = j
  <2> SUFFICES ASSUME NEW i \in 1 .. Len(p), NEW j \in 1 .. Len(p), p[i] = p[j]
               PROVE  i = j
    BY <1>1
  <2>1. \A k \in 2 .. Len(p) : p[k] \in Items(q)
    BY <1>1 DEF Items
  <2>2. CASE i = 1 \/ j = 1
    BY <1>1, <1>2, <1>4, <2>1, <2>2
  <2>3. CASE i # 1 /\ j # 1
    <3>1. /\ i - 1 \in DOMAIN q /\ j - 1 \in DOMAIN q /\ q[i - 1] = q[j - 1]
          /\ i \in Nat /\ j \in Nat
      BY <1>1, <1>2, <2>3
    <3>2. i - 1 = j - 1
      BY <1>4, <3>1
    <3> QED BY <3>1, <3>2
  <2> QED BY <2>2, <2>3
<1> QED BY <1>1, <1>3, <1>4 DEF p

\* A connection that was in use is deleted or goes to the pool.
LEMMA ReleasePool ==
  ASSUME IInv, NEW c \in Conn, cnx[c].op # "none",
         NEW s \in Connection, cnx' = [cnx EXCEPT ![c] = s],
         \/ s = Absent /\ pool' = pool
         \/ s.made /\ s.op = "none" /\ s.req = None /\ pool' = <<c>> \o pool,
         NEW o \in {"ok", "failed"}, req' = [req EXCEPT ![cnx[c].req] = o]
  PROVE  PoolInv' /\ pool' \in Seq(Conn)
<1>1. pool \in Seq(Conn) /\ cnx \in [Conn -> Connection] /\ c \notin Items(pool)
  BY DEF IInv, TypeOK, PoolInv
<1>2. /\ \A d \in Conn \ {c} : cnx'[d] = cnx[d]
      /\ cnx'[c] = s /\ s.op = "none" /\ s.req = None
      /\ ~s.made => s = Absent
  BY <1>1, AbsentFacts
<1>3. \/ ~s.made /\ pool' = pool
      \/ s.made /\ pool' = <<c>> \o pool
  BY AbsentFacts
<1>4. /\ pool' \in Seq(Conn)
      /\ Items(pool)' = IF s.made THEN {c} \cup Items(pool) ELSE Items(pool)
      /\ \A i, j \in DOMAIN pool' : pool'[i] = pool'[j] => i = j
  <2>1. CASE ~s.made /\ pool' = pool
    BY <1>1, <2>1 DEF IInv, PoolInv, Items
  <2>2. CASE s.made /\ pool' = <<c>> \o pool
    <3>1. \A i, j \in DOMAIN pool : pool[i] = pool[j] => i = j
      BY DEF IInv, PoolInv
    <3>2. Items(pool)' = Items(<<c>> \o pool)
      BY <2>2 DEF Items
    <3> QED BY <1>1, <2>2, <3>1, <3>2, PushItems
  <2> QED BY <1>3, <2>1, <2>2
<1>5. ASSUME NEW d \in Conn \ {c}
      PROVE  /\ cnx[d].op # "none" => req'[cnx[d].req] = "pending"
             /\ cnx[d].req = s.req => cnx[d].req = None
  <2>1. cnx[d].op # "none" => cnx[d].req # cnx[c].req
    BY DEF IInv, PoolInv
  <2>2. cnx[d] \in Connection
    BY <1>1
  <2>3. cnx[d].op # "none" => cnx[d].req \in Request
    BY <2>2, RequestFacts DEF IInv, PoolInv, Connection
  <2> QED BY <1>2, <2>1, <2>3 DEF IInv, PoolInv, TypeOK
<1>6. ASSUME NEW d \in Conn
      PROVE  /\ d \in Items(pool)' <=> cnx'[d].made /\ cnx'[d].op = "none"
             /\ ~cnx'[d].made => cnx'[d] = Absent
             /\ cnx'[d].op = "none" <=> cnx'[d].req = None
             /\ cnx'[d].op # "none" => req'[cnx'[d].req] = "pending"
  <2>1. CASE d = c
    BY <1>1, <1>2, <1>4, <2>1
  <2>2. CASE d # c
    <3>1. cnx'[d] = cnx[d] /\ (d \in Items(pool)' <=> d \in Items(pool))
      BY <1>2, <1>4, <2>2
    <3> QED BY <1>5, <2>2, <3>1 DEF IInv, PoolInv
  <2> QED BY <2>1, <2>2
<1>7. \A d, e \in Conn : cnx'[d].req = cnx'[e].req => d = e \/ cnx'[d].req = None
  BY <1>2, <1>5 DEF IInv, PoolInv
<1> QED BY <1>4, <1>6, <1>7 DEF PoolInv

\* The end of an operation (MessageBus::release).
LEMMA ReleaseInv ==
  ASSUME IInv, NEW c \in Conn, cnx[c].op # "none",
         NEW s \in Connection, s.made, s.link = cnx[c].link, Release(c, s),
         \/ s.error \/ s.cut
         \/ reply'[c] = <<>> /\ \A r \in Call \ handled : ~On(c, r),
         NEW o \in {"ok", "failed"}, CallBack(cnx[c].req, o),
         reply' \in [Conn -> Seq(Pong)], \A d \in Conn \ {c} : reply'[d] = reply[d],
         UNCHANGED <<stream, peer, listening, seen>>, faults' \in 0 .. MaxFaults,
         answer' \in [Call -> Call \cup {None}], AnswerIsOwn',
         torn \subseteq torn', torn' \subseteq Call, s.cut => torn' # {}
  PROVE  IInv'
<1> DEFINE q == [s EXCEPT !.bus = FALSE, !.op = "none", !.req = None,
                          !.keep = IF s.link = "none" THEN "failed" ELSE "reading"]
           t == IF s.error \/ ~s.bus THEN Absent ELSE q
<1>1. /\ q \in Connection /\ q.made /\ q.op = "none" /\ q.req = None
      /\ q.link = s.link /\ q.cut = s.cut
  BY DEF Connection
<1>2. /\ t \in Connection /\ cnx' = [cnx EXCEPT ![c] = t]
      /\ \/ t = Absent /\ pool' = pool
         \/ t = q /\ ~s.error /\ pool' = <<c>> \o pool
  <2>1. CASE s.error \/ ~s.bus
    <3>1. t = Absent /\ cnx' = [cnx EXCEPT ![c] = Absent] /\ pool' = pool
      BY <2>1, Zenon DEF Release
    <3> QED BY <3>1, AbsentFacts
  <2>2. CASE ~(s.error \/ ~s.bus)
    <3>1. t = q /\ cnx' = [cnx EXCEPT ![c] = q] /\ pool' = <<c>> \o pool
      BY <2>2, Zenon DEF Release
    <3>2. ~s.error
      BY <2>2
    <3> HIDE DEF q, t
    <3> QED BY <1>1, <3>1, <3>2
  <2> QED BY <2>1, <2>2
<1> HIDE DEF q, t
<1>3. /\ t.op = "none" /\ t.req = None
      /\ t.link = "up" => Up(c)
      /\ t.cut => torn' # {}
      /\ t.made /\ ~t.cut => reply'[c] = <<>> /\ \A r \in Call \ handled : ~On(c, r)
  BY <1>1, <1>2, AbsentFacts DEF Up
<1>5. req' = [req EXCEPT ![cnx[c].req] = o] /\ req[cnx[c].req] = "pending"
  BY DEF CallBack
<1>6. PoolInv' /\ pool' \in Seq(Conn)
  BY <1>1, <1>2, <1>5, ReleasePool
<1>7. \A r \in Request : req'[r] = "idle" => req[r] = "idle"
  BY <1>5 DEF IInv, TypeOK
<1>8. WireInv' /\ PlaceInv' /\ CleanInv'
  <2>1. t.op \notin {"connect", "unwritten"} /\ handled' = handled
    BY <1>3 DEF seen
  <2>2. t.made /\ ~t.cut => Clean(c)'
    <3> SUFFICES ASSUME t.made, ~t.cut PROVE Clean(c)'
      OBVIOUS
    <3>1. cnx'[c] = t /\ reply'[c] = <<>> /\ t.op = "none"
      BY <1>2, <1>3 DEF IInv, TypeOK
    <3>2. \A r \in Call \ handled : ~On(c, r)'
      BY <1>3 DEF On
    <3> QED BY <2>1, <3>1, <3>2 DEF Clean, Owed
  <2> QED BY <1>2, <1>3, <1>7, <2>1, <2>2, QuietWire
<1>9. TypeOK'
  <2>1. cnx' \in [Conn -> Connection]
    BY <1>2 DEF IInv, TypeOK
  <2>2. req' \in [Request -> {"idle", "pending", "ok", "failed"}]
    BY <1>5 DEF IInv, TypeOK
  <2> QED BY <1>6, <2>1, <2>2 DEF IInv, TypeOK, seen
<1>10. UseInv'
  BY <1>2, <1>3, SameUse
<1> QED BY <1>6, <1>8, <1>9, <1>10 DEF IInv

\* A callback that gets no Pong changes nothing of the answers.
LEMMA SameAnswers ==
  ASSUME IInv, UNCHANGED <<got, reply, faults>>
  PROVE  /\ reply' \in [Conn -> Seq(Pong)] /\ faults' \in 0 .. MaxFaults
         /\ answer' \in [Call -> Call \cup {None}] /\ AnswerIsOwn'
         /\ torn' = torn /\ torn' \subseteq Call /\ UNCHANGED reply
BY DEF IInv, TypeOK, AnswerIsOwn, got

LEMMA ConnectFailsInv ==
  ASSUME IInv, NEW c \in Conn, ConnectFails(c)
  PROVE  IInv'
<1>1. cnx[c] \in Connection /\ cnx[c].op = "connect"
  BY DEF IInv, TypeOK, ConnectFails
<1>2. stream[c] = <<>> /\ cnx[c].req \notin handled /\ cnx[c].made
  BY <1>1, AbsentFacts DEF IInv, PlaceInv, PoolInv
<1>3. \A r \in Call : ~On(c, r)
  BY <1>2 DEF On
<1>4. /\ UNCHANGED <<got, reply, faults, stream, peer, listening, seen>>
      /\ CallBack(cnx[c].req, "failed") /\ Release(c, cnx[c])
  BY DEF ConnectFails, wire
<1>5. cnx[c].cut \/ reply'[c] = <<>>
  BY <1>2, <1>4 DEF IInv, CleanInv, Clean
<1>6. cnx[c].cut => torn # {}
  BY DEF IInv, UseInv
<1>7. /\ reply' \in [Conn -> Seq(Pong)] /\ faults' \in 0 .. MaxFaults
      /\ answer' \in [Call -> Call \cup {None}] /\ AnswerIsOwn'
      /\ torn' = torn /\ torn' \subseteq Call /\ UNCHANGED reply
  BY <1>4, SameAnswers
<1> QED BY <1>1, <1>2, <1>3, <1>4, <1>5, <1>6, <1>7, ReleaseInv

LEMMA WriteDoneInv ==
  ASSUME IInv, NEW c \in Conn, WriteDone(c)
  PROVE  IInv'
<1>1. cnx[c] \in Connection /\ cnx[c].op = "write" /\ cnx[c].made
  BY AbsentFacts DEF IInv, TypeOK, PoolInv, WriteDone
<1>2. UNCHANGED <<got, reply, faults, stream, peer, listening, seen>>
  BY DEF WriteDone, wire
<1>3. cnx[c].cut => torn # {}
  BY DEF IInv, UseInv
<1>4. CASE cnx[c].req \in Send
  <2>1. CallBack(cnx[c].req, "ok") /\ Release(c, cnx[c])
    BY <1>4 DEF WriteDone
  <2>2. cnx[c].cut \/ (reply[c] = <<>> /\ \A r \in Call \ handled : ~On(c, r))
    BY <1>1, <1>4, RequestFacts DEF IInv, CleanInv, Clean
  <2>3. /\ reply' \in [Conn -> Seq(Pong)] /\ faults' \in 0 .. MaxFaults
        /\ answer' \in [Call -> Call \cup {None}] /\ AnswerIsOwn'
        /\ torn' = torn /\ torn' \subseteq Call /\ UNCHANGED reply
    BY <1>2, SameAnswers
  <2> QED BY <1>1, <1>2, <1>3, <2>1, <2>2, <2>3, ReleaseInv
<1>5. CASE cnx[c].req \notin Send
  <2> DEFINE s == [cnx[c] EXCEPT !.op = "read"]
  <2>1. /\ s \in Connection /\ s.op = "read" /\ s.made /\ s.req = cnx[c].req
        /\ s.link = cnx[c].link /\ s.cut = cnx[c].cut /\ s.keep = cnx[c].keep
        /\ cnx' = [cnx EXCEPT ![c] = s]
    BY <1>1, <1>5 DEF WriteDone, Connection, IInv, TypeOK
  <2> HIDE DEF s
  <2>2. UNCHANGED <<pool, wire, req, got, seen, faults>> /\ cnx[c].keep = "none"
    BY <1>5 DEF WriteDone, Runs
  <2>3. PoolInv'
    BY <1>1, <2>1, <2>2, SamePool DEF IInv, TypeOK
  <2>4. s.made /\ ~s.cut => Clean(c)'
    <3> SUFFICES ASSUME ~s.cut PROVE Clean(c)'
      OBVIOUS
    <3>1. Clean(c)
      BY <1>1, <2>1 DEF IInv, CleanInv
    <3>2. /\ cnx'[c] = s /\ reply'[c] = reply[c] /\ handled' = handled
          /\ (Up(c)' <=> Up(c)) /\ \A r : On(c, r)' <=> On(c, r)
      BY <2>1, <2>2 DEF IInv, TypeOK, wire, seen, Up, On
    <3>3. Owed(c)'
      BY <1>1, <2>1, <3>1, <3>2 DEF Clean, Owed
    <3> QED BY <1>1, <2>1, <3>1, <3>2, <3>3 DEF Clean
  <2>5. WireInv' /\ PlaceInv' /\ CleanInv'
    BY <1>1, <2>1, <2>2, <2>4, QuietWire DEF wire, seen, Up
  <2>6. TypeOK' /\ AnswerIsOwn'
    BY <2>1, <2>2 DEF IInv, TypeOK, AnswerIsOwn, wire, seen, got
  <2>7. cnx[c].req \in Call
    <3>1. cnx[c].req # None
      BY <1>1 DEF IInv, PoolInv
    <3> QED BY <1>1, <1>5, <3>1 DEF Connection, Request
  <2>8. UseInv'
    BY <1>3, <2>1, <2>2, <2>7, SameUse DEF got
  <2> QED BY <2>3, <2>5, <2>6, <2>8 DEF IInv
<1> QED BY <1>4, <1>5

\* What is marked with an error is deleted.
LEMMA FailedInv ==
  ASSUME IInv, NEW c \in Conn, cnx[c].op # "none",
         CallBack(cnx[c].req, "failed"), Release(c, [cnx[c] EXCEPT !.error = TRUE]),
         UNCHANGED <<wire, got, seen, faults>>
  PROVE  IInv'
<1> DEFINE s == [cnx[c] EXCEPT !.error = TRUE]
<1>1. cnx[c] \in Connection /\ cnx[c].made
  BY AbsentFacts DEF IInv, TypeOK, PoolInv
<1>2. s \in Connection /\ s.made /\ s.link = cnx[c].link /\ s.error /\ s.cut = cnx[c].cut
  BY <1>1 DEF Connection
<1>3. Release(c, s)
  OBVIOUS
<1> HIDE DEF s
<1>4. s.cut => torn # {}
  BY <1>2 DEF IInv, UseInv
<1>5. UNCHANGED <<got, reply, faults, stream, peer, listening, seen>>
  BY DEF wire
<1>6. /\ reply' \in [Conn -> Seq(Pong)] /\ faults' \in 0 .. MaxFaults
      /\ answer' \in [Call -> Call \cup {None}] /\ AnswerIsOwn'
      /\ torn' = torn /\ torn' \subseteq Call /\ UNCHANGED reply
  BY <1>5, SameAnswers
<1> QED BY <1>2, <1>3, <1>4, <1>5, <1>6, ReleaseInv

LEMMA WriteFailedInv ==
  ASSUME IInv, NEW c \in Conn, WriteFailed(c)
  PROVE  IInv'
BY FailedInv DEF WriteFailed

LEMMA ReadFailedInv ==
  ASSUME IInv, NEW c \in Conn, ReadFailed(c)
  PROVE  IInv'
BY FailedInv DEF ReadFailed

\* What is to come back on a connection that is not cut and reads for the first
\* time, or for the second.
LEMMA OwnReply ==
  ASSUME IInv, NEW c \in Conn, cnx[c].op \in {"read", "rest"}, ~cnx[c].cut, reply[c] # <<>>
  PROVE  /\ cnx[c].req \in Call \cap handled
         /\ \A r \in Call \ handled : ~On(c, r)
         /\ Head(reply[c]).of = cnx[c].req
         /\ cnx[c].op = "read" => \/ reply[c] = Whole(cnx[c].req)
                                  \/ reply[c] = <<Head1(cnx[c].req)>> /\ ~Up(c)
         /\ cnx[c].op = "rest" => reply[c] = <<Tail1(cnx[c].req)>>
<1>1. cnx[c].made /\ Clean(c)
  BY AbsentFacts DEF IInv, PoolInv, CleanInv
<1>2. cnx[c].req \in Call \cap handled /\ \A r \in Call \ handled : ~On(c, r)
  BY <1>1 DEF Clean
<1>3. /\ cnx[c].op = "read" => \/ reply[c] = Whole(cnx[c].req)
                               \/ reply[c] = <<Head1(cnx[c].req)>> /\ ~Up(c)
      /\ cnx[c].op = "rest" => reply[c] = <<Tail1(cnx[c].req)>>
  BY <1>1 DEF Clean, Owed
<1>4. Head(reply[c]).of = cnx[c].req
  BY <1>2, <1>3, WholePong DEF Head1, Tail1
<1> QED BY <1>2, <1>3, <1>4

LEMMA ReadPartInv ==
  ASSUME IInv, NEW c \in Conn, NEW k, ReadPart(c, k)
  PROVE  IInv'
<1> DEFINE s == [cnx[c] EXCEPT !.op = "rest"]
<1>1. /\ cnx[c] \in Connection /\ cnx[c].op = "read" /\ cnx[c].made
      /\ cnx[c].keep = "none" /\ reply[c] # <<>> /\ k \in 0 .. Len(reply[c])
  BY AbsentFacts DEF IInv, TypeOK, PoolInv, ReadPart, Reads, Runs
<1>2. /\ s \in Connection /\ s.op = "rest" /\ s.made /\ s.req = cnx[c].req
      /\ s.link = cnx[c].link /\ s.cut = cnx[c].cut /\ s.keep = "none"
      /\ cnx' = [cnx EXCEPT ![c] = s]
  BY <1>1 DEF ReadPart, Connection, IInv, TypeOK
<1> HIDE DEF s
<1>3. /\ UNCHANGED <<pool, stream, peer, listening, req, got, seen, faults>>
      /\ reply' = [reply EXCEPT ![c] = Past(@, k)]
  BY DEF ReadPart
<1>4. PoolInv'
  BY <1>1, <1>2, <1>3, SamePool DEF IInv, TypeOK
<1>5. /\ reply' \in [Conn -> Seq(Pong)] /\ reply'[c] = Past(reply[c], k)
      /\ \A d \in Conn \ {c} : reply'[d] = reply[d]
  BY <1>1, <1>3, PongParts DEF IInv, TypeOK
<1>6. s.made /\ ~s.cut => Clean(c)'
  <2> SUFFICES ASSUME ~cnx[c].cut PROVE Clean(c)'
    BY <1>2
  <2> DEFINE r == cnx[c].req
  <2>1. /\ r \in Call \cap handled /\ \A q \in Call \ handled : ~On(c, q)
        /\ reply[c] = Whole(r) \/ (reply[c] = <<Head1(r)>> /\ ~Up(c))
    BY <1>1, OwnReply
  <2>2. Head(reply[c]).part = "head"
    BY <2>1, WholePong DEF Head1
  <2>3. k = 1
    BY <2>2 DEF ReadPart
  <2>4. /\ cnx'[c] = s /\ handled' = handled
        /\ (Up(c)' <=> Up(c)) /\ \A q : On(c, q)' <=> On(c, q)
    BY <1>2, <1>3 DEF IInv, TypeOK, seen, Up, On
  <2>5. reply'[c] = <<Tail1(r)>> \/ (reply'[c] = <<>> /\ ~Up(c))
    <3>1. CASE reply[c] = Whole(r)
      BY <1>5, <2>1, <2>3, <3>1, PongPast
    <3>2. CASE reply[c] = <<Head1(r)>> /\ ~Up(c)
      BY <1>5, <2>1, <2>3, <3>2, PongPast
    <3> QED BY <2>1, <3>1, <3>2
  <2> QED BY <1>2, <2>1, <2>4, <2>5 DEF Clean, Owed
<1>7. WireInv' /\ PlaceInv' /\ CleanInv'
  BY <1>1, <1>2, <1>3, <1>5, <1>6, QuietWire DEF seen, Up
<1>8. TypeOK' /\ AnswerIsOwn'
  BY <1>2, <1>3, <1>5 DEF IInv, TypeOK, AnswerIsOwn, seen, got
<1>9. UseInv'
  <2>1. cnx[c].req \in Call /\ (cnx[c].cut => torn # {})
    BY <1>1 DEF IInv, UseInv
  <2> QED BY <1>2, <1>3, <2>1, SameUse DEF got
<1> QED BY <1>4, <1>7, <1>8, <1>9 DEF IInv

\* The end of a read, right or wrong: what it leaves behind is on a connection that
\* is cut.
LEMMA GotInv ==
  ASSUME IInv, NEW c \in Conn, cnx[c].op \in {"read", "rest"}, reply[c] # <<>>,
         NEW k \in 0 .. Len(reply[c]),
         NEW s \in Connection, s.made, s.link = cnx[c].link, s.req = cnx[c].req,
         \/ s.cut
         \/ ~cnx[c].cut /\ Past(reply[c], k) = <<>>,
         Got(c, k, s), Fault \/ UNCHANGED faults
  PROVE  IInv'
<1>1. cnx[c].req \in Call /\ reply[c] \in Seq(Pong)
  BY DEF IInv, UseInv, TypeOK
<1>2. /\ CallBack(cnx[c].req, "ok") /\ Release(c, s)
      /\ answer' = [answer EXCEPT ![cnx[c].req] = Head(reply[c]).of]
      /\ torn' = IF s.cut THEN torn \cup {cnx[c].req} ELSE torn
      /\ reply' = [reply EXCEPT ![c] = Past(@, k)]
      /\ UNCHANGED <<stream, peer, listening, seen>>
  BY DEF Got
<1>3. /\ reply' \in [Conn -> Seq(Pong)] /\ reply'[c] = Past(reply[c], k)
      /\ \A d \in Conn \ {c} : reply'[d] = reply[d]
  BY <1>1, <1>2, PongParts DEF IInv, TypeOK
<1>4. Head(reply[c]).of \in Call
  <2>1. Head(reply[c]) \in Pong
    BY <1>1
  <2> QED BY <2>1 DEF Pong
<1>5. answer' \in [Call -> Call \cup {None}] /\ torn \subseteq torn' /\ torn' \subseteq Call
  BY <1>1, <1>2, <1>4 DEF IInv, TypeOK
<1>6. s.cut \/ (reply'[c] = <<>> /\ \A r \in Call \ handled : ~On(c, r))
  BY <1>3, OwnReply
<1>7. AnswerIsOwn'
  <2> SUFFICES ASSUME NEW r \in Call, r \notin torn' PROVE answer'[r] \in {r, None}
    BY DEF AnswerIsOwn
  <2>1. CASE r = cnx[c].req
    <3>1. ~s.cut
      BY <1>2, <2>1
    <3>2. Head(reply[c]).of = r
      BY <2>1, <3>1, OwnReply
    <3> QED BY <1>2, <2>1, <3>2 DEF IInv, TypeOK
  <2>2. CASE r # cnx[c].req
    <3>1. answer'[r] = answer[r] /\ r \notin torn
      BY <1>2, <1>5, <2>2 DEF IInv, TypeOK
    <3> QED BY <3>1 DEF IInv, AnswerIsOwn
  <2> QED BY <2>1, <2>2
<1>8. faults' \in 0 .. MaxFaults /\ (s.cut => torn' # {})
  BY <1>2, FaultCount DEF IInv
<1> QED BY <1>2, <1>3, <1>5, <1>6, <1>7, <1>8, ReleaseInv

\* A Pong that is read on a connection that is not cut is the only one there, and
\* that of its call.
LEMMA ReadDoneInv ==
  ASSUME IInv, NEW c \in Conn, NEW k, ReadDone(c, k)
  PROVE  IInv'
<1>1. /\ cnx[c] \in Connection /\ cnx[c].op \in {"read", "rest"} /\ cnx[c].made
      /\ reply[c] # <<>> /\ k \in 0 .. Len(reply[c])
      /\ Got(c, k, cnx[c]) /\ UNCHANGED faults
  BY AbsentFacts DEF IInv, TypeOK, PoolInv, ReadDone, Reads
<1>2. ~cnx[c].cut => Past(reply[c], k) = <<>>
  <2> SUFFICES ASSUME ~cnx[c].cut PROVE Past(reply[c], k) = <<>>
    OBVIOUS
  <2> DEFINE r == cnx[c].req
  <2>1. /\ r \in Call
        /\ cnx[c].op = "read" => reply[c] = Whole(r) \/ reply[c] = <<Head1(r)>>
        /\ cnx[c].op = "rest" => reply[c] = <<Tail1(r)>>
    BY <1>1, OwnReply
  <2>2. CASE cnx[c].op = "read"
    <3>1. Head(reply[c]).part = "head"
      BY <2>1, <2>2, WholePong DEF Head1
    <3>2. k >= 2
      BY <2>2, <3>1 DEF ReadDone, Reads
    <3>3. CASE reply[c] = Whole(r)
      <4>1. k = 2
        <5>1. Len(reply[c]) = 2
          BY <2>1, <3>3, WholePong
        <5>2. k \in 0 .. 2
          BY <1>1, <5>1
        <5> QED BY <3>2, <5>2
      <4> QED BY <2>1, <3>3, <4>1, PongPast
    <3>4. CASE reply[c] = <<Head1(r)>>
      <4>1. Len(reply[c]) = 1
        BY <3>4
      <4> QED BY <1>1, <3>2, <4>1
    <3> QED BY <2>1, <2>2, <3>3, <3>4
  <2>3. CASE cnx[c].op = "rest"
    <3>1. k = 1
      BY <2>3 DEF ReadDone, Reads
    <3> QED BY <2>1, <2>3, <3>1, PongPast
  <2> QED BY <1>1, <2>2, <2>3
<1> QED BY <1>1, <1>2, GotInv

LEMMA ReadShortInv ==
  ASSUME IInv, NEW c \in Conn, ReadShort(c)
  PROVE  IInv'
<1> DEFINE s == [cnx[c] EXCEPT !.cut = TRUE]
<1>1. /\ cnx[c] \in Connection /\ cnx[c].op \in {"read", "rest"} /\ cnx[c].made
      /\ reply[c] # <<>> /\ reply[c] \in Seq(Pong) /\ Fault
  BY AbsentFacts DEF IInv, TypeOK, PoolInv, ReadShort, Reads
<1>2. s \in Connection /\ s.made /\ s.link = cnx[c].link /\ s.req = cnx[c].req /\ s.cut
  BY <1>1 DEF Connection
<1>3. 0 \in 0 .. Len(reply[c]) /\ 1 \in 0 .. Len(reply[c])
  BY <1>1
<1>4. Got(c, 0, s) \/ Got(c, 1, s)
  BY DEF ReadShort
<1> HIDE DEF s
<1> QED BY <1>1, <1>2, <1>3, <1>4, GotInv

LEMMA ReadAstrayInv ==
  ASSUME IInv, NEW c \in Conn, NEW k, ReadAstray(c, k)
  PROVE  IInv'
<1>1. /\ cnx[c] \in Connection /\ cnx[c].op = "rest" /\ cnx[c].made /\ cnx[c].cut
      /\ reply[c] # <<>> /\ k \in 0 .. Len(reply[c])
      /\ Got(c, k, cnx[c]) /\ UNCHANGED faults
  BY AbsentFacts DEF IInv, TypeOK, PoolInv, ReadAstray, Reads
<1> QED BY <1>1, GotInv

\* What the keep-alive read does is only between the connection and its error, and
\* it takes something only from a connection that is cut.
LEMMA KeepAliveInv ==
  ASSUME IInv, NEW c \in Conn,
         \/ KeepAliveEnds(c) \/ HandleKeepAlive(c)
         \/ \E k : KeepAliveReads(c, k)
  PROVE  IInv'
<1>1. cnx[c] \in Connection /\ cnx[c].keep # "none"
  BY DEF IInv, TypeOK, KeepAliveEnds, HandleKeepAlive, KeepAliveReads
<1>2. cnx[c].made
  BY <1>1, AbsentFacts DEF IInv, PoolInv
<1>3. PICK q \in Connection :
        /\ q.op = cnx[c].op /\ q.made /\ q.req = cnx[c].req /\ q.cut = cnx[c].cut
        /\ q.link = cnx[c].link /\ q.keep # "reading" /\ cnx' = [cnx EXCEPT ![c] = q]
  <2>1. ASSUME NEW w \in {"failed", "taken"}, cnx' = [cnx EXCEPT ![c].keep = w]
        PROVE  \E q \in Connection :
                 /\ q.op = cnx[c].op /\ q.made /\ q.req = cnx[c].req /\ q.cut = cnx[c].cut
                 /\ q.link = cnx[c].link /\ q.keep # "reading"
                 /\ cnx' = [cnx EXCEPT ![c] = q]
    <3> DEFINE q == [cnx[c] EXCEPT !.keep = w]
    <3>1. /\ q \in Connection /\ q.op = cnx[c].op /\ q.made /\ q.req = cnx[c].req
          /\ q.cut = cnx[c].cut /\ q.link = cnx[c].link /\ q.keep # "reading"
      BY <1>1, <1>2 DEF Connection
    <3>2. cnx' = [cnx EXCEPT ![c] = q]
      BY <2>1 DEF IInv, TypeOK
    <3> QED BY <3>1, <3>2
  <2>2. CASE HandleKeepAlive(c)
    <3> DEFINE t == [cnx[c] EXCEPT !.keep  = "none",
                                   !.error = @ \/ cnx[c].keep = "failed"]
    <3>1. /\ t \in Connection /\ t.op = cnx[c].op /\ t.made /\ t.req = cnx[c].req
          /\ t.cut = cnx[c].cut /\ t.link = cnx[c].link /\ t.keep # "reading"
      BY <1>1, <1>2 DEF Connection
    <3>2. cnx' = [cnx EXCEPT ![c] = t]
      BY <1>1, <2>2 DEF HandleKeepAlive, IInv, TypeOK
    <3> QED BY <3>1, <3>2
  <2> QED BY <2>1, <2>2 DEF KeepAliveEnds, KeepAliveReads
<1>4. /\ UNCHANGED <<pool, stream, peer, listening, req, got, seen, faults>>
      /\ \/ reply' = reply
         \/ \E k \in 0 .. Len(reply[c]) :
              reply' = [reply EXCEPT ![c] = Past(@, k)] /\ cnx[c].keep = "reading"
              /\ reply[c] # <<>>
  <2>1. \A k \in {0, 1} : reply[c] # <<>> => k \in 0 .. Len(reply[c])
    BY DEF IInv, TypeOK
  <2> QED BY <2>1 DEF KeepAliveEnds, HandleKeepAlive, KeepAliveReads, wire
<1>5. /\ reply' \in [Conn -> Seq(Pong)]
      /\ \A d \in Conn \ {c} : reply'[d] = reply[d]
  <2>1. reply \in [Conn -> Seq(Pong)]
    BY DEF IInv, TypeOK
  <2>2. CASE reply' = reply
    BY <2>1, <2>2
  <2>3. ASSUME NEW k \in 0 .. Len(reply[c]), reply' = [reply EXCEPT ![c] = Past(@, k)]
        PROVE  /\ reply' \in [Conn -> Seq(Pong)]
               /\ \A d \in Conn \ {c} : reply'[d] = reply[d]
    <3>1. Past(reply[c], k) \in Seq(Pong)
      BY <2>1, PongParts
    <3> QED BY <2>1, <2>3, <3>1
  <2> QED BY <1>4, <2>2, <2>3
<1>6. cnx[c].cut \/ reply'[c] = reply[c]
  <2>1. CASE reply' = reply
    BY <2>1
  <2>2. CASE cnx[c].keep = "reading" /\ reply[c] # <<>>
    <3>1. cnx[c].op = "none"
      BY <2>2 DEF IInv, UseInv
    <3> QED BY <1>2, <2>2, <3>1, NotInUse
  <2> QED BY <1>4, <2>1, <2>2
<1>7. PoolInv'
  BY <1>2, <1>3, <1>4, SamePool DEF IInv, TypeOK
<1>8. q.made /\ ~q.cut => Clean(c)'
  <2> SUFFICES ASSUME ~cnx[c].cut PROVE Clean(c)'
    BY <1>3
  <2>1. Clean(c) /\ reply'[c] = reply[c]
    BY <1>2, <1>6 DEF IInv, CleanInv
  <2>2. /\ cnx'[c] = q /\ handled' = handled
        /\ (Up(c)' <=> Up(c)) /\ \A r : On(c, r)' <=> On(c, r)
    BY <1>3, <1>4 DEF IInv, TypeOK, seen, Up, On
  <2>3. Owed(c)'
    BY <1>3, <2>1, <2>2 DEF Clean, Owed
  <2> QED BY <1>3, <2>1, <2>2, <2>3 DEF Clean
<1>9. WireInv' /\ PlaceInv' /\ CleanInv'
  BY <1>3, <1>4, <1>5, <1>8, QuietWire DEF seen, Up
<1>10. TypeOK' /\ AnswerIsOwn'
  BY <1>3, <1>4, <1>5 DEF IInv, TypeOK, AnswerIsOwn, seen, got
<1>11. UseInv'
  <2>1. /\ cnx[c].op \in {"read", "rest"} => cnx[c].req \in Call
        /\ cnx[c].cut => torn # {}
    BY DEF IInv, UseInv
  <2> QED BY <1>3, <1>4, <2>1, SameUse DEF got
<1> QED BY <1>7, <1>9, <1>10, <1>11 DEF IInv

-----------------------------------------------------------------------------
(* A request is written *)

\* r was nowhere before, and nothing was to come back on c.
LEMMA WriteWire ==
  ASSUME IInv, NEW c \in Conn, NEW r \in Request,
         NEW f \in [Conn -> Connection], NEW s \in Connection, Write(f, c, s, r),
         \A d \in Conn \ {c} : f[d] = cnx[d] \/ f[d] = Absent,
         \A d \in Conn \ {c} : cnx[d].req # r,
         s.made, r \notin handled, \A d \in Conn : ~On(d, r),
         s.cut \/ (reply[c] = <<>> /\ \A q \in Call \ handled : ~On(c, q)),
         \/ peer' = peer /\ (s.link = "up" => Up(c))
         \/ peer' = [peer EXCEPT ![c] = "first"] /\ stream[c] = <<>>,
         UNCHANGED <<reply, handled>>,
         \A q \in Request : req'[q] = "idle" => q # r /\ req[q] = "idle"
  PROVE  /\ WireInv' /\ PlaceInv' /\ CleanInv' /\ stream' \in [Conn -> Seq(Part)]
         /\ \E t \in Connection : /\ t.made /\ t.req = r /\ t.op \in {"write", "unwritten"}
                                  /\ t.keep = s.keep /\ t.cut = s.cut
                                  /\ cnx' = [f EXCEPT ![c] = t]
<1> DEFINE t(o) == [s EXCEPT !.req = r, !.op = o]
<1>1. PICK written \in CASE s.link = "up"   -> {TRUE}
                         [] s.link = "none" -> {FALSE}
                         [] OTHER           -> BOOLEAN :
        /\ cnx' = [f EXCEPT ![c] = t(IF written THEN "write" ELSE "unwritten")]
        /\ stream' = IF s.link = "up"
                     THEN [stream EXCEPT ![c] = @ \o Whole(r)]
                     ELSE stream
  BY DEF Write
<1>2. PICK o \in {"write", "unwritten"} :
        cnx' = [f EXCEPT ![c] = t(o)] /\ (s.link = "up" => o = "write")
  <2>1. CASE s.link = "up"
    <3>1. written = TRUE
      BY <1>1, <2>1
    <3> QED BY <1>1, <3>1
  <2>2. CASE s.link # "up"
    <3>1. (IF written THEN "write" ELSE "unwritten") \in {"write", "unwritten"}
      OBVIOUS
    <3> QED BY <1>1, <2>2, <3>1
  <2> QED BY <2>1, <2>2
<1>3. /\ t(o) \in Connection /\ t(o).made /\ t(o).req = r /\ t(o).op = o
      /\ t(o).link = s.link /\ t(o).keep = s.keep /\ t(o).cut = s.cut
  BY DEF Connection
<1> HIDE DEF t
<1>4. cnx'[c] = t(o) /\ \A d \in Conn \ {c} : cnx'[d] = f[d]
  BY <1>2
<1>8. ASSUME \A d \in Conn \ {c} : \A q : On(d, q)' <=> On(d, q),
             \A q : On(c, q)' => On(c, q) \/ q = r
      PROVE  CleanInv'
  <2> SUFFICES ASSUME NEW d \in Conn, cnx'[d].made, ~cnx'[d].cut PROVE Clean(d)'
    BY DEF CleanInv
  <2>1. handled' = handled /\ reply' = reply
    OBVIOUS
  <2>2. CASE d = c
    <3>1. ~s.cut /\ cnx'[d].req = r /\ cnx'[d].op # "rest" /\ reply'[d] = <<>>
      BY <1>3, <1>4, <2>2
    <3>2. \A q \in Call \ handled : On(d, q)' => q = r
      BY <1>8, <2>2, <3>1
    <3> QED BY <2>1, <3>1, <3>2 DEF Clean, Owed
  <2>3. CASE d # c
    <3>1. cnx'[d] = cnx[d] /\ (Up(d)' <=> Up(d))
      BY <1>4, <2>3, AbsentFacts DEF Up
    <3>2. Clean(d)
      BY <3>1 DEF IInv, CleanInv
    <3>3. Owed(d)'
      BY <2>1, <3>1, <3>2 DEF Clean, Owed
    <3> QED BY <1>8, <2>1, <2>3, <3>1, <3>2, <3>3 DEF Clean
  <2> QED BY <2>2, <2>3
<1>5. stream \in [Conn -> Seq(Part)] /\ \A d \in Conn : stream[d] \in Seq(Part)
  BY DEF IInv, TypeOK
<1>6. CASE s.link # "up"
  <2>1. stream' = stream
    BY <1>1, <1>6
  <2>2. \A d \in Conn : \A q : On(d, q)' <=> On(d, q)
    BY <2>1 DEF On
  <2>3. \A d \in Conn : Up(d)' => Up(d) /\ d # c
    BY <1>3, <1>4, <1>6, AbsentFacts DEF Up
  <2>4. WireInv'
    <3> SUFFICES ASSUME NEW d \in Conn PROVE WireInv!(d)'
      BY DEF WireInv
    <3>1. WireInv!(d)
      BY DEF IInv, WireInv
    <3>2. Pairs(stream[d], Up(d))'
      <4>1. CASE Up(d)'
        <5>1. Up(d)
          BY <2>3, <4>1
        <5> QED BY <2>1, <3>1, <4>1, <5>1, Zenon DEF Pairs
      <4>2. CASE ~Up(d)'
        BY <2>1, <3>1, <4>2, Zenon DEF Pairs
      <4> QED BY <4>1, <4>2
    <3>3. (/\ \A i \in 1 .. Len(stream[d]) :
                stream[d][i].part = "head" => stream[d][i].of \notin handled
           /\ peer[d] = "rest" =>
                \/ stream[d] = <<>> /\ ~Up(d)
                \/ stream[d] # <<>> /\ stream[d][1].part = "tail"
                                    /\ stream[d][1].of \notin handled)'
      <4>1. peer'[d] = "rest" => peer[d] = "rest"
        BY DEF IInv, TypeOK
      <4> QED BY <2>1, <2>3, <3>1, <4>1
    <3>4. (cnx[d].op = "unwritten" => ~Up(d))'
      BY <1>4, <2>3, <3>1, AbsentFacts
    <3> QED BY <3>2, <3>3, <3>4
  <2>5. PlaceInv'
    <3>1. \A d \in Conn : cnx'[d].op = "connect" => d # c /\ cnx'[d] = cnx[d]
      BY <1>3, <1>4, AbsentFacts
    <3>2. (\A d \in Conn : cnx[d].op = "connect" =>
             /\ cnx[d].link = "none" /\ stream[d] = <<>>
             /\ cnx[d].req \notin handled /\ \A e \in Conn : ~On(e, cnx[d].req))'
      BY <2>1, <3>1 DEF IInv, PlaceInv, On
    <3>3. \A q \in Request : req'[q] = "idle" => q \notin handled'
      BY DEF IInv, PlaceInv
    <3>4. \A d \in Conn, q \in Request : On(d, q)' => req'[q] # "idle"
      BY <2>2 DEF IInv, PlaceInv
    <3>5. \A d, e \in Conn, q \in Request : On(d, q)' /\ On(e, q)' => d = e
      BY <2>2 DEF IInv, PlaceInv
    <3> QED BY <3>2, <3>3, <3>4, <3>5 DEF PlaceInv
  <2>6. CleanInv'
    BY <1>8, <2>2
  <2> QED BY <1>2, <1>3, <1>5, <2>1, <2>4, <2>5, <2>6
<1>7. CASE s.link = "up"
  <2> DEFINE new == stream[c] \o Whole(r)
  <2>1. stream' = [stream EXCEPT ![c] = new]
    BY <1>1, <1>7
  <2>2. Pairs(stream[c], TRUE)
    <3>1. Up(c) \/ stream[c] = <<>>
      BY <1>7
    <3>2. CASE Up(c)
      <4>1. Pairs(stream[c], Up(c))
        BY DEF IInv, WireInv
      <4> QED BY <3>2, <4>1, Zenon DEF Pairs
    <3>3. CASE stream[c] = <<>>
      BY <3>3 DEF Pairs
    <3> QED BY <3>1, <3>2, <3>3
  <2>3. /\ new \in Seq(Part) /\ Len(new) = Len(stream[c]) + 2
        /\ \A i \in 1 .. Len(stream[c]) : new[i] = stream[c][i]
        /\ new[Len(stream[c]) + 1] = Head1(r) /\ new[Len(stream[c]) + 2] = Tail1(r)
        /\ Pairs(new, TRUE) /\ Len(stream[c]) \in Nat
    <3>1. stream[c] \in Seq(Part) /\ Len(stream[c]) \in Nat
      BY <1>5
    <3>2. \A i \in 1 .. Len(stream[c]) : stream[c][i].of # r
      BY DEF On
    <3> QED BY <2>2, <3>1, <3>2, WriteParts
  <2> HIDE DEF new
  <2>4. /\ stream'[c] = new /\ \A d \in Conn \ {c} : stream'[d] = stream[d]
        /\ stream' \in [Conn -> Seq(Part)]
    BY <1>5, <2>1, <2>3
  <2>5. ASSUME NEW i \in 1 .. Len(new)
        PROVE  i \in 1 .. Len(stream[c]) \/ new[i].of = r
    <3>1. i \in 1 .. Len(stream[c]) \/ i = Len(stream[c]) + 1 \/ i = Len(stream[c]) + 2
      BY <2>3
    <3> QED BY <2>3, <3>1 DEF Head1, Tail1
  <2>6. /\ \A d \in Conn \ {c} : \A q : On(d, q)' <=> On(d, q)
        /\ \A q : On(c, q)' => On(c, q) \/ q = r
    BY <2>3, <2>4, <2>5 DEF On
  <2>7. \A d \in Conn \ {c} : Up(d)' => Up(d)
    BY <1>4, AbsentFacts DEF Up
  <2>8. WireInv'
    <3> SUFFICES ASSUME NEW d \in Conn PROVE WireInv!(d)'
      BY DEF WireInv
    <3>1. WireInv!(d)
      BY DEF IInv, WireInv
    <3>2. CASE d # c
      <4>1. Pairs(stream[d], Up(d))'
        <5>1. CASE Up(d)'
          <6>1. Up(d)
            BY <2>7, <3>2, <5>1
          <6>2. Pairs(stream[d], Up(d)')
            BY <3>1, <5>1, <6>1, Zenon DEF Pairs
          <6> QED BY <2>4, <3>2, <6>2
        <5>2. CASE ~Up(d)'
          <6>1. Pairs(stream[d], Up(d)')
            BY <3>1, <5>2, Zenon DEF Pairs
          <6> QED BY <2>4, <3>2, <6>1
        <5> QED BY <5>1, <5>2
      <4>2. peer'[d] = peer[d] /\ stream'[d] = stream[d]
        BY <2>4, <3>2 DEF IInv, TypeOK
      <4>3. (/\ \A i \in 1 .. Len(stream[d]) :
                  stream[d][i].part = "head" => stream[d][i].of \notin handled
             /\ peer[d] = "rest" =>
                  \/ stream[d] = <<>> /\ ~Up(d)
                  \/ stream[d] # <<>> /\ stream[d][1].part = "tail"
                                      /\ stream[d][1].of \notin handled)'
        BY <2>7, <3>1, <3>2, <4>2
      <4>4. (cnx[d].op = "unwritten" => ~Up(d))'
        BY <1>4, <2>7, <3>1, <3>2, AbsentFacts
      <4> QED BY <4>1, <4>3, <4>4
    <3>3. CASE d = c
      <4>1. Up(c)'
        BY <1>3, <1>4, <1>7 DEF Up
      <4>2. Pairs(stream[c], Up(c))'
        BY <2>3, <2>4, <4>1, Zenon DEF Pairs
      <4>3. \A i \in 1 .. Len(new) : new[i].part = "head" => new[i].of \notin handled
        BY <2>3, <2>5, <3>1, <3>3
      <4>4. peer'[c] = "rest" => new # <<>> /\ new[1].part = "tail" /\ new[1].of \notin handled
        <5> SUFFICES ASSUME peer'[c] = "rest"
                     PROVE  new # <<>> /\ new[1].part = "tail" /\ new[1].of \notin handled
          OBVIOUS
        <5>1. peer[c] = "rest" /\ Up(c)
          BY <1>7 DEF IInv, TypeOK
        <5>2. stream[c] # <<>> /\ stream[c][1].part = "tail" /\ stream[c][1].of \notin handled
          BY <3>1, <3>3, <5>1
        <5>3. 1 \in 1 .. Len(stream[c])
          BY <1>5, <5>2
        <5> QED BY <2>3, <5>2, <5>3
      <4>5. cnx'[c].op # "unwritten"
        BY <1>2, <1>3, <1>4, <1>7
      <4> QED BY <2>4, <3>3, <4>2, <4>3, <4>4, <4>5
    <3> QED BY <3>2, <3>3
  <2>9. PlaceInv'
    <3>1. \A d, e \in Conn, q \in Request : On(d, q)' /\ On(e, q)' => d = e
      BY <2>6 DEF IInv, PlaceInv
    <3>2. \A d \in Conn : cnx'[d].op = "connect" => d # c /\ cnx'[d] = cnx[d]
      BY <1>3, <1>4, AbsentFacts
    <3>3. (\A d \in Conn : cnx[d].op = "connect" =>
             /\ cnx[d].link = "none" /\ stream[d] = <<>>
             /\ cnx[d].req \notin handled /\ \A e \in Conn : ~On(e, cnx[d].req))'
      <4> SUFFICES ASSUME NEW d \in Conn, cnx'[d].op = "connect"
                   PROVE  (/\ cnx[d].link = "none" /\ stream[d] = <<>>
                           /\ cnx[d].req \notin handled
                           /\ \A e \in Conn : ~On(e, cnx[d].req))'
        OBVIOUS
      <4>1. d # c /\ cnx'[d] = cnx[d] /\ stream'[d] = stream[d]
        BY <2>4, <3>2
      <4>2. /\ cnx[d].link = "none" /\ stream[d] = <<>> /\ cnx[d].req \notin handled
            /\ \A e \in Conn : ~On(e, cnx[d].req)
        BY <4>1 DEF IInv, PlaceInv
      <4>3. cnx[d].req # r
        BY <4>1
      <4>4. (\A e \in Conn : ~On(e, cnx[d].req))'
        <5> SUFFICES ASSUME NEW e \in Conn, NEW i \in 1 .. Len(stream'[e]),
                            stream'[e][i].of = cnx[d].req
                     PROVE  FALSE
          BY <4>1 DEF On
        <5>1. CASE e = c
          <6>1. i \in 1 .. Len(new) /\ new[i].of = cnx[d].req
            BY <2>4, <5>1
          <6>2. i \in 1 .. Len(stream[c]) /\ stream[c][i].of = cnx[d].req
            BY <2>3, <2>5, <4>3, <6>1
          <6> QED BY <4>2, <6>2 DEF On
        <5>2. CASE e # c
          BY <2>4, <4>2, <5>2 DEF On
        <5> QED BY <5>1, <5>2
      <4> QED BY <4>1, <4>2, <4>4
    <3>4. \A q \in Request : req'[q] = "idle" => q \notin handled'
      BY DEF IInv, PlaceInv
    <3>5. \A d \in Conn, q \in Request : On(d, q)' => req'[q] # "idle"
      BY <2>6 DEF IInv, PlaceInv
    <3> QED BY <3>1, <3>3, <3>4, <3>5 DEF PlaceInv
  <2>10. CleanInv'
    BY <1>8, <2>6
  <2> QED BY <1>2, <1>3, <2>4, <2>8, <2>9, <2>10
<1> QED BY <1>6, <1>7
\* What is taken from the front of the pool.
LEMMA AfterItems ==
  ASSUME NEW q \in Seq(Conn), \A i, j \in DOMAIN q : q[i] = q[j] => i = j,
         NEW i \in DOMAIN q
  PROVE  LET t == SubSeq(q, i + 1, Len(q))
         IN  /\ t \in Seq(Conn)
             /\ Items(t) = Items(q) \ {q[j] : j \in 1 .. i}
             /\ \A j, k \in DOMAIN t : t[j] = t[k] => j = k
<1> DEFINE t == SubSeq(q, i + 1, Len(q))
<1>1. Len(q) \in Nat /\ DOMAIN q = 1 .. Len(q) /\ i \in 1 .. Len(q)
  OBVIOUS
<1>2. /\ t \in Seq(Conn) /\ Len(t) = Len(q) - i /\ DOMAIN t = 1 .. Len(t)
      /\ \A j \in 1 .. Len(t) : j + i \in DOMAIN q /\ t[j] = q[j + i]
  BY <1>1, SubSeqProperties
<1> HIDE DEF t
<1>3. ASSUME NEW j \in DOMAIN t, NEW k \in DOMAIN t, t[j] = t[k]
      PROVE  j = k
  <2>1. j + i = k + i
    BY <1>2, <1>3
  <2> QED BY <1>1, <1>2, <2>1
<1>4. ASSUME NEW x \in Items(t) PROVE x \in Items(q) \ {q[j] : j \in 1 .. i}
  <2>1. PICK j \in 1 .. Len(t) : x = t[j]
    BY <1>2 DEF Items
  <2>2. j + i \in DOMAIN q /\ x = q[j + i]
    BY <1>2, <2>1
  <2>3. ASSUME NEW k \in 1 .. i, x = q[k] PROVE FALSE
    <3>1. k \in DOMAIN q
      BY <1>1
    <3>2. k = j + i
      BY <2>2, <2>3, <3>1
    <3> QED BY <1>1, <3>2
  <2> QED BY <2>2, <2>3 DEF Items
<1>5. ASSUME NEW x \in Items(q) \ {q[j] : j \in 1 .. i} PROVE x \in Items(t)
  <2>1. PICK k \in DOMAIN q : x = q[k]
    BY DEF Items
  <2>2. k \notin 1 .. i
    BY <1>5, <2>1
  <2>3. k - i \in 1 .. Len(t) /\ (k - i) + i = k
    BY <1>1, <1>2, <2>2
  <2>4. x = t[k - i]
    BY <1>2, <2>1, <2>3
  <2> QED BY <1>2, <2>3, <2>4 DEF Items
<1> QED BY <1>2, <1>3, <1>4, <1>5 DEF t

LEMMA InPool ==
  ASSUME IInv, NEW c \in Items(pool)
  PROVE  /\ c \in Conn /\ cnx[c].made /\ cnx[c].op = "none" /\ cnx[c].req = None
         /\ cnx[c].cut \/ (reply[c] = <<>> /\ \A q \in Call \ handled : ~On(c, q))
<1>1. c \in Conn
  BY DEF IInv, TypeOK, Items
<1> QED BY <1>1, NotInUse DEF IInv, PoolInv

\* r gets c, and all that was in the pool and is no more is deleted.
LEMMA SubmitPool ==
  ASSUME IInv, NEW c \in Conn, NEW r \in Request, req[r] = "idle",
         req' = [req EXCEPT ![r] = "pending"],
         cnx[c].op = "none", cnx'[c].made, cnx'[c].op # "none", cnx'[c].req = r,
         pool' \in Seq(Conn), Items(pool)' \subseteq Items(pool) \ {c},
         \A i, j \in DOMAIN pool' : pool'[i] = pool'[j] => i = j,
         \A d \in Conn \ {c} :
           cnx'[d] = IF d \in Items(pool) \ Items(pool)' THEN Absent ELSE cnx[d]
  PROVE  PoolInv'
<1>1. r # None
  BY RequestFacts
<1>2. \A d \in Conn : cnx[d].req # r
  BY <1>1 DEF IInv, PoolInv
<1>3. req' = [req EXCEPT ![r] = "pending"] /\ req'[r] = "pending"
  BY DEF IInv, TypeOK
<1>4. ASSUME NEW d \in Conn
      PROVE  /\ d \in Items(pool)' <=> cnx'[d].made /\ cnx'[d].op = "none"
             /\ ~cnx'[d].made => cnx'[d] = Absent
             /\ cnx'[d].op = "none" <=> cnx'[d].req = None
             /\ cnx'[d].op # "none" => req'[cnx'[d].req] = "pending"
  <2>1. CASE d = c
    BY <1>1, <1>3, <2>1
  <2>2. CASE d # c /\ d \in Items(pool) \ Items(pool)'
    BY <2>2, AbsentFacts
  <2>3. CASE d # c /\ d \notin Items(pool) \ Items(pool)'
    <3>1. cnx'[d] = cnx[d] /\ (d \in Items(pool)' <=> d \in Items(pool))
      BY <2>3
    <3>2. cnx[d].op # "none" => req'[cnx[d].req] = "pending"
      BY <1>2, <1>3 DEF IInv, PoolInv, TypeOK
    <3> QED BY <3>1, <3>2 DEF IInv, PoolInv
  <2> QED BY <2>1, <2>2, <2>3
<1>5. \A d \in Conn \ {c} : cnx'[d].req = None \/ cnx'[d].req = cnx[d].req
  BY AbsentFacts
<1>6. \A d, e \in Conn : cnx'[d].req = cnx'[e].req => d = e \/ cnx'[d].req = None
  BY <1>1, <1>2, <1>5 DEF IInv, PoolInv
<1> QED BY <1>4, <1>6 DEF PoolInv

\* c is used for another request, and some of the pool may be deleted.
LEMMA SubmitUse ==
  ASSUME IInv, NEW c \in Conn, torn' = torn,
         \A d \in Conn \ {c} : cnx'[d] = cnx[d] \/ cnx'[d] = Absent,
         cnx'[c].keep # "reading", cnx'[c].op \notin {"read", "rest"},
         cnx'[c].cut => cnx[c].cut
  PROVE  UseInv'
BY AbsentFacts DEF IInv, UseInv

LEMMA ReuseInv ==
  ASSUME IInv, NEW r \in Request, Submit(r), Reuse(r)
  PROVE  IInv'
<1>1. /\ req[r] = "idle" /\ req' = [req EXCEPT ![r] = "pending"]
      /\ UNCHANGED <<peer, listening, answer, torn, seen, faults, reply>>
  BY DEF Submit, Reuse, got
<1> DEFINE u(i) == [cnx[pool[i]] EXCEPT !.bus = TRUE,
                                        !.keep = IF @ = "reading" THEN "aborted" ELSE @]
           gone(i) == {pool[j] : j \in 1 .. i - 1}
           f(i) == [d \in Conn |-> IF d \in gone(i) THEN Absent ELSE cnx[d]]
<1>2. PICK i \in DOMAIN pool :
        Write(f(i), pool[i], u(i), r) /\ pool' = SubSeq(pool, i + 1, Len(pool))
  BY DEF Reuse, Usable, After
<1> DEFINE c == pool[i]
           s == u(i)
<1>3. pool \in Seq(Conn) /\ cnx \in [Conn -> Connection] /\ DOMAIN pool = 1 .. Len(pool)
  BY DEF IInv, TypeOK
<1>4. /\ \A j, k \in DOMAIN pool : pool[j] = pool[k] => j = k
      /\ c \in Items(pool) /\ c \in Conn
  BY <1>3 DEF IInv, PoolInv, Items
<1>5. /\ pool' \in Seq(Conn)
      /\ Items(pool)' = Items(pool) \ {pool[j] : j \in 1 .. i}
      /\ \A j, k \in DOMAIN pool' : pool'[j] = pool'[k] => j = k
  <2>1. Items(pool)' = Items(SubSeq(pool, i + 1, Len(pool)))
    BY <1>2 DEF Items
  <2> QED BY <1>2, <1>3, <1>4, <2>1, AfterItems
<1>6. {pool[j] : j \in 1 .. i} = gone(i) \cup {c} /\ gone(i) \subseteq Items(pool)
  <2>1. i \in Nat /\ i \in 1 .. Len(pool)
    BY <1>3
  <2>2. 1 .. i = (1 .. i - 1) \cup {i} /\ 1 .. i - 1 \subseteq DOMAIN pool
    BY <1>3, <2>1
  <2> QED BY <2>2 DEF Items
<1>7. /\ cnx[c] \in Connection /\ cnx[c].made /\ cnx[c].op = "none"
      /\ cnx[c].cut \/ (reply[c] = <<>> /\ \A q \in Call \ handled : ~On(c, q))
  BY <1>3, <1>4, InPool
<1>8. /\ s \in Connection /\ s.made /\ s.link = cnx[c].link /\ s.cut = cnx[c].cut
      /\ s.keep # "reading"
  BY <1>7 DEF Connection
<1>9. /\ f(i) \in [Conn -> Connection]
      /\ \A d \in Conn : f(i)[d] = IF d \in gone(i) THEN Absent ELSE cnx[d]
  BY <1>3, AbsentFacts
<1>10. \A d \in Conn \ {c} : f(i)[d] = cnx[d] \/ f(i)[d] = Absent
  BY <1>9
<1>11. /\ r \notin handled /\ \A d \in Conn : ~On(d, r)
       /\ \A d \in Conn : cnx[d].req # r
  BY <1>1, RequestFacts DEF IInv, PoolInv, PlaceInv
<1>12. \A q \in Request : req'[q] = "idle" => q # r /\ req[q] = "idle"
  BY <1>1 DEF IInv, TypeOK
<1>13. (s.link = "up" => Up(c)) /\ peer' = peer /\ UNCHANGED <<reply, handled>>
  BY <1>1, <1>8 DEF Up, seen
<1>14. Write(f(i), c, s, r)
  BY <1>2
<1> HIDE DEF s, c, f, u
<1>15. /\ WireInv' /\ PlaceInv' /\ CleanInv' /\ stream' \in [Conn -> Seq(Part)]
       /\ \E t \in Connection : /\ t.made /\ t.req = r /\ t.op \in {"write", "unwritten"}
                                /\ t.keep = s.keep /\ t.cut = s.cut
                                /\ cnx' = [f(i) EXCEPT ![c] = t]
  BY <1>4, <1>7, <1>8, <1>9, <1>10, <1>11, <1>12, <1>13, <1>14, WriteWire
<1>16. PICK t \in Connection : /\ t.made /\ t.req = r /\ t.op \in {"write", "unwritten"}
                                /\ t.keep = s.keep /\ t.cut = s.cut
                                /\ cnx' = [f(i) EXCEPT ![c] = t]
  BY <1>15
<1>18. cnx' \in [Conn -> Connection] /\ cnx'[c] = t /\ \A d \in Conn \ {c} : cnx'[d] = f(i)[d]
  BY <1>4, <1>9, <1>16
<1>19. PoolInv'
  <2>1. Items(pool) \ Items(pool)' = gone(i) \cup {c}
    BY <1>4, <1>5, <1>6
  <2>2. \A d \in Conn \ {c} :
          cnx'[d] = IF d \in Items(pool) \ Items(pool)' THEN Absent ELSE cnx[d]
    BY <1>9, <1>18, <2>1
  <2>3. Items(pool)' \subseteq Items(pool) \ {c}
    BY <1>5, <1>6
  <2>4. cnx'[c].made /\ cnx'[c].op # "none" /\ cnx'[c].req = r
    BY <1>16, <1>18
  <2> QED BY <1>1, <1>4, <1>5, <1>7, <2>2, <2>3, <2>4, SubmitPool
<1>20. TypeOK' /\ AnswerIsOwn'
  BY <1>1, <1>5, <1>15, <1>18 DEF IInv, TypeOK, AnswerIsOwn, seen
<1>21. UseInv'
  <2>1. \A d \in Conn \ {c} : cnx'[d] = cnx[d] \/ cnx'[d] = Absent
    BY <1>10, <1>18
  <2>2. /\ cnx'[c].keep # "reading" /\ cnx'[c].op \notin {"read", "rest"}
        /\ cnx'[c].cut => cnx[c].cut
    BY <1>8, <1>16, <1>18
  <2> QED BY <1>1, <1>4, <2>1, <2>2, SubmitUse
<1> QED BY <1>15, <1>19, <1>20, <1>21 DEF IInv

LEMMA ConnectInv ==
  ASSUME IInv, NEW r \in Request, Submit(r), Connect(r)
  PROVE  IInv'
<1> DEFINE c == CHOOSE d \in Free : TRUE
           s == [Absent EXCEPT !.made = TRUE, !.bus = TRUE, !.op = "connect", !.req = r]
<1>1. /\ req[r] = "idle" /\ req' = [req EXCEPT ![r] = "pending"] /\ pool' = <<>>
      /\ UNCHANGED <<peer, listening, answer, torn, seen, faults>>
      /\ cnx' = [d \in Conn |-> CASE d = c           -> s
                                  [] d \in Items(pool) -> Absent
                                  [] OTHER           -> cnx[d]]
      /\ stream' = [stream EXCEPT ![c] = <<>>]
      /\ reply' = [reply EXCEPT ![c] = <<>>]
  BY DEF Submit, Connect, got
<1>2. c \in Conn /\ ~cnx[c].made /\ peer[c] = "none"
  BY DEF Connect, Free
<1>3. /\ s \in Connection /\ s.made /\ s.op = "connect" /\ s.req = r /\ s.link = "none"
      /\ s.keep = "none" /\ ~s.cut
  BY DEF Absent, Connection
<1> HIDE DEF c, s
<1>4. cnx[c] = Absent /\ cnx[c].op = "none" /\ c \notin Items(pool)
  BY <1>2, AbsentFacts DEF IInv, PoolInv
<1>5. /\ cnx \in [Conn -> Connection] /\ stream \in [Conn -> Seq(Part)]
      /\ reply \in [Conn -> Seq(Pong)]
  BY DEF IInv, TypeOK
<1>6. /\ cnx' \in [Conn -> Connection] /\ cnx'[c] = s
      /\ \A d \in Conn \ {c} : cnx'[d] = IF d \in Items(pool) THEN Absent ELSE cnx[d]
  <2>1. cnx' = [d \in Conn |-> IF d = c THEN s
                             ELSE IF d \in Items(pool) THEN Absent ELSE cnx[d]]
    BY <1>1, <1>4
  <2> QED BY <1>2, <1>3, <1>5, <2>1, AbsentFacts
<1>7. /\ stream' \in [Conn -> Seq(Part)] /\ reply' \in [Conn -> Seq(Pong)]
      /\ stream'[c] = <<>> /\ reply'[c] = <<>>
      /\ \A d \in Conn \ {c} : stream'[d] = stream[d] /\ reply'[d] = reply[d]
  BY <1>1, <1>2, <1>5
<1>8. Items(pool)' = {} /\ pool' \in Seq(Conn)
  BY <1>1 DEF Items
<1>9. PoolInv'
  <2>1. \A d \in Conn \ {c} :
          cnx'[d] = IF d \in Items(pool) \ Items(pool)' THEN Absent ELSE cnx[d]
    BY <1>6, <1>8
  <2>2. \A j, k \in DOMAIN pool' : pool'[j] = pool'[k] => j = k
    BY <1>1
  <2>3. cnx'[c].made /\ cnx'[c].op # "none" /\ cnx'[c].req = r
    BY <1>3, <1>6
  <2> QED BY <1>1, <1>2, <1>4, <1>8, <2>1, <2>2, <2>3, SubmitPool
<1>10. \A d \in Conn : \A q : On(d, q)' => On(d, q) /\ d # c
  BY <1>7 DEF On
<1>11. /\ r \notin handled /\ \A d \in Conn : ~On(d, r)
  BY <1>1 DEF IInv, PlaceInv
<1>12. handled' = handled /\ peer' = peer
  BY <1>1 DEF seen
<1>13. WireInv'
  <2> SUFFICES ASSUME NEW d \in Conn PROVE WireInv!(d)'
    BY DEF WireInv
  <2>1. WireInv!(d)
    BY DEF IInv, WireInv
  <2>2. CASE d = c
    <3>1. stream'[d] = <<>> /\ reply'[d] = <<>> /\ peer'[d] # "rest" /\ cnx'[d] = s
      BY <1>2, <1>6, <1>7, <1>12, <2>2
    <3>2. Pairs(stream[d], Up(d))'
      BY <3>1 DEF Pairs
    <3> QED BY <1>3, <3>1, <3>2
  <2>3. CASE d # c
    <3>1. stream'[d] = stream[d] /\ peer'[d] = peer[d]
      BY <1>7, <1>12, <2>3
    <3>3. CASE d \in Items(pool)
      <4>1. cnx'[d] = Absent /\ ~Up(d)'
        BY <1>6, <2>3, <3>3, AbsentFacts DEF Up
      <4>2. Pairs(stream[d], Up(d)')
        BY <2>1, <4>1, Zenon DEF Pairs
      <4>3. Pairs(stream[d], Up(d))'
        BY <3>1, <4>2
      <4> QED BY <1>12, <2>1, <3>1, <4>1, <4>3, AbsentFacts
    <3>4. CASE d \notin Items(pool)
      <4>1. cnx'[d] = cnx[d] /\ (Up(d)' <=> Up(d))
        BY <1>6, <2>3, <3>4 DEF Up
      <4>2. Pairs(stream[d], Up(d)')
        BY <2>1, <4>1, Zenon DEF Pairs
      <4>3. Pairs(stream[d], Up(d))'
        BY <3>1, <4>2
      <4> QED BY <1>12, <2>1, <3>1, <4>1, <4>3
    <3> QED BY <3>3, <3>4
  <2> QED BY <2>2, <2>3
<1>14. PlaceInv'
  <2>1. (\A d \in Conn : cnx[d].op = "connect" =>
           /\ cnx[d].link = "none" /\ stream[d] = <<>>
           /\ cnx[d].req \notin handled /\ \A e \in Conn : ~On(e, cnx[d].req))'
    <3> SUFFICES ASSUME NEW d \in Conn, cnx'[d].op = "connect"
                 PROVE  (/\ cnx[d].link = "none" /\ stream[d] = <<>>
                         /\ cnx[d].req \notin handled
                         /\ \A e \in Conn : ~On(e, cnx[d].req))'
      OBVIOUS
    <3>1. CASE d = c
      <4>1. cnx'[d].req = r /\ cnx'[d].link = "none" /\ stream'[d] = <<>>
        BY <1>3, <1>6, <1>7, <3>1
      <4>2. (\A e \in Conn : ~On(e, cnx[d].req))'
        <5> SUFFICES ASSUME NEW e \in Conn, NEW i \in 1 .. Len(stream'[e]),
                            stream'[e][i].of = r
                     PROVE  FALSE
          BY <4>1 DEF On
        <5>1. stream'[e] = stream[e] \/ stream'[e] = <<>>
          BY <1>7
        <5>2. stream'[e] # <<>>
          OBVIOUS
        <5> QED BY <1>11, <5>1, <5>2 DEF On
      <4> QED BY <1>11, <1>12, <4>1, <4>2
    <3>2. CASE d # c
      <4>1. cnx'[d] = cnx[d] /\ stream'[d] = stream[d]
        BY <1>6, <1>7, <3>2, AbsentFacts
      <4>2. /\ cnx[d].link = "none" /\ stream[d] = <<>> /\ cnx[d].req \notin handled
            /\ \A e \in Conn : ~On(e, cnx[d].req)
        BY <4>1 DEF IInv, PlaceInv
      <4>3. (\A e \in Conn : ~On(e, cnx[d].req))'
        BY <1>7, <4>1, <4>2 DEF On
      <4> QED BY <1>12, <4>1, <4>2, <4>3
    <3> QED BY <3>1, <3>2
  <2>2. \A q \in Request : req'[q] = "idle" => req[q] = "idle"
    BY <1>1 DEF IInv, TypeOK
  <2>3. \A q \in Request : req'[q] = "idle" => q \notin handled'
    BY <1>12, <2>2 DEF IInv, PlaceInv
  <2>4. \A d \in Conn, q \in Request : On(d, q)' => req'[q] # "idle"
    BY <1>10, <2>2 DEF IInv, PlaceInv
  <2>5. \A d, e \in Conn, q \in Request : On(d, q)' /\ On(e, q)' => d = e
    BY <1>10 DEF IInv, PlaceInv
  <2> QED BY <2>1, <2>3, <2>4, <2>5 DEF PlaceInv
<1>15. TypeOK' /\ AnswerIsOwn'
  BY <1>1, <1>6, <1>7, <1>8 DEF IInv, TypeOK, AnswerIsOwn, seen
<1>16. CleanInv'
  <2> SUFFICES ASSUME NEW d \in Conn, cnx'[d].made, ~cnx'[d].cut PROVE Clean(d)'
    BY DEF CleanInv
  <2>1. CASE d = c
    <3>1. \A q \in Call : ~On(d, q)'
      BY <1>7, <2>1 DEF On
    <3>2. reply'[d] = <<>> /\ cnx'[d].op # "rest"
      BY <1>3, <1>6, <1>7, <2>1
    <3> QED BY <2>1, <3>1, <3>2 DEF Clean, Owed
  <2>2. CASE d # c
    <3>1. /\ cnx'[d] = cnx[d] /\ reply'[d] = reply[d] /\ stream'[d] = stream[d]
          /\ (Up(d)' <=> Up(d))
      BY <1>6, <1>7, <2>2, AbsentFacts DEF Up
    <3>2. Clean(d) /\ \A q : On(d, q)' <=> On(d, q)
      BY <3>1 DEF IInv, CleanInv, On
    <3>3. Owed(d)'
      BY <3>1, <3>2 DEF Clean, Owed
    <3> QED BY <1>12, <3>1, <3>2, <3>3 DEF Clean
  <2> QED BY <2>1, <2>2
<1>17. UseInv'
  <2>1. \A d \in Conn \ {c} : cnx'[d] = cnx[d] \/ cnx'[d] = Absent
    BY <1>6
  <2>2. /\ cnx'[c].keep # "reading" /\ cnx'[c].op \notin {"read", "rest"}
        /\ cnx'[c].cut => cnx[c].cut
    BY <1>3, <1>6
  <2> QED BY <1>1, <1>2, <2>1, <2>2, SubmitUse
<1> QED BY <1>9, <1>13, <1>14, <1>15, <1>16, <1>17 DEF IInv

LEMMA ConnectSucceedsInv ==
  ASSUME IInv, NEW c \in Conn, ConnectSucceeds(c)
  PROVE  IInv'
<1> DEFINE s == [cnx[c] EXCEPT !.link = "up"]
           r == cnx[c].req
<1>1. /\ cnx \in [Conn -> Connection] /\ cnx[c].op = "connect" /\ cnx[c].made
      /\ cnx[c].keep = "none"
  BY AbsentFacts DEF IInv, TypeOK, PoolInv, ConnectSucceeds, Runs
<1>2. /\ s \in Connection /\ s.made /\ s.link = "up" /\ r \in Request
      /\ s.keep = "none" /\ s.cut = cnx[c].cut
      /\ req[r] = "pending" /\ \A d \in Conn \ {c} : cnx[d].req # r
  BY <1>1 DEF Connection, IInv, PoolInv
<1>3. stream[c] = <<>> /\ r \notin handled /\ \A d \in Conn : ~On(d, r)
  BY <1>1 DEF IInv, PlaceInv
<1>4. s.cut \/ (reply[c] = <<>> /\ \A q \in Call \ handled : ~On(c, q))
  <2>1. \A q : ~On(c, q)
    BY <1>3 DEF On
  <2>2. cnx[c].cut \/ reply[c] = <<>>
    BY <1>1, <1>3 DEF IInv, CleanInv, Clean
  <2> QED BY <1>2, <2>1, <2>2
<1>5. /\ Write(cnx, c, s, r) /\ peer' = [peer EXCEPT ![c] = "first"]
      /\ UNCHANGED <<pool, reply, listening, req, answer, torn, seen, faults>>
  BY DEF ConnectSucceeds, got
<1> HIDE DEF s, r
<1>6. \A q \in Request : req'[q] = "idle" => q # r /\ req[q] = "idle"
  BY <1>2, <1>5
<1>7. UNCHANGED <<reply, handled>>
  BY <1>5 DEF seen
<1>8. /\ WireInv' /\ PlaceInv' /\ CleanInv' /\ stream' \in [Conn -> Seq(Part)]
      /\ \E t \in Connection : /\ t.made /\ t.req = r /\ t.op \in {"write", "unwritten"}
                               /\ t.keep = s.keep /\ t.cut = s.cut
                               /\ cnx' = [cnx EXCEPT ![c] = t]
  <2>1. \A d \in Conn \ {c} : cnx[d] = cnx[d] \/ cnx[d] = Absent
    OBVIOUS
  <2>2. \/ peer' = peer /\ (s.link = "up" => Up(c))
        \/ peer' = [peer EXCEPT ![c] = "first"] /\ stream[c] = <<>>
    BY <1>3, <1>5
  <2>3. Write(cnx, c, s, r)
    BY <1>5
  <2> QED BY <1>1, <1>2, <1>3, <1>4, <1>6, <1>7, <2>1, <2>2, <2>3, WriteWire
<1>9. PICK t \in Connection : /\ t.made /\ t.req = r /\ t.op \in {"write", "unwritten"}
                              /\ t.keep = s.keep /\ t.cut = s.cut
                              /\ cnx' = [cnx EXCEPT ![c] = t]
  BY <1>8
<1>11. cnx' \in [Conn -> Connection] /\ cnx'[c] = t /\ \A d \in Conn \ {c} : cnx'[d] = cnx[d]
  BY <1>1, <1>9
<1>12. PoolInv'
  <2>1. \A d \in Conn : /\ cnx'[d].made = cnx[d].made /\ cnx'[d].req = cnx[d].req
                        /\ cnx'[d].op = "none" <=> cnx[d].op = "none"
                        /\ ~cnx[d].made => cnx'[d] = cnx[d]
    BY <1>1, <1>9, <1>11 DEF r, IInv, TypeOK, Connection
  <2> QED BY <1>5, <2>1, SamePool
<1>13. TypeOK' /\ AnswerIsOwn'
  BY <1>5, <1>8, <1>11 DEF IInv, TypeOK, AnswerIsOwn, seen
<1>14. UseInv'
  <2>1. \A d \in Conn \ {c} : cnx'[d] = cnx[d] \/ cnx'[d] = Absent
    BY <1>11
  <2>2. /\ cnx'[c].keep # "reading" /\ cnx'[c].op \notin {"read", "rest"}
        /\ cnx'[c].cut => cnx[c].cut
    BY <1>2, <1>9, <1>11
  <2> QED BY <1>5, <2>1, <2>2, SubmitUse
<1> QED BY <1>8, <1>12, <1>13, <1>14 DEF IInv

-----------------------------------------------------------------------------
(* The server reads, or something breaks *)

\* Nothing is added to a stream, and at most Pongs are lost and links shut.
LEMMA LossInv ==
  ASSUME IInv, TypeOK', UNCHANGED <<pool, req, handled, answer, torn>>,
         \A d \in Conn : \/ cnx'[d] = cnx[d]
                         \/ Up(d) /\ cnx'[d] = [cnx[d] EXCEPT !.link = "shut"],
         \A d \in Conn : Pairs(stream[d], Up(d))',
         \A d \in Conn : \A i \in 1 .. Len(stream'[d]) :
           \E j \in 1 .. Len(stream[d]) : stream'[d][i] = stream[d][j],
         \A d \in Conn : \/ reply'[d] = reply[d]
                         \/ ~Up(d)' /\ reply'[d] \in Prefixes(reply[d]),
         \A d \in Conn : peer'[d] = "rest" =>
           \/ stream'[d] = <<>> /\ ~Up(d)'
           \/ stream'[d] # <<>> /\ stream'[d][1].part = "tail"
                                /\ stream'[d][1].of \notin handled
  PROVE  IInv'
<1>1. cnx \in [Conn -> Connection]
  BY DEF IInv, TypeOK
<1>2. ASSUME NEW d \in Conn
      PROVE  /\ cnx'[d].made = cnx[d].made /\ cnx'[d].op = cnx[d].op
             /\ cnx'[d].req = cnx[d].req /\ cnx'[d].cut = cnx[d].cut
             /\ cnx'[d].keep = cnx[d].keep
             /\ ~cnx[d].made => cnx'[d] = cnx[d]
             /\ cnx[d].link = "none" => cnx'[d] = cnx[d]
             /\ Up(d)' => Up(d)
  <2>1. cnx[d] \in Connection
    BY <1>1
  <2>2. CASE cnx'[d] = cnx[d]
    BY <2>2 DEF Up
  <2>3. CASE Up(d) /\ cnx'[d] = [cnx[d] EXCEPT !.link = "shut"]
    <3>1. /\ cnx'[d].made = cnx[d].made /\ cnx'[d].op = cnx[d].op
          /\ cnx'[d].req = cnx[d].req /\ cnx'[d].cut = cnx[d].cut
          /\ cnx'[d].keep = cnx[d].keep
      BY <2>1, <2>3 DEF Connection
    <3>2. cnx[d].made /\ cnx[d].link # "none"
      BY <2>3, AbsentFacts DEF Up, IInv, PoolInv
    <3> QED BY <2>3, <3>1, <3>2
  <2> QED BY <2>2, <2>3
<1>3. PoolInv'
  BY <1>2, SamePool
<1>4. \A d \in Conn : \A q : On(d, q)' => On(d, q)
  BY DEF On
<1>5. WireInv'
  <2> SUFFICES ASSUME NEW d \in Conn PROVE WireInv!(d)'
    BY DEF WireInv
  <2>1. WireInv!(d)
    BY DEF IInv, WireInv
  <2>2. \A i \in 1 .. Len(stream'[d]) :
          stream'[d][i].part = "head" => stream'[d][i].of \notin handled'
    BY <2>1
  <2>3. (cnx[d].op = "unwritten" => ~Up(d))'
    BY <1>2, <2>1
  <2> QED BY <2>2, <2>3
<1>6. PlaceInv'
  <2>1. (\A d \in Conn : cnx[d].op = "connect" =>
           /\ cnx[d].link = "none" /\ stream[d] = <<>>
           /\ cnx[d].req \notin handled /\ \A e \in Conn : ~On(e, cnx[d].req))'
    <3> SUFFICES ASSUME NEW d \in Conn, cnx'[d].op = "connect"
                 PROVE  (/\ cnx[d].link = "none" /\ stream[d] = <<>>
                         /\ cnx[d].req \notin handled
                         /\ \A e \in Conn : ~On(e, cnx[d].req))'
      OBVIOUS
    <3>1. /\ cnx[d].link = "none" /\ stream[d] = <<>> /\ cnx[d].req \notin handled
          /\ \A e \in Conn : ~On(e, cnx[d].req)
      BY <1>2 DEF IInv, PlaceInv
    <3>2. cnx'[d] = cnx[d]
      BY <1>2, <3>1
    <3>3. stream'[d] = <<>>
      <4>1. stream'[d] \in Seq(Part) /\ Len(stream'[d]) \in Nat
        BY DEF TypeOK
      <4>2. ~(1 \in 1 .. Len(stream'[d]))
        BY <3>1
      <4> QED BY <4>1, <4>2
    <3>4. (\A e \in Conn : ~On(e, cnx[d].req))'
      <4> SUFFICES ASSUME NEW e \in Conn, NEW i \in 1 .. Len(stream'[e]),
                          stream'[e][i].of = cnx[d].req
                   PROVE  FALSE
        BY <3>2 DEF On
      <4> QED BY <3>1 DEF On
    <3> QED BY <3>1, <3>2, <3>3, <3>4
  <2>2. \A q \in Request : req'[q] = "idle" => q \notin handled'
    BY DEF IInv, PlaceInv
  <2>3. \A d \in Conn, q \in Request : On(d, q)' => req'[q] # "idle"
    BY <1>4 DEF IInv, PlaceInv
  <2>4. \A d, e \in Conn, q \in Request : On(d, q)' /\ On(e, q)' => d = e
    BY <1>4 DEF IInv, PlaceInv
  <2> QED BY <2>1, <2>2, <2>3, <2>4 DEF PlaceInv
<1>7. CleanInv'
  <2> SUFFICES ASSUME NEW d \in Conn, cnx'[d].made, ~cnx'[d].cut PROVE Clean(d)'
    BY DEF CleanInv
  <2> DEFINE r == cnx[d].req
  <2>1. Clean(d) /\ cnx'[d].req = r /\ cnx'[d].op = cnx[d].op
    BY <1>2 DEF IInv, CleanInv
  <2>2. \/ reply'[d] = reply[d] /\ (Up(d)' => Up(d))
        \/ ~Up(d)' /\ reply[d] = <<>> /\ reply'[d] = <<>>
        \/ ~Up(d)' /\ reply[d] # <<>> /\ reply'[d] \in Prefixes(reply[d])
    <3>1. Prefixes(<<>>) = {<<>>}
      BY ShortPrefixes
    <3>2. reply'[d] = reply[d] \/ (~Up(d)' /\ reply'[d] \in Prefixes(reply[d]))
      OBVIOUS
    <3> QED BY <1>2, <3>1, <3>2
  <2>3. reply[d] # <<>> \/ cnx[d].op = "rest" => r \in Call
    BY <2>1 DEF Clean
  <2>4. Owed(d)'
    <3>1. CASE cnx[d].op = "rest"
      <4>1. reply[d] = <<Tail1(r)>> \/ (reply[d] = <<>> /\ ~Up(d))
        BY <2>1, <3>1 DEF Clean, Owed
      <4>2. Prefixes(<<Tail1(r)>>) = {<<>>, <<Tail1(r)>>}
        BY <2>3, <3>1, PongPrefixes
      <4>3. reply'[d] = <<Tail1(r)>> \/ (reply'[d] = <<>> /\ ~Up(d)')
        BY <2>2, <4>1, <4>2
      <4> QED BY <2>1, <3>1, <4>3 DEF Owed
    <3>2. CASE cnx[d].op # "rest"
      <4>1. \/ reply[d] = <<>> \/ reply[d] = Whole(r)
            \/ reply[d] = <<Head1(r)>> /\ ~Up(d)
        BY <2>1, <3>2 DEF Clean, Owed
      <4>2. reply[d] # <<>> => /\ Prefixes(<<Head1(r)>>) = {<<>>, <<Head1(r)>>}
                               /\ Prefixes(Whole(r)) = {<<>>, <<Head1(r)>>, Whole(r)}
        BY <2>3, PongPrefixes
      <4>3. \/ reply'[d] = <<>> \/ reply'[d] = Whole(r)
            \/ reply'[d] = <<Head1(r)>> /\ ~Up(d)'
        BY <2>2, <4>1, <4>2
      <4> QED BY <2>1, <3>2, <4>3 DEF Owed
    <3> QED BY <3>1, <3>2
  <2>5. reply'[d] # <<>> => reply[d] # <<>>
    BY <2>2
  <2> QED BY <1>4, <2>1, <2>4, <2>5 DEF Clean
<1>8. UseInv'
  BY <1>2 DEF IInv, UseInv
<1> QED BY <1>3, <1>5, <1>6, <1>7, <1>8 DEF IInv, AnswerIsOwn

\* r is read as a whole, and it leaves t on the stream of c.
LEMMA ReceiveInv ==
  ASSUME IInv, TypeOK', NEW c \in Conn, NEW r \in Request, Receive(c, r), On(c, r),
         r \notin handled, UNCHANGED <<pool, cnx, req, answer, torn>>,
         NEW t \in Seq(Part), stream' = [stream EXCEPT ![c] = t], Pairs(t, Up(c)),
         \A i \in 1 .. Len(t) : \E j \in 1 .. Len(stream[c]) : t[i] = stream[c][j],
         \A i \in 1 .. Len(t) : t[i].of = r => t[i].part = "tail"
  PROVE  IInv'
<1>1. /\ stream \in [Conn -> Seq(Part)] /\ peer' \in [Conn -> {"none", "first", "rest", "stuck", "writing"}]
      /\ reply \in [Conn -> Seq(Pong)]
  BY DEF IInv, TypeOK
<1>2. /\ stream'[c] = t /\ \A d \in Conn \ {c} : stream'[d] = stream[d]
      /\ handled' = handled \cup {r}
      /\ peer'[c] # "rest" /\ \A d \in Conn \ {c} : peer'[d] = peer[d]
      /\ \A d \in Conn \ {c} : reply'[d] = reply[d]
  BY <1>1 DEF Receive, IInv, TypeOK
<1>3. \A d \in Conn : \A q : On(d, q)' => On(d, q)
  BY <1>2 DEF On
<1>5. \A d \in Conn \ {c} : ~On(d, r)
  BY DEF IInv, PlaceInv
<1>6. \/ reply'[c] = reply[c]
      \/ r \in Call /\ Up(c) /\ reply'[c] = reply[c] \o Whole(r)
  BY <1>1 DEF Receive, Answers, Up
<1>7. PoolInv'
  BY SamePool
<1>8. WireInv'
  <2> SUFFICES ASSUME NEW d \in Conn PROVE WireInv!(d)'
    BY DEF WireInv
  <2>1. WireInv!(d)
    BY DEF IInv, WireInv
  <2>2. Up(d)' <=> Up(d)
    BY DEF Up
  <2>3. (cnx[d].op = "unwritten" => ~Up(d))'
    BY <2>1, <2>2
  <2>4. CASE d = c
    <3>1. Pairs(stream[d], Up(d))'
      <4>1. Pairs(t, Up(d)')
        BY <2>2, <2>4, Zenon DEF Pairs
      <4> QED BY <1>2, <2>4, <4>1
    <3>2. \A i \in 1 .. Len(stream'[d]) :
            stream'[d][i].part = "head" => stream'[d][i].of \notin handled'
      <4> SUFFICES ASSUME NEW i \in 1 .. Len(t), t[i].part = "head"
                   PROVE  t[i].of \notin handled \cup {r}
        BY <1>2, <2>4
      <4>1. t[i].of # r
        OBVIOUS
      <4>2. PICK j \in 1 .. Len(stream[c]) : t[i] = stream[c][j]
        OBVIOUS
      <4> QED BY <2>1, <2>4, <4>1, <4>2
    <3> QED BY <1>2, <2>3, <2>4, <3>1, <3>2
  <2>5. CASE d # c
    <3>1. stream'[d] = stream[d] /\ peer'[d] = peer[d]
      BY <1>2, <2>5
    <3>2. Pairs(stream[d], Up(d))'
      <4>1. Pairs(stream[d], Up(d)')
        BY <2>1, <2>2, Zenon DEF Pairs
      <4> QED BY <3>1, <4>1
    <3>3. \A i \in 1 .. Len(stream[d]) : stream[d][i].of # r
      BY <1>5, <2>5 DEF On
    <3>4. (\A i \in 1 .. Len(stream[d]) :
             stream[d][i].part = "head" => stream[d][i].of \notin handled)'
      BY <1>2, <2>1, <3>1, <3>3
    <3>5. (peer[d] = "rest" =>
             \/ stream[d] = <<>> /\ ~Up(d)
             \/ stream[d] # <<>> /\ stream[d][1].part = "tail"
                                 /\ stream[d][1].of \notin handled)'
      <4>1. stream[d] # <<>> => 1 \in 1 .. Len(stream[d])
        BY <1>1
      <4> QED BY <1>2, <2>1, <2>2, <3>1, <3>3, <4>1
    <3> QED BY <2>3, <3>2, <3>4, <3>5
  <2> QED BY <2>4, <2>5
<1>9. PlaceInv'
  <2>1. (\A d \in Conn : cnx[d].op = "connect" =>
           /\ cnx[d].link = "none" /\ stream[d] = <<>>
           /\ cnx[d].req \notin handled /\ \A e \in Conn : ~On(e, cnx[d].req))'
    <3> SUFFICES ASSUME NEW d \in Conn, cnx[d].op = "connect"
                 PROVE  (/\ cnx[d].link = "none" /\ stream[d] = <<>>
                         /\ cnx[d].req \notin handled
                         /\ \A e \in Conn : ~On(e, cnx[d].req))'
      OBVIOUS
    <3>1. /\ cnx[d].link = "none" /\ stream[d] = <<>> /\ cnx[d].req \notin handled
          /\ \A e \in Conn : ~On(e, cnx[d].req)
      BY DEF IInv, PlaceInv
    <3>2. d # c /\ cnx[d].req # r
      BY <3>1 DEF On
    <3>3. (\A e \in Conn : ~On(e, cnx[d].req))'
      <4> SUFFICES ASSUME NEW e \in Conn, NEW i \in 1 .. Len(stream'[e]),
                          stream'[e][i].of = cnx[d].req
                   PROVE  FALSE
        BY DEF On
      <4>1. CASE e = c
        BY <1>2, <3>1, <4>1 DEF On
      <4>2. CASE e # c
        BY <1>2, <3>1, <4>2 DEF On
      <4> QED BY <4>1, <4>2
    <3> QED BY <1>2, <3>1, <3>2, <3>3
  <2>2. \A q \in Request : req'[q] = "idle" => q \notin handled'
    BY <1>2 DEF IInv, PlaceInv
  <2>3. \A d \in Conn, q \in Request : On(d, q)' => req'[q] # "idle"
    BY <1>3 DEF IInv, PlaceInv
  <2>4. \A d, e \in Conn, q \in Request : On(d, q)' /\ On(e, q)' => d = e
    BY <1>3 DEF IInv, PlaceInv
  <2> QED BY <2>1, <2>2, <2>3, <2>4 DEF PlaceInv
<1>10. CleanInv'
  <2> SUFFICES ASSUME NEW d \in Conn, cnx[d].made, ~cnx[d].cut PROVE Clean(d)'
    BY DEF CleanInv
  <2>1. Clean(d) /\ (Up(d)' <=> Up(d)) /\ cnx'[d] = cnx[d]
    BY DEF IInv, CleanInv, Up
  <2>2. CASE reply'[d] = reply[d]
    <3>1. Owed(d)'
      BY <2>1, <2>2 DEF Clean, Owed
    <3> QED BY <1>2, <1>3, <2>1, <2>2, <3>1 DEF Clean
  <2>3. CASE reply'[d] # reply[d]
    <3>1. d = c /\ r \in Call /\ Up(c) /\ reply'[c] = reply[c] \o Whole(r)
      BY <1>2, <1>6, <2>3
    <3>2. cnx[c].req = r /\ reply[c] = <<>> /\ cnx[c].op # "rest"
      BY <2>1, <3>1 DEF Clean
    <3>3. reply'[c] = Whole(r)
      <4>1. Whole(r) \in Seq(Pong)
        BY <3>1, WholePong
      <4> QED BY <3>1, <3>2, <4>1
    <3>4. cnx[c].op # "unwritten"
      BY <3>1 DEF IInv, WireInv
    <3> QED BY <1>2, <1>3, <2>1, <3>1, <3>2, <3>3, <3>4 DEF Clean, Owed
  <2> QED BY <2>2, <2>3
<1>11. UseInv'
  BY DEF IInv, UseInv
<1> QED BY <1>7, <1>8, <1>9, <1>10, <1>11 DEF IInv, AnswerIsOwn

\* What a step of the server on c does to the types.
LEMMA ServerTypes ==
  ASSUME IInv, NEW c \in Conn, UNCHANGED <<pool, req, answer, torn, listening>>,
         faults' \in 0 .. MaxFaults, cnx' \in [Conn -> Connection],
         NEW t \in Seq(Part), stream' = [stream EXCEPT ![c] = t],
         NEW p \in {"none", "first", "rest", "stuck", "writing"},
         peer' = [peer EXCEPT ![c] = p],
         NEW h \in Seq(Pong), reply' = [reply EXCEPT ![c] = h],
         handled' \subseteq Request, skipped' \subseteq Request
  PROVE  TypeOK'
BY DEF IInv, TypeOK

LEMMA ReceiveTypes ==
  ASSUME IInv, NEW c \in Conn, NEW r \in Request, Receive(c, r),
         UNCHANGED <<pool, cnx, req, answer, torn, listening>>, faults' \in 0 .. MaxFaults,
         NEW t \in Seq(Part), stream' = [stream EXCEPT ![c] = t], skipped' \subseteq Request
  PROVE  TypeOK'
<1>1. reply[c] \in Seq(Pong) /\ cnx' \in [Conn -> Connection]
  BY DEF IInv, TypeOK
<1> DEFINE p == IF Answers(r) THEN "writing" ELSE "first"
           h == IF Answers(r) /\ cnx[c].link = "up" THEN reply[c] \o Whole(r) ELSE reply[c]
<1>2. peer' = [peer EXCEPT ![c] = p] /\ reply' = [reply EXCEPT ![c] = h]
  BY DEF Receive
<1>3. p \in {"none", "first", "rest", "stuck", "writing"} /\ h \in Seq(Pong)
  <2>1. r \in Call => Whole(r) \in Seq(Pong)
    BY WholePong
  <2> QED BY <1>1, <2>1 DEF Answers
<1>4. handled' \subseteq Request
  BY DEF Receive, IInv, TypeOK
<1> HIDE DEF p, h
<1> QED BY <1>1, <1>2, <1>3, <1>4, ServerTypes

\* The part at i is of a request, and the parts before k are of requests.
LEMMA PartFacts ==
  ASSUME IInv, NEW c \in Conn
  PROVE  /\ stream[c] \in Seq(Part) /\ Len(stream[c]) \in Nat
         /\ DOMAIN stream[c] = 1 .. Len(stream[c])
         /\ Pairs(stream[c], Up(c)) /\ Up(c) \in BOOLEAN
         /\ \A i \in 1 .. Len(stream[c]) :
              stream[c][i].of \in Request /\ On(c, stream[c][i].of)
<1>1. stream[c] \in Seq(Part)
  BY DEF IInv, TypeOK
<1>2. \A i \in 1 .. Len(stream[c]) : stream[c][i] \in Part
  BY <1>1
<1>3. \A i \in 1 .. Len(stream[c]) : stream[c][i].of \in Request
  BY <1>2 DEF Part
<1>4. Pairs(stream[c], Up(c)) /\ Up(c) \in BOOLEAN
  BY DEF IInv, WireInv, Up
<1> QED BY <1>1, <1>3, <1>4 DEF On

LEMMA ReadFirstInv ==
  ASSUME IInv, NEW c \in Conn, NEW k \in DOMAIN stream[c], ReadFirst(c, k)
  PROVE  IInv'
<1> DEFINE s == stream[c]
           t == SubSeq(s, k + 1, Len(s))
<1>1. /\ s \in Seq(Part) /\ Len(s) \in Nat /\ k \in 1 .. Len(s) /\ 1 \in 1 .. Len(s)
      /\ Pairs(s, Up(c)) /\ Up(c) \in BOOLEAN
      /\ s[1].part = "head" /\ s[1].of \notin handled
      /\ s[1].of \in Request /\ On(c, s[1].of)
  <2>1. k \in 1 .. Len(s) /\ 1 \in 1 .. Len(s)
    BY PartFacts
  <2> QED BY <2>1, PartFacts DEF ReadFirst, IInv, WireInv
<1>2. /\ stream' = [stream EXCEPT ![c] = t]
      /\ UNCHANGED <<pool, cnx, listening, req, answer, torn, faults>>
  BY DEF ReadFirst, Past, got
<1> HIDE DEF s
<1>3. /\ t \in Seq(Part) /\ Len(t) = Len(s) - k /\ Pairs(t, Up(c))
      /\ \A i \in 1 .. Len(t) : i + k \in 1 .. Len(s) /\ t[i] = s[i + k]
  BY <1>1, DropParts
<1> HIDE DEF t
<1>4. stream \in [Conn -> Seq(Part)] /\ peer \in [Conn -> {"none", "first", "rest", "stuck", "writing"}]
  BY DEF IInv, TypeOK
<1>5. CASE k = 1
  <2>1. peer' = [peer EXCEPT ![c] = "rest"] /\ UNCHANGED <<reply, seen>>
    BY <1>5 DEF ReadFirst
  <2>2. UNCHANGED <<handled, skipped>>
    BY <2>1 DEF seen
  <2>3. TypeOK'
    BY <1>2, <1>3, <1>4, <2>1, <2>2 DEF IInv, TypeOK
  <2>4. \/ t = <<>> /\ ~Up(c)
        \/ t # <<>> /\ t[1].part = "tail" /\ t[1].of \notin handled
    <3>1. \/ 1 = Len(s) /\ ~Up(c)
          \/ 1 < Len(s) /\ s[1 + 1].of = s[1].of /\ s[1 + 1].part = "tail"
      BY <1>1 DEF Pairs
    <3>2. CASE 1 = Len(s) /\ ~Up(c)
      <4>1. Len(t) = Len(s) - k /\ k = 1 /\ Len(s) = 1
        BY <1>3, <1>5, <3>2
      <4>2. Len(t) = 0
        BY <4>1
      <4> QED BY <1>3, <3>2, <4>2
    <3>3. CASE 1 < Len(s) /\ s[1 + 1].of = s[1].of /\ s[1 + 1].part = "tail"
      <4>1. 1 \in 1 .. Len(t)
        BY <1>1, <1>3, <1>5, <3>3
      <4>2. t[1] = s[1 + 1] /\ t # <<>>
        BY <1>3, <1>5, <4>1
      <4> QED BY <1>1, <3>3, <4>2
    <3> QED BY <3>1, <3>2, <3>3
  <2>5. /\ stream'[c] = t /\ \A d \in Conn \ {c} : stream'[d] = stream[d]
        /\ \A d \in Conn \ {c} : peer'[d] = peer[d]
    BY <1>2, <1>4, <2>1
  <2>6. \A d \in Conn : (Up(d)' <=> Up(d)) /\ Pairs(stream[d], Up(d))
    BY <1>2, PartFacts DEF Up
  <2>7. ASSUME NEW d \in Conn PROVE Pairs(stream[d], Up(d))'
    <3>1. CASE d = c
      <4>1. Pairs(t, Up(d)')
        BY <1>3, <2>6, <3>1, Zenon DEF Pairs
      <4> QED BY <2>5, <3>1, <4>1
    <3>2. CASE d # c
      <4>1. Pairs(stream[d], Up(d)')
        BY <2>6, Zenon DEF Pairs
      <4> QED BY <2>5, <3>2, <4>1
    <3> QED BY <3>1, <3>2
  <2>8. \A d \in Conn : \A i \in 1 .. Len(stream'[d]) :
          \E j \in 1 .. Len(stream[d]) : stream'[d][i] = stream[d][j]
    BY <1>3, <2>5 DEF s
  <2>9. ASSUME NEW d \in Conn, peer'[d] = "rest"
        PROVE  \/ stream'[d] = <<>> /\ ~Up(d)'
               \/ stream'[d] # <<>> /\ stream'[d][1].part = "tail"
                                    /\ stream'[d][1].of \notin handled
    <3>1. CASE d = c
      BY <2>4, <2>5, <2>6, <3>1
    <3>2. CASE d # c
      BY <2>5, <2>6, <2>9, <3>2 DEF IInv, WireInv
    <3> QED BY <3>1, <3>2
  <2> QED BY <1>2, <2>1, <2>2, <2>3, <2>7, <2>8, <2>9, LossInv
<1>6. CASE k # 1
  <2> DEFINE r == s[1].of
  <2>1. /\ Receive(c, r) /\ skipped' = skipped \cup {s[i].of : i \in 3 .. k}
    BY <1>6 DEF ReadFirst, s
  <2>2. \A i \in 3 .. k : s[i].of \in Request
    <3>1. \A i \in 3 .. k : i \in 1 .. Len(s)
      BY <1>1
    <3> QED BY <3>1, PartFacts DEF s
  <2>3. skipped' \subseteq Request
    BY <2>1, <2>2 DEF IInv, TypeOK
  <2>4. ASSUME NEW i \in 1 .. Len(t), t[i].of = r PROVE t[i].part = "tail"
    <3>1. /\ 2 \in 1 .. Len(s) /\ i + k \in 1 .. Len(s) /\ t[i] = s[i + k]
          /\ 1 < i + k /\ 2 < i + k
      <4>1. i \in Nat /\ k \in Nat /\ Len(s) \in Nat /\ 1 <= i /\ 2 <= k /\ k <= Len(s)
        BY <1>1, <1>3, <1>6
      <4>2. i + k \in 1 .. Len(s) /\ t[i] = s[i + k]
        BY <1>3
      <4> QED BY <4>1, <4>2
    <3>2. s[2].of = r /\ s[2].part = "tail"
      <4>1. 1 # Len(s) /\ 1 + 1 = 2
        BY <1>1, <3>1
      <4> QED BY <1>1, <4>1 DEF Pairs
    <3>3. s[2].part = "head"
      <4>1. s[2].of = s[i + k].of
        BY <2>4, <3>1, <3>2
      <4> QED BY <1>1, <3>1, <4>1, Zenon DEF Pairs
    <3> QED BY <3>2, <3>3
  <2>5. \A i \in 1 .. Len(t) : \E j \in 1 .. Len(stream[c]) : t[i] = stream[c][j]
    BY <1>3 DEF s
  <2>6. r \in Request /\ On(c, r) /\ r \notin handled
    BY <1>1
  <2> HIDE DEF r
  <2>7. TypeOK'
    <3>1. faults' \in 0 .. MaxFaults
      BY <1>2, FaultCount DEF IInv
    <3> QED BY <1>2, <1>3, <2>1, <2>3, <2>6, <3>1, ReceiveTypes
  <2>8. UNCHANGED <<pool, cnx, req, answer, torn>>
    BY <1>2
  <2> QED BY <1>2, <1>3, <2>1, <2>4, <2>5, <2>6, <2>7, <2>8, ReceiveInv
<1> QED BY <1>5, <1>6

LEMMA ReadRestInv ==
  ASSUME IInv, NEW c \in Conn, ReadRest(c)
  PROVE  IInv'
<1> DEFINE s == stream[c]
           r == s[1].of
<1>1. /\ s \in Seq(Part) /\ Len(s) \in Nat /\ s # <<>> /\ 1 \in 1 .. Len(s)
      /\ Pairs(s, Up(c)) /\ Up(c) \in BOOLEAN /\ s[1].part = "tail" /\ r \notin handled
      /\ r \in Request /\ On(c, r) /\ Head(s) = s[1]
      /\ Tail(s) = SubSeq(s, 1 + 1, Len(s))
  <2>1. s \in Seq(Part) /\ s # <<>> /\ Len(s) \in Nat
    BY PartFacts DEF ReadRest
  <2>2. 1 \in 1 .. Len(s)
    BY <2>1
  <2>3. s[1].part = "tail" /\ r \notin handled
    BY <2>1 DEF ReadRest, IInv, WireInv
  <2>4. Head(s) = s[1] /\ Tail(s) = SubSeq(s, 1 + 1, Len(s))
    BY <2>1
  <2> QED BY <2>1, <2>2, <2>3, <2>4, PartFacts
<1>2. /\ Receive(c, r)
      /\ UNCHANGED <<pool, cnx, listening, req, answer, torn, skipped>>
      /\ Fault \/ UNCHANGED faults
      /\ stream' = [stream EXCEPT ![c] = Tail(s)] \/ UNCHANGED stream
  BY <1>1 DEF ReadRest, got
<1>3. ASSUME NEW i \in 1 .. Len(s), s[i].of = r PROVE i = 1
  <2>1. i \in Nat /\ i # 1 => 1 < i
    OBVIOUS
  <2>2. 1 < i => s[1].part = "head"
    BY <1>1, <1>3 DEF Pairs
  <2> QED BY <1>1, <2>1, <2>2
<1> HIDE DEF s, r
<1>4. PICK t \in Seq(Part) :
        /\ stream' = [stream EXCEPT ![c] = t] /\ Pairs(t, Up(c))
        /\ \A i \in 1 .. Len(t) : \E j \in 1 .. Len(s) : t[i] = s[j]
  <2>1. CASE stream' = [stream EXCEPT ![c] = Tail(s)]
    <3> DEFINE t == SubSeq(s, 1 + 1, Len(s))
    <3>1. /\ t \in Seq(Part) /\ \A i \in 1 .. Len(t) : i + 1 \in 1 .. Len(s) /\ t[i] = s[i + 1]
          /\ Pairs(t, Up(c))
      BY <1>1, DropParts, Zenon
    <3>2. stream' = [stream EXCEPT ![c] = t]
      BY <1>1, <2>1
    <3> HIDE DEF t
    <3> QED BY <3>1, <3>2
  <2>2. CASE UNCHANGED stream
    <3>1. stream' = [stream EXCEPT ![c] = s]
      BY <2>2 DEF s, IInv, TypeOK
    <3> QED BY <1>1, <3>1
  <2> QED BY <1>2, <2>1, <2>2
<1>5. ASSUME NEW i \in 1 .. Len(t), t[i].of = r PROVE t[i].part = "tail"
  BY <1>1, <1>3, <1>4, <1>5
<1>6. /\ skipped' \subseteq Request /\ UNCHANGED <<pool, cnx, req, answer, torn, listening>>
      /\ faults' \in 0 .. MaxFaults
  BY <1>2, FaultCount DEF IInv, TypeOK
<1>7. TypeOK'
  BY <1>1, <1>2, <1>4, <1>6, ReceiveTypes
<1>8. \A i \in 1 .. Len(t) : \E j \in 1 .. Len(stream[c]) : t[i] = stream[c][j]
  BY <1>4 DEF s
<1> QED BY <1>1, <1>2, <1>4, <1>5, <1>6, <1>7, <1>8, ReceiveInv

\* A step of the server on c that receives nothing.
LEMMA ServerLossInv ==
  ASSUME IInv, NEW c \in Conn, UNCHANGED <<pool, req, answer, torn, listening, handled>>,
         Fault \/ UNCHANGED faults,
         NEW s \in Connection, cnx' = [cnx EXCEPT ![c] = s],
         s = cnx[c] \/ (Up(c) /\ s = [cnx[c] EXCEPT !.link = "shut"]),
         NEW t \in Seq(Part), stream' = [stream EXCEPT ![c] = t],
         Pairs(t, s.link = "up"),
         \A i \in 1 .. Len(t) : \E j \in 1 .. Len(stream[c]) : t[i] = stream[c][j],
         NEW p \in {"none", "first", "stuck"}, peer' = [peer EXCEPT ![c] = p],
         NEW h \in Prefixes(reply[c]), reply' = [reply EXCEPT ![c] = h],
         h = reply[c] \/ s.link # "up",
         skipped' \subseteq Request
  PROVE  IInv'
<1>1. /\ cnx \in [Conn -> Connection] /\ stream \in [Conn -> Seq(Part)]
      /\ peer \in [Conn -> {"none", "first", "rest", "stuck", "writing"}]
      /\ reply \in [Conn -> Seq(Pong)]
  BY DEF IInv, TypeOK
<1>2. /\ cnx'[c] = s /\ stream'[c] = t /\ peer'[c] # "rest"
      /\ \A d \in Conn \ {c} :
           cnx'[d] = cnx[d] /\ stream'[d] = stream[d] /\ peer'[d] = peer[d]
  BY <1>1
<1>3. TypeOK'
  <2>1. cnx' \in [Conn -> Connection]
    BY <1>1
  <2>2. h \in Seq(Pong)
    BY <1>1, PongParts
  <2>3. handled' \subseteq Request /\ faults' \in 0 .. MaxFaults
    BY FaultCount DEF IInv, TypeOK
  <2> QED BY <2>1, <2>2, <2>3, ServerTypes
<1>4. \A d \in Conn : \/ cnx'[d] = cnx[d]
                      \/ Up(d) /\ cnx'[d] = [cnx[d] EXCEPT !.link = "shut"]
  BY <1>2
<1>5. ASSUME NEW d \in Conn PROVE Pairs(stream[d], Up(d))'
  <2>1. CASE d = c
    <3>1. Up(d)' <=> s.link = "up"
      BY <1>2, <2>1 DEF Up
    <3>2. Pairs(t, Up(d)')
      BY <3>1, Zenon DEF Pairs
    <3> QED BY <1>2, <2>1, <3>2
  <2>2. CASE d # c
    <3>1. Up(d)' <=> Up(d)
      BY <1>2, <2>2 DEF Up
    <3>2. Pairs(stream[d], Up(d)')
      BY <3>1, PartFacts, Zenon DEF Pairs
    <3> QED BY <1>2, <2>2, <3>2
  <2> QED BY <2>1, <2>2
<1>6. \A d \in Conn : \A i \in 1 .. Len(stream'[d]) :
        \E j \in 1 .. Len(stream[d]) : stream'[d][i] = stream[d][j]
  BY <1>2
<1>7. ASSUME NEW d \in Conn, peer'[d] = "rest"
      PROVE  \/ stream'[d] = <<>> /\ ~Up(d)'
             \/ stream'[d] # <<>> /\ stream'[d][1].part = "tail"
                                  /\ stream'[d][1].of \notin handled
  <2>1. d # c
    BY <1>2, <1>7
  <2>2. Up(d)' <=> Up(d)
    BY <1>2, <2>1 DEF Up
  <2> QED BY <1>2, <1>7, <2>1, <2>2 DEF IInv, WireInv
<1>8. \A d \in Conn : \/ reply'[d] = reply[d]
                      \/ ~Up(d)' /\ reply'[d] \in Prefixes(reply[d])
  <2>1. reply'[c] = h /\ \A d \in Conn \ {c} : reply'[d] = reply[d]
    BY <1>1
  <2>2. Up(c)' <=> s.link = "up"
    BY <1>2 DEF Up
  <2> QED BY <2>1, <2>2
<1> QED BY <1>3, <1>4, <1>5, <1>6, <1>7, <1>8, LossInv

\* Nothing that was written is arriving in part.
LEMMA AllArrives ==
  ASSUME IInv, NEW c \in Conn
  PROVE  reply[c] \in Prefixes(reply[c]) /\ reply = [reply EXCEPT ![c] = reply[c]]
<1>1. reply \in [Conn -> Seq(Pong)] /\ reply[c] \in Seq(Pong)
  BY DEF IInv, TypeOK
<1>2. Len(reply[c]) \in 0 .. Len(reply[c]) /\ SubSeq(reply[c], 1, Len(reply[c])) = reply[c]
  BY <1>1
<1> QED BY <1>1, <1>2 DEF Prefixes

LEMMA CloseInv ==
  ASSUME IInv, NEW c \in Conn, Close(c), Fault \/ UNCHANGED faults,
         UNCHANGED <<pool, listening, req, got, handled>>
  PROVE  IInv'
<1> DEFINE u == [cnx[c] EXCEPT !.link = IF @ = "up" THEN "shut" ELSE @]
<1>1. cnx \in [Conn -> Connection] /\ cnx[c] \in Connection
  BY DEF IInv, TypeOK
<1>2. /\ u \in Connection /\ (u = cnx[c] \/ (Up(c) /\ u = [cnx[c] EXCEPT !.link = "shut"]))
      /\ u.link # "up"
  BY <1>1 DEF Connection, Up
<1>3. cnx' = [cnx EXCEPT ![c] = u]
  BY <1>1 DEF Close
<1>4. PICK h \in Prefixes(reply[c]) : reply' = [reply EXCEPT ![c] = h]
  BY DEF Close
<1>5. skipped' \subseteq Request
  <2>1. \A q \in Items(stream[c]) : q.of \in Request
    BY PartFacts DEF Items
  <2> QED BY <2>1 DEF Close, IInv, TypeOK
<1> DEFINE v == <<>>
<1>6. v \in Seq(Part) /\ Len(v) = 0 /\ stream' = [stream EXCEPT ![c] = v]
  BY DEF Close
<1>7. peer' = [peer EXCEPT ![c] = "none"] /\ UNCHANGED <<answer, torn>>
  BY DEF Close, got
<1> HIDE DEF u, v
<1>8. Pairs(v, u.link = "up")
  BY <1>6 DEF Pairs
<1>9. \A i \in 1 .. Len(v) : \E j \in 1 .. Len(stream[c]) : v[i] = stream[c][j]
  BY <1>6
<1> QED BY <1>2, <1>3, <1>4, <1>5, <1>6, <1>7, <1>8, <1>9, ServerLossInv

LEMMA ReadCutInv ==
  ASSUME IInv, NEW c \in Conn, ReadCut(c)
  PROVE  IInv'
BY CloseInv DEF ReadCut

LEMMA ReadGarbageInv ==
  ASSUME IInv, NEW c \in Conn, NEW k \in DOMAIN stream[c], ReadGarbage(c, k)
  PROVE  IInv'
<1> DEFINE s == stream[c]
           t == SubSeq(s, k + 1, Len(s))
<1>1. /\ s \in Seq(Part) /\ Len(s) \in Nat /\ k \in 1 .. Len(s)
      /\ Pairs(s, Up(c)) /\ Up(c) \in BOOLEAN
      /\ \A i \in 1 .. Len(s) : s[i].of \in Request
  BY PartFacts
<1>2. cnx \in [Conn -> Connection] /\ skipped \subseteq Request
  BY DEF IInv, TypeOK
<1>3. UNCHANGED <<pool, listening, req, got, handled, faults>>
  BY DEF ReadGarbage
<1>4. CASE /\ peer' = [peer EXCEPT ![c] = "stuck"]
           /\ stream' = [stream EXCEPT ![c] = t]
           /\ skipped' = skipped \cup ({s[i].of : i \in 1 .. k} \ handled)
           /\ UNCHANGED <<cnx, reply>>
  <2>1. /\ t \in Seq(Part) /\ Pairs(t, Up(c))
        /\ \A i \in 1 .. Len(t) : i + k \in 1 .. Len(s) /\ t[i] = s[i + k]
    <3> HIDE DEF s
    <3> QED BY <1>1, DropParts
  <2>2. skipped' \subseteq Request
    <3>1. \A i \in 1 .. k : i \in 1 .. Len(s)
      BY <1>1
    <3> QED BY <1>1, <1>2, <1>4, <3>1
  <2>3. /\ cnx[c] \in Connection /\ cnx' = [cnx EXCEPT ![c] = cnx[c]]
        /\ reply' = [reply EXCEPT ![c] = reply[c]] /\ reply[c] \in Prefixes(reply[c])
        /\ UNCHANGED <<answer, torn>>
    BY <1>2, <1>3, <1>4, AllArrives DEF got
  <2> HIDE DEF t
  <2>4. Pairs(t, cnx[c].link = "up")
    BY <2>1 DEF Up
  <2>5. \A i \in 1 .. Len(t) : \E j \in 1 .. Len(stream[c]) : t[i] = stream[c][j]
    BY <2>1
  <2> QED BY <1>3, <1>4, <2>1, <2>2, <2>3, <2>4, <2>5, ServerLossInv
<1>5. CASE Close(c)
  BY <1>3, <1>5, CloseInv
<1> QED BY <1>4, <1>5 DEF ReadGarbage, Past

LEMMA PeerInv ==
  ASSUME IInv, NEW c \in Conn, PongSent(c) \/ ReadEnds(c)
  PROVE  IInv'
<1>1. /\ UNCHANGED <<pool, reply, req, answer, torn, listening, handled, skipped, faults>>
      /\ UNCHANGED <<cnx, stream>>
  BY DEF PongSent, ReadEnds, seen, got
<1>2. PICK p \in {"none", "first", "stuck"} : peer' = [peer EXCEPT ![c] = p]
  <2>1. (IF cnx[c].link = "up" THEN "first" ELSE "none") \in {"none", "first", "stuck"}
    OBVIOUS
  <2> QED BY <2>1 DEF PongSent, ReadEnds
<1>3. /\ cnx[c] \in Connection /\ cnx' = [cnx EXCEPT ![c] = cnx[c]]
      /\ stream[c] \in Seq(Part) /\ stream' = [stream EXCEPT ![c] = stream[c]]
      /\ skipped' \subseteq Request
      /\ reply[c] \in Prefixes(reply[c]) /\ reply' = [reply EXCEPT ![c] = reply[c]]
  BY <1>1, AllArrives DEF IInv, TypeOK
<1>4. Pairs(stream[c], cnx[c].link = "up")
  BY PartFacts DEF Up
<1> QED BY <1>1, <1>2, <1>3, <1>4, ServerLossInv

LEMMA ServerDiesInv ==
  ASSUME IInv, ServerDies
  PROVE  IInv'
<1>1. /\ UNCHANGED <<pool, req, answer, torn, handled, skipped>> /\ Fault
      /\ listening' = FALSE
      /\ peer' = [c \in Conn |-> "none"] /\ stream' = [c \in Conn |-> <<>>]
      /\ cnx' = [c \in Conn |-> [cnx[c] EXCEPT !.link = IF @ = "up" THEN "shut" ELSE @]]
  BY DEF ServerDies, got, seen
<1>2. /\ reply' \in [Conn -> UNION {Prefixes(reply[c]) : c \in Conn}]
      /\ \A c \in Conn : reply'[c] \in Prefixes(reply[c])
  BY DEF ServerDies
<1>3. cnx \in [Conn -> Connection] /\ reply \in [Conn -> Seq(Pong)]
  BY DEF IInv, TypeOK
<1>4. ASSUME NEW d \in Conn
      PROVE  /\ cnx'[d] \in Connection
             /\ \/ cnx'[d] = cnx[d]
                \/ Up(d) /\ cnx'[d] = [cnx[d] EXCEPT !.link = "shut"]
  <2>1. cnx[d] \in Connection
    BY <1>3
  <2> QED BY <1>1, <2>1 DEF Connection, Up
<1>5. TypeOK'
  <2>1. cnx' \in [Conn -> Connection]
    BY <1>1, <1>4
  <2>2. reply' \in [Conn -> Seq(Pong)]
    <3>1. \A d \in Conn : Prefixes(reply[d]) \subseteq Seq(Pong)
      BY <1>3, PongParts
    <3> QED BY <1>2, <3>1
  <2>3. stream' \in [Conn -> Seq(Part)]
    BY <1>1
  <2>4. faults' \in 0 .. MaxFaults
    BY <1>1, FaultCount DEF IInv
  <2> QED BY <1>1, <2>1, <2>2, <2>3, <2>4 DEF IInv, TypeOK
<1>6. \A d \in Conn : Pairs(stream[d], Up(d))'
  BY <1>1 DEF Pairs
<1>7. \A d \in Conn : ~Up(d)' /\ reply'[d] \in Prefixes(reply[d])
  BY <1>1, <1>2, <1>3 DEF Up, Connection
<1>8. \A d \in Conn : \A i \in 1 .. Len(stream'[d]) :
        \E j \in 1 .. Len(stream[d]) : stream'[d][i] = stream[d][j]
  BY <1>1
<1>9. \A d \in Conn : peer'[d] # "rest"
  BY <1>1
<1> QED BY <1>1, <1>4, <1>5, <1>6, <1>7, <1>8, <1>9, LossInv

LEMMA ServerStartsInv ==
  ASSUME IInv, ServerStarts
  PROVE  IInv'
<1>1. /\ UNCHANGED <<pool, cnx, stream, reply, peer, req, answer, torn, seen, faults>>
      /\ listening' = TRUE
  BY DEF ServerStarts, got
<1>2. TypeOK'
  BY <1>1 DEF IInv, TypeOK, seen
<1>3. \A d \in Conn : Pairs(stream[d], Up(d))'
  <2> SUFFICES ASSUME NEW d \in Conn PROVE Pairs(stream[d], Up(d))'
    OBVIOUS
  <2>1. Up(d)' <=> Up(d)
    BY <1>1 DEF Up
  <2>2. Pairs(stream[d], Up(d)')
    BY <2>1, PartFacts, Zenon DEF Pairs
  <2> QED BY <1>1, <2>2
<1>4. \A d \in Conn : peer'[d] = "rest" =>
        \/ stream'[d] = <<>> /\ ~Up(d)'
        \/ stream'[d] # <<>> /\ stream'[d][1].part = "tail"
                             /\ stream'[d][1].of \notin handled
  BY <1>1 DEF IInv, WireInv, Up
<1>5. UNCHANGED <<pool, req, handled, answer, torn>>
  BY <1>1 DEF seen
<1> QED BY <1>1, <1>2, <1>3, <1>4, <1>5, LossInv

LEMMA LinkBreaksInv ==
  ASSUME IInv, NEW c \in Conn, LinkBreaks(c)
  PROVE  IInv'
<1>1. /\ UNCHANGED <<pool, req, answer, torn, handled, skipped, peer, listening>> /\ Up(c)
      /\ Fault
      /\ cnx' = [cnx EXCEPT ![c].link = "shut"]
      /\ \E h \in Prefixes(reply[c]) : reply' = [reply EXCEPT ![c] = h]
  BY DEF LinkBreaks, got, seen, Up
<1>2. PICK n \in 0 .. Len(stream[c]) : stream' = [stream EXCEPT ![c] = SubSeq(@, 1, n)]
  BY DEF LinkBreaks, Prefixes
<1>13. PICK h \in Prefixes(reply[c]) : reply' = [reply EXCEPT ![c] = h]
  BY <1>1
<1> DEFINE t == SubSeq(stream[c], 1, n)
<1>3. /\ t \in Seq(Part) /\ Len(t) = n /\ Pairs(t, FALSE)
      /\ \A i \in 1 .. Len(t) : i \in 1 .. Len(stream[c]) /\ t[i] = stream[c][i]
  BY PartFacts, CutParts
<1> HIDE DEF t
<1>4. /\ cnx \in [Conn -> Connection] /\ stream \in [Conn -> Seq(Part)]
      /\ reply \in [Conn -> Seq(Pong)]
  BY DEF IInv, TypeOK
<1>5. /\ stream'[c] = t /\ cnx'[c] = [cnx[c] EXCEPT !.link = "shut"]
      /\ cnx[c] \in Connection
      /\ \A d \in Conn \ {c} : stream'[d] = stream[d] /\ cnx'[d] = cnx[d]
      /\ reply'[c] = h /\ \A d \in Conn \ {c} : reply'[d] = reply[d]
  BY <1>1, <1>2, <1>4, <1>13 DEF t
<1>6. cnx'[c].link = "shut" /\ cnx'[c] \in Connection
  BY <1>5 DEF Connection
<1>7. TypeOK'
  <2>1. cnx' \in [Conn -> Connection]
    BY <1>1, <1>4, <1>6
  <2>2. stream' \in [Conn -> Seq(Part)]
    BY <1>2, <1>3, <1>4 DEF t
  <2>3. reply' \in [Conn -> Seq(Pong)]
    <3>1. h \in Seq(Pong)
      BY <1>4, PongParts
    <3> QED BY <1>4, <1>13, <3>1
  <2>4. faults' \in 0 .. MaxFaults
    BY <1>1, FaultCount DEF IInv
  <2> QED BY <1>1, <2>1, <2>2, <2>3, <2>4 DEF IInv, TypeOK
<1>8. ASSUME NEW d \in Conn
      PROVE  /\ Pairs(stream[d], Up(d))'
             /\ peer'[d] = "rest" =>
                  \/ stream'[d] = <<>> /\ ~Up(d)'
                  \/ stream'[d] # <<>> /\ stream'[d][1].part = "tail"
                                       /\ stream'[d][1].of \notin handled
  <2>1. CASE d = c
    <3>1. ~Up(d)'
      BY <1>6, <2>1 DEF Up
    <3>2. Pairs(t, Up(d)')
      BY <1>3, <3>1, Zenon DEF Pairs
    <3>3. t # <<>> => stream[c] # <<>> /\ t[1] = stream[c][1]
      <4>1. t # <<>> => 1 \in 1 .. Len(t)
        BY <1>3
      <4> QED BY <1>3, <4>1
    <3> QED BY <1>1, <1>5, <2>1, <3>1, <3>2, <3>3 DEF IInv, WireInv
  <2>2. CASE d # c
    <3>1. Up(d)' <=> Up(d)
      BY <1>5, <2>2 DEF Up
    <3>2. Pairs(stream[d], Up(d)')
      BY <3>1, PartFacts, Zenon DEF Pairs
    <3> QED BY <1>1, <1>5, <2>2, <3>1, <3>2 DEF IInv, WireInv
  <2> QED BY <2>1, <2>2
<1>9. \A d \in Conn : \A i \in 1 .. Len(stream'[d]) :
        \E j \in 1 .. Len(stream[d]) : stream'[d][i] = stream[d][j]
  BY <1>3, <1>5
<1>10. \A d \in Conn : \/ cnx'[d] = cnx[d]
                       \/ Up(d) /\ cnx'[d] = [cnx[d] EXCEPT !.link = "shut"]
  BY <1>1, <1>5
<1>11. /\ UNCHANGED <<pool, req, handled, answer, torn>>
       /\ \A d \in Conn : \/ reply'[d] = reply[d]
                          \/ ~Up(d)' /\ reply'[d] \in Prefixes(reply[d])
  BY <1>1, <1>5, <1>6 DEF Up
<1>12. ASSUME NEW d \in Conn PROVE Pairs(stream[d], Up(d))'
  BY <1>8
<1> QED BY <1>7, <1>8, <1>9, <1>10, <1>11, <1>12, LossInv

-----------------------------------------------------------------------------
(* The invariant *)

LEMMA InitInv == Init => IInv
<1> SUFFICES ASSUME Init PROVE IInv
  OBVIOUS
<1>1. /\ pool = <<>> /\ cnx = [c \in Conn |-> Absent]
      /\ \A c \in Conn : /\ cnx[c] = Absent /\ stream[c] = <<>> /\ reply[c] = <<>>
                         /\ peer[c] = "none"
      /\ \A r \in Request : req[r] = "idle"
      /\ \A r \in Call : answer[r] = None
      /\ handled = {}
  BY RequestFacts DEF Init
<1>2. TypeOK
  BY RequestAssumption, AbsentFacts DEF Init, TypeOK
<1>3. PoolInv
  BY <1>1, AbsentFacts DEF PoolInv, Items
<1>4. PlaceInv
  BY <1>1, AbsentFacts DEF PlaceInv, On
<1>5. WireInv
  BY <1>1, AbsentFacts DEF WireInv, Pairs, On
<1>6. UseInv /\ CleanInv
  BY <1>1, AbsentFacts DEF UseInv, CleanInv
<1> QED BY <1>1, <1>2, <1>3, <1>4, <1>5, <1>6 DEF IInv, AnswerIsOwn

LEMMA SubmitInv ==
  ASSUME IInv, NEW r \in Request, Submit(r)
  PROVE  IInv'
BY ReuseInv, ConnectInv DEF Submit

LEMMA ClientInv ==
  ASSUME IInv, NEW c \in Conn, Client(c)
  PROVE  IInv'
BY ConnectSucceedsInv, ConnectFailsInv, WriteDoneInv, WriteFailedInv, ReadPartInv,
   ReadDoneInv, ReadFailedInv, KeepAliveInv
   DEF Client

LEMMA AstrayInv ==
  ASSUME IInv, NEW c \in Conn, Astray(c)
  PROVE  IInv'
BY ReadShortInv, ReadAstrayInv, ReadCutInv DEF Astray

LEMMA ServerInv ==
  ASSUME IInv, NEW c \in Conn, Server(c)
  PROVE  IInv'
BY ReadFirstInv, ReadGarbageInv, ReadRestInv, PeerInv DEF Server

LEMMA StutterInv ==
  ASSUME IInv, UNCHANGED vars
  PROVE  IInv'
<1>1. UNCHANGED <<pool, cnx, stream, reply, peer, listening, req, answer, torn, handled,
                 skipped, faults>>
  BY DEF vars, wire, seen, got
<1>2. TypeOK' /\ PoolInv' /\ UseInv' /\ AnswerIsOwn'
  BY <1>1 DEF IInv, TypeOK, PoolInv, UseInv, AnswerIsOwn, Items
<1>3. PlaceInv' /\ WireInv'
  BY <1>1 DEF IInv, PlaceInv, WireInv, Pairs, Up, On
<1>4. CleanInv'
  BY <1>1 DEF IInv, CleanInv, Clean, Owed, Up, On
<1> QED BY <1>2, <1>3, <1>4 DEF IInv

LEMMA NextInv ==
  ASSUME IInv, [Next]_vars
  PROVE  IInv'
BY SubmitInv, ClientInv, ServerInv, AstrayInv, LinkBreaksInv, ServerDiesInv, ServerStartsInv,
   StutterInv
   DEF Next

\* The invariant holds in every behaviour.
THEOREM Invariance == Spec => []IInv
BY InitInv, NextInv, PTL DEF Spec

\* The types of MessageBus are kept.
THEOREM TypeCorrect == Spec => []TypeOK
BY Invariance, PTL DEF IInv

\* A callback gets the Pong of its own Ping (ClientConnection::handleReceive), unless
\* a read took less than a size on its connection: until then a Pong is there only
\* while its call waits.
THEOREM AnswersOwn == Spec => []AnswerIsOwn
BY Invariance, PTL DEF IInv

\* What waits in m_pool is there once, and unless a read took less than a size there
\* nothing is to come back on it (MessageBus::release, getConnection).
THEOREM QuietPool == Spec => []PoolIsQuiet
<1>1. IInv => PoolIsQuiet
  <2> SUFFICES ASSUME IInv PROVE PoolIsQuiet
    OBVIOUS
  <2>1. \A c \in Conn : cnx[c].made => (c \in Items(pool) <=> cnx[c].op = "none")
    BY DEF IInv, PoolInv
  <2>2. \A i, j \in DOMAIN pool : pool[i] = pool[j] => i = j
    BY DEF IInv, PoolInv
  <2>3. ASSUME NEW c \in Items(pool), ~cnx[c].cut
        PROVE  reply[c] = <<>> /\ \A p \in Items(stream[c]) : p.of \in Send \cup handled
    <3>1. c \in Conn /\ reply[c] = <<>> /\ \A q \in Call \ handled : ~On(c, q)
      BY <2>3, InPool
    <3>2. ASSUME NEW p \in Items(stream[c]) PROVE p.of \in Send \cup handled
      <4>1. PICK i \in 1 .. Len(stream[c]) : p = stream[c][i]
        BY <3>1, PartFacts DEF Items
      <4>2. p.of \in Request /\ On(c, p.of)
        BY <3>1, <4>1, PartFacts
      <4> QED BY <3>1, <4>2 DEF Request
    <3> QED BY <3>1, <3>2
  <2> QED BY <2>1, <2>2, <2>3 DEF PoolIsQuiet
<1> QED BY <1>1, Invariance, PTL

-----------------------------------------------------------------------------
(* Refinement *)

LEMMA CallBackStep ==
  ASSUME IInv, NEW c \in Conn, cnx[c].op # "none", NEW o \in {"ok", "failed"},
         CallBack(cnx[c].req, o), UNCHANGED <<handled, torn>>,
         o = "ok" /\ cnx[c].req \in Call => cnx[c].req \in handled
  PROVE  Channel!Next
<1>1. cnx[c].req \in Send \cup Call
  BY DEF IInv, PoolInv, TypeOK, Connection, Request
<1>2. Channel!CallBack(cnx[c].req, o)
  BY DEF CallBack, Channel!CallBack
<1> QED BY <1>1, <1>2 DEF Channel!Next

\* A Pong, or a part of one, is taken for the answer.
LEMMA GotStep ==
  ASSUME IInv, NEW c \in Conn, cnx[c].op \in {"read", "rest"}, reply[c] # <<>>,
         NEW k, NEW s, s.req = cnx[c].req, cnx[c].cut => s.cut, Got(c, k, s)
  PROVE  Channel!Next
<1> DEFINE r == cnx[c].req
<1>1. /\ r \in Call /\ CallBack(r, "ok") /\ handled' = handled
      /\ torn' = IF s.cut THEN torn \cup {r} ELSE torn
      /\ cnx[c].cut => torn # {}
  BY DEF Got, seen, IInv, UseInv
<1>2. ~cnx[c].cut => r \in handled
  BY OwnReply
<1>3. CASE s.cut
  <2>1. r \in handled \/ torn # {}
    BY <1>1, <1>2
  <2>2. Channel!Tear(r)
    BY <1>1, <1>3, <2>1 DEF CallBack, Channel!Tear
  <2> QED BY <1>1, <2>2 DEF Channel!Next
<1>4. CASE ~s.cut
  <2>1. r \in handled /\ torn' = torn
    BY <1>1, <1>2, <1>4
  <2> QED BY <1>1, <2>1, CallBackStep
<1> QED BY <1>3, <1>4

LEMMA HandleStep ==
  ASSUME IInv, NEW c \in Conn, NEW r \in Request, On(c, r), r \notin handled,
         Receive(c, r), UNCHANGED <<req, torn>>
  PROVE  Channel!Next
<1>1. req[r] # "idle"
  BY DEF IInv, PlaceInv
<1>2. Channel!Handle(r)
  BY <1>1 DEF Receive, Channel!Handle
<1> QED BY <1>2 DEF Channel!Next, Request

LEMMA ClientStep ==
  ASSUME IInv, NEW c \in Conn, Client(c)
  PROVE  [Channel!Next]_<<req, handled, torn>>
<1>1. CASE ConnectFails(c)
  BY <1>1, CallBackStep DEF ConnectFails, got, seen
<1>2. CASE WriteDone(c)
  <2>1. CASE cnx[c].req \in Send
    BY <1>2, <2>1, CallBackStep, RequestFacts DEF WriteDone, got, seen
  <2>2. CASE cnx[c].req \notin Send
    BY <1>2, <2>2 DEF WriteDone, got, seen
  <2> QED BY <2>1, <2>2
<1>3. CASE WriteFailed(c)
  BY <1>3, CallBackStep DEF WriteFailed, got, seen
<1>4. ASSUME NEW k, ReadDone(c, k)
      PROVE  Channel!Next
  BY <1>4, GotStep DEF ReadDone, Reads
<1>5. CASE ReadFailed(c)
  BY <1>5, CallBackStep DEF ReadFailed, got, seen
<1>6. ASSUME NEW k, ReadPart(c, k) \/ KeepAliveReads(c, k)
      PROVE  UNCHANGED <<req, handled, torn>>
  BY <1>6 DEF ReadPart, KeepAliveReads, got, seen
<1>7. CASE ConnectSucceeds(c) \/ KeepAliveEnds(c) \/ HandleKeepAlive(c)
  BY <1>7 DEF ConnectSucceeds, KeepAliveEnds, HandleKeepAlive, got, seen
<1> QED BY <1>1, <1>2, <1>3, <1>4, <1>5, <1>6, <1>7 DEF Client

LEMMA AstrayStep ==
  ASSUME IInv, NEW c \in Conn, Astray(c)
  PROVE  [Channel!Next]_<<req, handled, torn>>
<1>1. CASE ReadShort(c)
  <2> DEFINE s == [cnx[c] EXCEPT !.cut = TRUE]
  <2>1. s.req = cnx[c].req /\ s.cut
    BY DEF IInv, TypeOK, Connection
  <2>2. cnx[c].op \in {"read", "rest"} /\ reply[c] # <<>> /\ \E k : Got(c, k, s)
    BY <1>1 DEF ReadShort, Reads
  <2> HIDE DEF s
  <2> QED BY <2>1, <2>2, GotStep
<1>2. ASSUME NEW k, ReadAstray(c, k)
      PROVE  Channel!Next
  BY <1>2, GotStep DEF ReadAstray, Reads
<1>3. CASE ReadCut(c)
  BY <1>3 DEF ReadCut, got
<1> QED BY <1>1, <1>2, <1>3 DEF Astray

LEMMA ServerStep ==
  ASSUME IInv, NEW c \in Conn, Server(c)
  PROVE  [Channel!Next]_<<req, handled, torn>>
<1>1. ASSUME NEW k \in DOMAIN stream[c], ReadFirst(c, k)
      PROVE  [Channel!Next]_<<req, handled, torn>>
  <2>1. CASE k = 1
    BY <1>1, <2>1 DEF ReadFirst, got, seen
  <2>2. CASE k # 1
    <3>1. 1 \in 1 .. Len(stream[c])
      BY PartFacts
    <3>2. stream[c][1].of \notin handled
      BY <1>1, <3>1 DEF ReadFirst, IInv, WireInv
    <3> QED BY <1>1, <2>2, <3>1, <3>2, PartFacts, HandleStep DEF ReadFirst, got
  <2> QED BY <2>1, <2>2
<1>2. CASE ReadRest(c)
  <2>1. stream[c] # <<>> /\ 1 \in 1 .. Len(stream[c]) /\ Head(stream[c]) = stream[c][1]
    BY <1>2, PartFacts DEF ReadRest
  <2>2. stream[c][1].of \notin handled
    BY <1>2, <2>1 DEF ReadRest, IInv, WireInv
  <2> QED BY <1>2, <2>1, <2>2, PartFacts, HandleStep DEF ReadRest, got
<1>3. CASE (\E k \in DOMAIN stream[c] : ReadGarbage(c, k)) \/ PongSent(c) \/ ReadEnds(c)
  BY <1>3 DEF ReadGarbage, PongSent, ReadEnds, got, seen
<1> QED BY <1>1, <1>2, <1>3 DEF Server

\* MessageBus is a RequestChannel: a message is handled once at most, its callback
\* runs once at most, and a Ping succeeds only if it was handled.  On a connection
\* that is cut it succeeds with what is left of others, but the first that succeeds
\* with less than its Pong was handled.
THEOREM Refinement == Spec => IsRequestChannel
<1>1. Init => Channel!Init
  BY DEF Init, Channel!Init, Request
<1>2. ASSUME IInv, [Next]_vars
      PROVE  [Channel!Next]_<<req, handled, torn>>
  <2>1. ASSUME NEW r \in Request, Submit(r)
        PROVE  Channel!Next
    <3>1. Channel!Submit(r)
      BY <2>1 DEF Submit, Channel!Submit, got, seen
    <3> QED BY <3>1 DEF Channel!Next, Request
  <2>2. CASE \E c \in Conn : LinkBreaks(c)
    BY <2>2 DEF LinkBreaks, got, seen
  <2>3. CASE ServerDies \/ ServerStarts
    BY <2>3 DEF ServerDies, ServerStarts, got, seen
  <2>4. CASE UNCHANGED vars
    BY <2>4 DEF vars, got, seen
  <2> QED BY <1>2, <2>1, <2>2, <2>3, <2>4, ClientStep, AstrayStep,
     ServerStep DEF Next
<1> QED BY <1>1, <1>2, Invariance, PTL DEF Spec, IsRequestChannel, Channel!Spec, Channel!vars

-----------------------------------------------------------------------------
(* No request is forgotten *)

\* The call of c is written, the connection is up and nothing is on it to be read.
Awaits(c) ==
  /\ cnx[c].op \in {"write", "read"} /\ cnx[c].req \in Call
  /\ Up(c) /\ reply[c] = <<>>

\* The call of c is on its way to the server, or the server dropped it.
Due(c) ==
  \/ cnx[c].req \in skipped
  \/ On(c, cnx[c].req) /\ cnx[c].req \notin handled

\* What is written was connected, what is up has a Connection at the other side, and
\* a call that waits was not lost.
Served(c) ==
  /\ cnx[c].op \in {"write", "read", "rest"} => cnx[c].link # "none"
  /\ Up(c) => peer[c] # "none"
  /\ Awaits(c) => Due(c)

\* A request that was not called back has a connection.
Carried == \A r \in Request : req[r] = "pending" => \E c \in Conn : cnx[c].req = r

WaitInv == Carried /\ \A c \in Conn : Served(c)

LEMMA SameServed ==
  ASSUME NEW c \in Conn, Served(c), cnx'[c] = cnx[c], stream'[c] = stream[c],
         reply'[c] = reply[c], peer'[c] = peer[c], skipped \subseteq skipped',
         \A q : On(c, q) /\ q \in handled' => q \in handled
  PROVE  Served(c)'
<1>1. (Up(c)' <=> Up(c)) /\ (Awaits(c)' <=> Awaits(c))
  BY DEF Up, Awaits
<1>2. Due(c) => Due(c)'
  <2>1. \A q : On(c, q)' <=> On(c, q)
    BY DEF On
  <2> QED BY <2>1 DEF Due
<1> QED BY <1>1, <1>2 DEF Served

LEMMA IdleServed ==
  ASSUME NEW c \in Conn, cnx'[c].op = "none", Up(c)' => peer'[c] # "none"
  PROVE  Served(c)'
BY DEF Served, Awaits

LEMMA ShutServed ==
  ASSUME NEW c \in Conn, cnx'[c].link = "shut"
  PROVE  Served(c)'
<1>1. ~Up(c)' /\ ~Awaits(c)'
  BY DEF Up, Awaits
<1> QED BY <1>1 DEF Served

\* A step of the client on c that leaves the request there.
LEMMA OneServed ==
  ASSUME IInv, WaitInv, NEW c \in Conn, NEW s \in Connection,
         cnx' = [cnx EXCEPT ![c] = s], UNCHANGED <<stream, peer, req, seen>>,
         \A d \in Conn \ {c} : reply'[d] = reply[d],
         s.req = cnx[c].req, s.link = cnx[c].link,
         \/ s.op = cnx[c].op /\ (s.op = "none" \/ reply'[c] = reply[c])
         \/ s.op = "read" /\ cnx[c].op = "write" /\ reply'[c] = reply[c]
         \/ s.op = "rest" /\ cnx[c].op = "read"
  PROVE  WaitInv'
<1>1. /\ cnx'[c] = s /\ \A d \in Conn \ {c} : cnx'[d] = cnx[d]
      /\ UNCHANGED <<stream, peer, req, skipped, handled>>
  BY DEF IInv, TypeOK, seen
<1>2. Carried'
  <2>1. \A d \in Conn : cnx'[d].req = cnx[d].req
    BY <1>1
  <2> QED BY <1>1, <2>1 DEF WaitInv, Carried
<1>3. ASSUME NEW d \in Conn PROVE Served(d)'
  <2>1. Served(d)
    BY DEF WaitInv
  <2>2. CASE d = c
    <3>1. (Up(d)' <=> Up(d)) /\ (Awaits(d)' => Awaits(d))
      BY <1>1, <2>2 DEF Up, Awaits
    <3>2. Due(d) => Due(d)'
      <4>1. cnx'[d].req = cnx[d].req /\ \A q : On(d, q)' <=> On(d, q)
        BY <1>1, <2>2 DEF On
      <4> QED BY <1>1, <4>1 DEF Due
    <3>3. cnx'[d].op \in {"write", "read", "rest"} => cnx'[d].link # "none"
      BY <1>1, <2>1, <2>2 DEF Served
    <3> QED BY <1>1, <2>1, <3>1, <3>2, <3>3 DEF Served
  <2>3. CASE d # c
    BY <1>1, <2>1, <2>3, SameServed
  <2> QED BY <2>2, <2>3
<1> QED BY <1>2, <1>3 DEF WaitInv

\* The end of an operation.
LEMMA ReleaseServed ==
  ASSUME IInv, WaitInv, NEW c \in Conn, cnx[c].op # "none",
         NEW s \in Connection, s.link = cnx[c].link, Release(c, s),
         NEW o \in {"ok", "failed"}, CallBack(cnx[c].req, o),
         \A d \in Conn \ {c} : reply'[d] = reply[d], UNCHANGED <<stream, peer, seen>>
  PROVE  WaitInv'
<1> DEFINE q == [s EXCEPT !.bus = FALSE, !.op = "none", !.req = None,
                          !.keep = IF s.link = "none" THEN "failed" ELSE "reading"]
<1>1. q.op = "none" /\ q.req = None /\ q.link = s.link
  BY DEF Connection
<1> HIDE DEF q
<1>2. PICK t : /\ cnx' = [cnx EXCEPT ![c] = t]
               /\ t.op = "none" /\ t.req = None /\ (t.link = "up" => Up(c))
  <2>1. CASE s.error \/ ~s.bus
    <3>1. cnx' = [cnx EXCEPT ![c] = Absent]
      BY <2>1, Zenon DEF Release
    <3> QED BY <3>1, AbsentFacts
  <2>2. CASE ~(s.error \/ ~s.bus)
    <3>1. cnx' = [cnx EXCEPT ![c] = q]
      BY <2>2, Zenon DEF Release, q
    <3> QED BY <1>1, <3>1 DEF Up
  <2> QED BY <2>1, <2>2
<1>3. /\ cnx'[c] = t /\ \A d \in Conn \ {c} : cnx'[d] = cnx[d]
      /\ req \in [Request -> {"idle", "pending", "ok", "failed"}]
  BY <1>2 DEF IInv, TypeOK
<1>4. req' = [req EXCEPT ![cnx[c].req] = o]
  BY DEF CallBack
<1>5. Carried'
  <2> SUFFICES ASSUME NEW r \in Request, req'[r] = "pending"
               PROVE  \E d \in Conn : cnx'[d].req = r
    BY DEF Carried
  <2>1. req[r] = "pending" /\ r # cnx[c].req
    BY <1>3, <1>4
  <2>2. PICK d \in Conn : cnx[d].req = r
    BY <2>1 DEF WaitInv, Carried
  <2> QED BY <1>3, <2>1, <2>2
<1>6. ASSUME NEW d \in Conn PROVE Served(d)'
  <2>1. Served(d)
    BY DEF WaitInv
  <2>2. CASE d = c
    <3>1. Up(d)' => Up(d)
      BY <1>2, <1>3, <2>2 DEF Up
    <3>2. peer'[d] = peer[d] /\ (Up(d) => peer[d] # "none") /\ cnx'[d].op = "none"
      BY <1>2, <1>3, <2>1, <2>2 DEF Served
    <3> QED BY <3>1, <3>2, IdleServed
  <2>3. CASE d # c
    <3>1. handled' = handled /\ skipped' = skipped
      BY DEF seen
    <3> QED BY <1>3, <2>1, <2>3, <3>1, SameServed
  <2> QED BY <2>2, <2>3
<1> QED BY <1>5, <1>6 DEF WaitInv

\* What was read is passed on.
LEMMA GotServed ==
  ASSUME IInv, WaitInv, NEW c \in Conn, cnx[c].op # "none", NEW k,
         NEW s \in Connection, s.link = cnx[c].link, s.req = cnx[c].req, Got(c, k, s)
  PROVE  WaitInv'
<1>1. /\ Release(c, s) /\ CallBack(cnx[c].req, "ok") /\ UNCHANGED <<stream, peer, seen>>
      /\ \A d \in Conn \ {c} : reply'[d] = reply[d]
  BY DEF Got, IInv, TypeOK
<1> QED BY <1>1, ReleaseServed

\* A failure is passed on.
LEMMA FailedServed ==
  ASSUME IInv, WaitInv, NEW c \in Conn, cnx[c].op # "none",
         CallBack(cnx[c].req, "failed"), Release(c, [cnx[c] EXCEPT !.error = TRUE]),
         UNCHANGED <<wire, seen>>
  PROVE  WaitInv'
<1> DEFINE s == [cnx[c] EXCEPT !.error = TRUE]
<1> cnx[c] \in Connection
  BY DEF IInv, TypeOK
<1>1. s \in Connection /\ s.link = cnx[c].link /\ s.req = cnx[c].req
  BY DEF Connection
<1>2. Release(c, s)
  OBVIOUS
<1> HIDE DEF s
<1>3. UNCHANGED <<stream, reply, peer>>
  BY DEF wire
<1> QED BY <1>1, <1>2, <1>3, ReleaseServed

LEMMA ClientServed ==
  ASSUME IInv, WaitInv, NEW c \in Conn, Client(c), ~ConnectSucceeds(c)
  PROVE  WaitInv'
<1>0. cnx[c] \in Connection
  BY DEF IInv, TypeOK
<1>2. CASE ConnectFails(c)
  BY <1>0, <1>2, ReleaseServed DEF ConnectFails, wire
<1>3. CASE WriteDone(c)
  <2>1. CASE cnx[c].req \in Send
    BY <1>0, <1>3, <2>1, ReleaseServed DEF WriteDone, wire
  <2>2. CASE cnx[c].req \notin Send
    <3> DEFINE s == [cnx[c] EXCEPT !.op = "read"]
    <3>1. s \in Connection /\ s.op = "read" /\ s.req = cnx[c].req /\ s.link = cnx[c].link
      BY <1>0 DEF Connection
    <3>2. cnx' = [cnx EXCEPT ![c] = s] /\ UNCHANGED <<stream, reply, peer, req, seen>>
      BY <1>3, <2>2 DEF WriteDone, wire, IInv, TypeOK
    <3> HIDE DEF s
    <3>3. cnx[c].op = "write"
      BY <1>3 DEF WriteDone
    <3> QED BY <3>1, <3>2, <3>3, OneServed
  <2> QED BY <2>1, <2>2
<1>4. CASE WriteFailed(c)
  BY <1>4, FailedServed DEF WriteFailed
<1>5. ASSUME NEW k, ReadPart(c, k) PROVE WaitInv'
  <2> DEFINE s == [cnx[c] EXCEPT !.op = "rest"]
  <2>1. s \in Connection /\ s.op = "rest" /\ s.req = cnx[c].req /\ s.link = cnx[c].link
    BY <1>0 DEF Connection
  <2>2. /\ cnx' = [cnx EXCEPT ![c] = s] /\ UNCHANGED <<stream, peer, req, seen>>
        /\ \A d \in Conn \ {c} : reply'[d] = reply[d]
    BY <1>5 DEF ReadPart, IInv, TypeOK
  <2> HIDE DEF s
  <2>3. cnx[c].op = "read"
    BY <1>5 DEF ReadPart, Reads
  <2> QED BY <2>1, <2>2, <2>3, OneServed
<1>6. ASSUME NEW k, ReadDone(c, k) PROVE WaitInv'
  BY <1>0, <1>6, GotServed DEF ReadDone, Reads
<1>7. CASE ReadFailed(c)
  BY <1>7, FailedServed DEF ReadFailed
<1>8. ASSUME NEW w \in {"failed", "taken"}, cnx' = [cnx EXCEPT ![c].keep = w],
             cnx[c].keep = "reading", UNCHANGED <<stream, peer, req, seen>>,
             \A d \in Conn \ {c} : reply'[d] = reply[d]
      PROVE  WaitInv'
  <2> DEFINE s == [cnx[c] EXCEPT !.keep = w]
  <2>1. s \in Connection /\ s.op = cnx[c].op /\ s.req = cnx[c].req /\ s.link = cnx[c].link
    BY <1>0 DEF Connection
  <2>2. cnx' = [cnx EXCEPT ![c] = s]
    BY <1>8 DEF IInv, TypeOK
  <2> HIDE DEF s
  <2>3. cnx[c].op = "none"
    BY <1>8 DEF IInv, UseInv
  <2> QED BY <1>8, <2>1, <2>2, <2>3, OneServed
<1>9. CASE KeepAliveEnds(c)
  BY <1>8, <1>9 DEF KeepAliveEnds, wire
<1>10. ASSUME NEW k, KeepAliveReads(c, k) PROVE WaitInv'
  <2>1. \A d \in Conn \ {c} : reply'[d] = reply[d]
    BY <1>10 DEF KeepAliveReads, IInv, TypeOK
  <2> QED BY <1>8, <1>10, <2>1 DEF KeepAliveReads
<1>11. CASE HandleKeepAlive(c)
  <2> DEFINE b == cnx[c].error \/ cnx[c].keep = "failed"
             s == [cnx[c] EXCEPT !.keep = "none", !.error = b]
  <2>1. b \in BOOLEAN
    BY <1>0 DEF Connection
  <2>2. cnx' = [cnx EXCEPT ![c] = s] /\ UNCHANGED <<stream, reply, peer, req, seen>>
    BY <1>11, Zenon DEF HandleKeepAlive, wire
  <2> HIDE DEF b
  <2>3. s \in Connection /\ s.op = cnx[c].op /\ s.req = cnx[c].req /\ s.link = cnx[c].link
    BY <1>0, <2>1 DEF Connection
  <2> HIDE DEF s
  <2> QED BY <2>2, <2>3, OneServed
<1> QED BY <1>2, <1>3, <1>4, <1>5, <1>6, <1>7, <1>9, <1>10, <1>11 DEF Client

\* A message is written to c, which nobody else has.
LEMMA WriteServed ==
  ASSUME IInv, WaitInv, NEW c \in Conn, NEW r \in Request,
         NEW f \in [Conn -> Connection], NEW s \in Connection, Write(f, c, s, r),
         \A d \in Conn \ {c} : f[d] = cnx[d] \/ (f[d] = Absent /\ cnx[d].req = None),
         cnx[c].req \in {None, r}, r \notin handled,
         s.link = "up" => peer'[c] # "none",
         \A d \in Conn \ {c} : peer'[d] = peer[d], UNCHANGED <<reply, seen>>,
         \A q \in Request \ {r} : req'[q] = "pending" => req[q] = "pending"
  PROVE  WaitInv'
<1> DEFINE t(o) == [s EXCEPT !.req = r, !.op = o]
           m == stream[c] \o Whole(r)
<1>1. PICK written \in CASE s.link = "up"   -> {TRUE}
                         [] s.link = "none" -> {FALSE}
                         [] OTHER           -> BOOLEAN :
        /\ cnx' = [f EXCEPT ![c] = t(IF written THEN "write" ELSE "unwritten")]
        /\ stream' = IF s.link = "up" THEN [stream EXCEPT ![c] = m] ELSE stream
  BY DEF Write
<1>0. UNCHANGED <<handled, skipped>>
  BY DEF seen
<1>2. PICK o \in {"write", "unwritten"} :
        cnx' = [f EXCEPT ![c] = t(o)] /\ (o = "write" => s.link # "none")
  <2>1. CASE written
    <3>1. s.link # "none"
      BY <2>1
    <3> QED BY <1>1, <2>1, <3>1
  <2>2. CASE ~written
    BY <1>1, <2>2
  <2> QED BY <2>1, <2>2
<1>3. t(o).op = o /\ t(o).req = r /\ t(o).link = s.link
  BY DEF Connection
<1>4. cnx'[c] = t(o) /\ \A d \in Conn \ {c} : cnx'[d] = f[d]
  BY <1>2
<1> HIDE DEF t
<1>5. /\ \A d \in Conn \ {c} : stream'[d] = stream[d]
      /\ s.link = "up" => stream'[c] = m
  BY <1>1 DEF IInv, TypeOK
<1>6. Len(m) \in Nat /\ Len(m) \in 1 .. Len(m) /\ m[Len(m)].of = r
  <2>1. /\ Head1(r) \in Part /\ Tail1(r) \in Part /\ Tail1(r).of = r
        /\ stream[c] \in Seq(Part) /\ Len(stream[c]) \in Nat
    BY PartFacts DEF Head1, Tail1, Part
  <2>2. <<Head1(r), Tail1(r)>> \in Seq(Part) /\ Len(<<Head1(r), Tail1(r)>>) = 2
        /\ m = stream[c] \o <<Head1(r), Tail1(r)>>
    BY <2>1 DEF Whole, Head1, Tail1
  <2> HIDE DEF m
  <2>3. Len(m) = Len(stream[c]) + 2 /\ m[Len(stream[c]) + 2] = Tail1(r)
    BY <2>1, <2>2, ConcatProperties
  <2> QED BY <2>1, <2>3
<1> HIDE DEF m
<1>7. Carried'
  <2> SUFFICES ASSUME NEW q \in Request, req'[q] = "pending"
               PROVE  \E d \in Conn : cnx'[d].req = q
    BY DEF Carried
  <2>1. CASE q = r
    BY <1>3, <1>4, <2>1
  <2>2. CASE q # r
    <3>1. PICK d \in Conn : cnx[d].req = q
      BY <2>2 DEF WaitInv, Carried
    <3>2. d # c /\ cnx[d].req # None
      BY <2>2, <3>1, RequestFacts
    <3> QED BY <1>4, <3>1, <3>2
  <2> QED BY <2>1, <2>2
<1>8. ASSUME NEW d \in Conn PROVE Served(d)'
  <2>1. Served(d)
    BY DEF WaitInv
  <2>2. CASE d = c
    <3>1. Up(d)' => /\ s.link = "up" /\ stream'[d] = m
      BY <1>3, <1>4, <1>5, <2>2 DEF Up
    <3>2. Up(d)' => On(d, r)'
      BY <1>6, <3>1 DEF On
    <3>3. Up(d)' => peer'[d] # "none"
      BY <2>2, <3>1
    <3>4. cnx'[d].op = o /\ cnx'[d].req = r /\ cnx'[d].link = s.link
      BY <1>3, <1>4, <2>2
    <3>5. Awaits(d)' => Due(d)'
      <4>1. On(d, cnx[d].req)' <=> On(d, r)'
        BY <3>4 DEF On
      <4> QED BY <1>0, <3>2, <3>4, <4>1 DEF Awaits, Due
    <3> QED BY <1>2, <3>3, <3>4, <3>5 DEF Served
  <2>3. CASE d # c
    <3>1. CASE f[d] = cnx[d]
      BY <1>0, <1>4, <1>5, <2>1, <2>3, <3>1, SameServed
    <3>2. CASE f[d] = Absent
      <4>1. cnx'[d].op = "none" /\ ~Up(d)'
        BY <1>4, <2>3, <3>2, AbsentFacts DEF Up
      <4> QED BY <4>1, IdleServed
    <3> QED BY <2>3, <3>1, <3>2
  <2> QED BY <2>2, <2>3
<1> QED BY <1>7, <1>8 DEF WaitInv

LEMMA ConnectSucceedsServed ==
  ASSUME IInv, WaitInv, NEW c \in Conn, ConnectSucceeds(c)
  PROVE  WaitInv'
<1> DEFINE s == [cnx[c] EXCEPT !.link = "up"]
           r == cnx[c].req
<1>1. /\ cnx \in [Conn -> Connection] /\ cnx[c] \in Connection
      /\ cnx[c].op = "connect"
  BY DEF IInv, TypeOK, ConnectSucceeds
<1>2. s \in Connection /\ r \in Request /\ r \notin handled
  BY <1>1 DEF Connection, IInv, PoolInv, PlaceInv
<1>3. /\ Write(cnx, c, s, r) /\ peer' = [peer EXCEPT ![c] = "first"]
      /\ UNCHANGED <<reply, req, seen>>
  BY DEF ConnectSucceeds
<1>4. peer'[c] = "first" /\ \A d \in Conn \ {c} : peer'[d] = peer[d]
  BY <1>3 DEF IInv, TypeOK
<1>5. /\ \A d \in Conn \ {c} : cnx[d] = cnx[d] \/ (cnx[d] = Absent /\ cnx[d].req = None)
      /\ cnx[c].req \in {None, r}
      /\ \A q \in Request \ {r} : req'[q] = "pending" => req[q] = "pending"
  BY <1>3
<1> HIDE DEF s, r
<1> QED BY <1>1, <1>2, <1>3, <1>4, <1>5, WriteServed

LEMMA ReuseServed ==
  ASSUME IInv, WaitInv, NEW r \in Request, Submit(r), Reuse(r)
  PROVE  WaitInv'
<1>1. /\ req' = [req EXCEPT ![r] = "pending"] /\ UNCHANGED <<peer, seen, reply>>
      /\ r \notin handled
  BY DEF Submit, Reuse, IInv, PlaceInv
<1> DEFINE u(i) == [cnx[pool[i]] EXCEPT !.bus = TRUE,
                                        !.keep = IF @ = "reading" THEN "aborted" ELSE @]
           gone(i) == {pool[j] : j \in 1 .. i - 1}
           f(i) == [d \in Conn |-> IF d \in gone(i) THEN Absent ELSE cnx[d]]
<1>2. PICK i \in DOMAIN pool : Write(f(i), pool[i], u(i), r)
  BY DEF Reuse, Usable
<1> DEFINE c == pool[i]
           s == u(i)
<1>3. pool \in Seq(Conn) /\ cnx \in [Conn -> Connection] /\ DOMAIN pool = 1 .. Len(pool)
  BY DEF IInv, TypeOK
<1>4. c \in Items(pool) /\ c \in Conn /\ gone(i) \subseteq Items(pool)
  <2>1. 1 .. i - 1 \subseteq DOMAIN pool
    BY <1>3
  <2> QED BY <1>3, <2>1 DEF Items
<1>5. cnx[c] \in Connection /\ cnx[c].req = None
  BY <1>3, <1>4, InPool
<1>6. s \in Connection /\ s.link = cnx[c].link
  BY <1>5 DEF Connection
<1>7. /\ f(i) \in [Conn -> Connection]
      /\ \A d \in Conn : f(i)[d] = IF d \in gone(i) THEN Absent ELSE cnx[d]
  BY <1>3, AbsentFacts
<1>8. \A d \in Conn \ {c} : f(i)[d] = cnx[d] \/ (f(i)[d] = Absent /\ cnx[d].req = None)
  BY <1>4, <1>7, InPool
<1>9. s.link = "up" => peer'[c] # "none"
  <2>1. Served(c)
    BY <1>4 DEF WaitInv
  <2> QED BY <1>1, <1>6, <2>1 DEF Served, Up
<1>10. \A q \in Request \ {r} : req'[q] = "pending" => req[q] = "pending"
  BY <1>1 DEF IInv, TypeOK
<1>11. /\ Write(f(i), c, s, r) /\ \A d \in Conn \ {c} : peer'[d] = peer[d]
       /\ UNCHANGED <<reply, seen>> /\ cnx[c].req \in {None, r} /\ r \notin handled
  BY <1>1, <1>2, <1>5
<1> HIDE DEF s, c, f, u
<1> QED BY <1>4, <1>6, <1>7, <1>8, <1>9, <1>10, <1>11, WriteServed

LEMMA ConnectServed ==
  ASSUME IInv, WaitInv, NEW r \in Request, Submit(r), Connect(r)
  PROVE  WaitInv'
<1> DEFINE c == CHOOSE d \in Free : TRUE
           s == [Absent EXCEPT !.made = TRUE, !.bus = TRUE, !.op = "connect", !.req = r]
<1>1. /\ req' = [req EXCEPT ![r] = "pending"] /\ UNCHANGED <<peer, handled, skipped>>
      /\ cnx' = [d \in Conn |-> CASE d = c           -> s
                                  [] d \in Items(pool) -> Absent
                                  [] OTHER           -> cnx[d]]
      /\ stream' = [stream EXCEPT ![c] = <<>>]
      /\ reply' = [reply EXCEPT ![c] = <<>>]
  BY DEF Submit, Connect, seen
<1>2. c \in Conn /\ ~cnx[c].made
  BY DEF Connect, Free
<1>3. s.op = "connect" /\ s.req = r /\ s.link = "none"
  BY DEF Absent
<1> HIDE DEF c, s
<1>4. cnx[c].req = None /\ c \notin Items(pool)
  BY <1>2, AbsentFacts DEF IInv, PoolInv
<1>5. /\ cnx'[c] = s
      /\ \A d \in Conn \ {c} : /\ cnx'[d] = IF d \in Items(pool) THEN Absent ELSE cnx[d]
                               /\ stream'[d] = stream[d] /\ reply'[d] = reply[d]
  <2>1. cnx' = [d \in Conn |-> IF d = c THEN s
                             ELSE IF d \in Items(pool) THEN Absent ELSE cnx[d]]
    BY <1>1, <1>4
  <2> QED BY <1>1, <1>2, <2>1 DEF IInv, TypeOK
<1>6. Carried'
  <2> SUFFICES ASSUME NEW q \in Request, req'[q] = "pending"
               PROVE  \E d \in Conn : cnx'[d].req = q
    BY DEF Carried
  <2>1. CASE q = r
    BY <1>2, <1>3, <1>5, <2>1
  <2>2. CASE q # r
    <3>1. req[q] = "pending"
      BY <1>1, <2>2 DEF IInv, TypeOK
    <3>2. PICK d \in Conn : cnx[d].req = q
      BY <3>1 DEF WaitInv, Carried
    <3>3. d # c /\ d \notin Items(pool)
      BY <1>4, <3>2, InPool, RequestFacts
    <3> QED BY <1>5, <3>2, <3>3
  <2> QED BY <2>1, <2>2
<1>7. ASSUME NEW d \in Conn PROVE Served(d)'
  <2>1. Served(d)
    BY DEF WaitInv
  <2>2. CASE d = c
    <3>1. cnx'[d] = s /\ ~Up(d)' /\ ~Awaits(d)'
      BY <1>3, <1>5, <2>2 DEF Up, Awaits
    <3> QED BY <1>3, <3>1 DEF Served
  <2>3. CASE d # c /\ d \in Items(pool)
    <3>1. cnx'[d].op = "none" /\ ~Up(d)'
      BY <1>5, <2>3, AbsentFacts DEF Up
    <3> QED BY <3>1, IdleServed
  <2>4. CASE d # c /\ d \notin Items(pool)
    BY <1>1, <1>5, <2>1, <2>4, SameServed
  <2> QED BY <2>2, <2>3, <2>4
<1> QED BY <1>6, <1>7 DEF WaitInv

\* A step at the other side of c, that shuts the link or does not lose the call, and
\* handles nothing that is elsewhere.
LEMMA FarServed ==
  ASSUME IInv, WaitInv, NEW c \in Conn, req' = req, skipped \subseteq skipped',
         \A d \in Conn \ {c} : \A q : On(d, q) /\ q \in handled' => q \in handled,
         \A d \in Conn \ {c} : /\ cnx'[d] = cnx[d] /\ stream'[d] = stream[d]
                               /\ reply'[d] = reply[d] /\ peer'[d] = peer[d],
         \/ cnx'[c] = [cnx[c] EXCEPT !.link = "shut"]
         \/ /\ cnx'[c] = cnx[c]
            /\ Up(c) => peer'[c] # "none"
            /\ Awaits(c)' => Due(c)'
  PROVE  WaitInv'
<1>1. cnx[c] \in Connection
  BY DEF IInv, TypeOK
<1>2. \A d \in Conn : cnx'[d].req = cnx[d].req
  BY <1>1 DEF Connection
<1>3. Carried'
  BY <1>2 DEF WaitInv, Carried
<1>4. ASSUME NEW d \in Conn PROVE Served(d)'
  <2>1. Served(d)
    BY DEF WaitInv
  <2>2. CASE d # c
    BY <2>1, <2>2, SameServed
  <2>3. CASE d = c /\ cnx'[c] = [cnx[c] EXCEPT !.link = "shut"]
    <3>1. cnx'[d].link = "shut"
      BY <1>1, <2>3 DEF Connection
    <3> QED BY <3>1, ShutServed
  <2>4. CASE d = c /\ cnx'[c] # [cnx[c] EXCEPT !.link = "shut"]
    <3>1. cnx'[d] = cnx[d] /\ (Up(d)' => peer'[d] # "none") /\ (Awaits(d)' => Due(d)')
      BY <2>4 DEF Up
    <3> QED BY <2>1, <3>1 DEF Served
  <2> QED BY <2>2, <2>3, <2>4
<1> QED BY <1>3, <1>4 DEF WaitInv

\* The Connection gets r: the call of c, which it answers, or another message.
LEMMA ReceiveServed ==
  ASSUME IInv, WaitInv, NEW c \in Conn, NEW r \in Request, Receive(c, r),
         On(c, r), UNCHANGED <<cnx, req>>, skipped \subseteq skipped',
         NEW t \in Seq(Part), stream' = [stream EXCEPT ![c] = t],
         \A q \in Request \ {r} :
           On(c, q) => q \in skipped' \/ \E i \in 1 .. Len(t) : t[i].of = q
  PROVE  WaitInv'
<1> DEFINE p == IF Answers(r) THEN "writing" ELSE "first"
           h == IF Answers(r) /\ cnx[c].link = "up" THEN reply[c] \o Whole(r) ELSE reply[c]
<1>1. peer' = [peer EXCEPT ![c] = p] /\ reply' = [reply EXCEPT ![c] = h]
  BY DEF Receive
<1>2. p # "none" /\ (h = <<>> => reply[c] = <<>> /\ ~(r \in Call /\ Up(c)))
  <2>1. reply[c] \in Seq(Pong)
    BY DEF IInv, TypeOK
  <2>2. r \in Call => reply[c] \o Whole(r) # <<>>
    <3> SUFFICES ASSUME r \in Call PROVE reply[c] \o Whole(r) # <<>>
      OBVIOUS
    <3> DEFINE w == Whole(r)
    <3>1. w \in Seq(Pong) /\ Len(w) = 2
      BY WholePong
    <3> HIDE DEF w
    <3>2. Len(reply[c] \o w) = Len(reply[c]) + Len(w)
      BY <2>1, <3>1, ConcatProperties
    <3>3. Len(reply[c]) \in Nat
      BY <2>1
    <3>4. Len(reply[c] \o w) # 0
      BY <3>1, <3>2, <3>3
    <3> QED BY <3>4 DEF w
  <2> QED BY <2>2 DEF Answers, Up
<1> HIDE DEF p, h
<1>3. /\ peer'[c] = p /\ reply'[c] = h /\ stream'[c] = t /\ cnx'[c] = cnx[c]
      /\ \A d \in Conn \ {c} : /\ cnx'[d] = cnx[d] /\ stream'[d] = stream[d]
                               /\ reply'[d] = reply[d] /\ peer'[d] = peer[d]
  BY <1>1 DEF IInv, TypeOK
<1>4. Up(c) => peer'[c] # "none"
  BY <1>2, <1>3
<1>5. ASSUME Awaits(c)' PROVE Due(c)'
  <2>1. h = <<>> /\ Up(c) /\ Awaits(c) /\ cnx[c].req \in Request \ {r}
    BY <1>2, <1>3, <1>5, RequestFacts DEF Awaits, Up
  <2>2. cnx[c].req \in skipped \/ (On(c, cnx[c].req) /\ cnx[c].req \notin handled)
    BY <2>1 DEF WaitInv, Served, Due
  <2>3. \/ cnx[c].req \in skipped'
        \/ /\ cnx[c].req \notin handled
           /\ cnx[c].req \in skipped' \/ \E i \in 1 .. Len(t) : t[i].of = cnx[c].req
    BY <2>1, <2>2
  <2>4. cnx[c].req \notin handled => cnx[c].req \notin handled'
    BY <2>1 DEF Receive
  <2> QED BY <1>3, <2>3, <2>4 DEF Due, On
<1>6. ASSUME NEW d \in Conn \ {c}, NEW q, On(d, q), q \in handled'
      PROVE  q \in handled
  <2>1. q = r => d = c
    BY <1>6 DEF IInv, PlaceInv
  <2> QED BY <1>6, <2>1 DEF Receive
<1> QED BY <1>3, <1>4, <1>5, <1>6, FarServed

LEMMA ReadFirstServed ==
  ASSUME IInv, WaitInv, NEW c \in Conn, NEW k \in DOMAIN stream[c], ReadFirst(c, k)
  PROVE  WaitInv'
<1> DEFINE s == stream[c]
           t == SubSeq(s, k + 1, Len(s))
<1>1. /\ s \in Seq(Part) /\ Len(s) \in Nat /\ k \in 1 .. Len(s) /\ 1 \in 1 .. Len(s)
      /\ Pairs(s, Up(c)) /\ Up(c) \in BOOLEAN /\ s[1].part = "head"
      /\ s[1].of \in Request /\ On(c, s[1].of)
  <2>1. k \in 1 .. Len(s) /\ 1 \in 1 .. Len(s)
    BY PartFacts
  <2> QED BY <2>1, PartFacts DEF ReadFirst
<1>2. stream' = [stream EXCEPT ![c] = t] /\ UNCHANGED <<cnx, req>>
  BY DEF ReadFirst, Past
<1> HIDE DEF s
<1>3. t \in Seq(Part) /\ Len(t) = Len(s) - k /\ \A i \in 1 .. Len(t) : t[i] = s[i + k]
  BY <1>1, DropParts
<1> HIDE DEF t
\* What was on the stream and is no more was among the first k.
<1>4. ASSUME NEW i \in 1 .. Len(s), k < i
      PROVE  \E j \in 1 .. Len(t) : t[j].of = s[i].of
  <2>1. i - k \in 1 .. Len(t) /\ (i - k) + k = i
    BY <1>1, <1>3, <1>4
  <2> QED BY <1>3, <2>1
\* The part after the head of a message, if there is one, is its tail.
<1>5. 2 \in 1 .. Len(s) => s[2].of = s[1].of
  <2>1. \/ 1 = Len(s)
        \/ 1 < Len(s) /\ s[1 + 1].of = s[1].of
    BY <1>1 DEF Pairs
  <2>2. 1 + 1 = 2
    OBVIOUS
  <2> QED BY <1>1, <2>1, <2>2
<1>6. CASE k = 1
  <2>1. peer' = [peer EXCEPT ![c] = "rest"] /\ UNCHANGED <<reply, handled, skipped>>
    BY <1>6 DEF ReadFirst, seen
  <2>2. /\ peer'[c] = "rest" /\ stream'[c] = t /\ cnx'[c] = cnx[c] /\ reply'[c] = reply[c]
        /\ \A d \in Conn \ {c} : /\ cnx'[d] = cnx[d] /\ stream'[d] = stream[d]
                                 /\ reply'[d] = reply[d] /\ peer'[d] = peer[d]
    BY <1>2, <2>1 DEF IInv, TypeOK
  <2>3. ASSUME Awaits(c)' PROVE Due(c)'
    <3>1. Awaits(c) /\ Up(c) /\ cnx'[c].req = cnx[c].req
      BY <2>2, <2>3 DEF Awaits, Up
    <3>2. \/ cnx[c].req \in skipped
          \/ On(c, cnx[c].req) /\ cnx[c].req \notin handled
      BY <1>2, <3>1 DEF WaitInv, Served, Due
    <3>3. CASE On(c, cnx[c].req) /\ cnx[c].req \notin handled
      <4>1. PICK i \in 1 .. Len(s) : s[i].of = cnx[c].req
        BY <3>3 DEF On, s
      <4>2. 2 \in 1 .. Len(s) /\ s[2].of = s[1].of
        <5>1. 1 < Len(s)
          BY <1>1, <3>1 DEF Pairs
        <5> QED BY <1>1, <1>5, <5>1
      <4>3. \E j \in 1 .. Len(s) : k < j /\ s[j].of = cnx[c].req
        <5>1. CASE i = 1
          BY <1>6, <4>1, <4>2, <5>1
        <5>2. CASE i # 1
          BY <1>1, <1>6, <4>1, <5>2
        <5> QED BY <5>1, <5>2
      <4>4. \E j \in 1 .. Len(t) : t[j].of = cnx[c].req
        BY <1>4, <4>3
      <4> QED BY <2>1, <2>2, <3>1, <3>3, <4>4 DEF Due, On
    <3>4. CASE cnx[c].req \in skipped
      BY <2>1, <3>1, <3>4 DEF Due
    <3> QED BY <3>2, <3>3, <3>4
  <2> QED BY <1>2, <2>1, <2>2, <2>3, FarServed
<1>7. CASE k # 1
  <2> DEFINE r == s[1].of
  <2>1. Receive(c, r) /\ skipped' = skipped \cup {s[i].of : i \in 3 .. k}
    BY <1>7 DEF ReadFirst, s
  <2>2. r \in Request /\ On(c, r)
    BY <1>1
  <2> HIDE DEF r
  <2>3. ASSUME NEW q \in Request \ {r}, On(c, q)
        PROVE  q \in skipped' \/ \E i \in 1 .. Len(t) : t[i].of = q
    <3>1. PICK i \in 1 .. Len(s) : s[i].of = q
      BY <2>3 DEF On, s
    <3>2. i # 1 /\ i # 2
      BY <1>5, <2>3, <3>1 DEF r
    <3>3. CASE k < i
      BY <1>4, <3>1, <3>3
    <3>4. CASE ~(k < i)
      <4>1. i \in 3 .. k
        BY <1>1, <3>1, <3>2, <3>4
      <4> QED BY <2>1, <3>1, <4>1
    <3> QED BY <3>3, <3>4
  <2>4. skipped \subseteq skipped'
    BY <2>1
  <2> QED BY <1>2, <1>3, <2>1, <2>2, <2>3, <2>4, ReceiveServed
<1> QED BY <1>6, <1>7

LEMMA ReadRestServed ==
  ASSUME IInv, WaitInv, NEW c \in Conn, ReadRest(c)
  PROVE  WaitInv'
<1> DEFINE s == stream[c]
           r == s[1].of
<1>1. s \in Seq(Part) /\ s # <<>> /\ Len(s) \in Nat
  BY PartFacts DEF ReadRest
<1>2. 1 \in 1 .. Len(s) /\ Head(s) = s[1]
  BY <1>1
<1>3. r \in Request /\ On(c, r)
  BY <1>2, PartFacts
<1>4. /\ Receive(c, r) /\ UNCHANGED <<cnx, req, skipped>>
      /\ stream' = [stream EXCEPT ![c] = Tail(s)] \/ UNCHANGED stream
  BY <1>2 DEF ReadRest
<1>5. PICK t \in {Tail(s), s} : stream' = [stream EXCEPT ![c] = t]
  BY <1>4 DEF IInv, TypeOK
<1>6. t \in Seq(Part)
  BY <1>1
<1>7. ASSUME NEW q \in Request \ {r}, On(c, q)
      PROVE  \E i \in 1 .. Len(t) : t[i].of = q
  <2>1. PICK i \in 1 .. Len(s) : s[i].of = q
    BY <1>7 DEF On
  <2>2. CASE t = Tail(s)
    <3>1. i # 1
      BY <1>7, <2>1
    <3>2. Len(t) = Len(s) - 1 /\ \A j \in 1 .. Len(t) : t[j] = s[j + 1]
      BY <1>1, <2>2
    <3>3. i - 1 \in 1 .. Len(t) /\ (i - 1) + 1 = i
      BY <1>1, <2>1, <3>1, <3>2
    <3>4. t[i - 1] = s[i]
      BY <3>2, <3>3
    <3> QED BY <2>1, <3>3, <3>4
  <2>3. CASE t = s
    BY <2>1, <2>3
  <2> QED BY <2>2, <2>3
<1> HIDE DEF s, r
<1>8. ASSUME NEW q \in Request \ {r}, On(c, q)
      PROVE  q \in skipped' \/ \E i \in 1 .. Len(t) : t[i].of = q
  BY <1>7, <1>8
<1>9. Receive(c, r) /\ UNCHANGED <<cnx, req>> /\ skipped \subseteq skipped'
  BY <1>4
<1> QED BY <1>3, <1>5, <1>6, <1>8, <1>9, ReceiveServed

LEMMA CloseServed ==
  ASSUME IInv, WaitInv, NEW c \in Conn, Close(c), UNCHANGED <<req, handled>>
  PROVE  WaitInv'
<1> DEFINE u == [cnx[c] EXCEPT !.link = IF @ = "up" THEN "shut" ELSE @]
<1>1. /\ \A d \in Conn \ {c} : /\ cnx'[d] = cnx[d] /\ stream'[d] = stream[d]
                               /\ reply'[d] = reply[d] /\ peer'[d] = peer[d]
      /\ cnx'[c] = u /\ skipped \subseteq skipped'
  BY DEF Close, IInv, TypeOK
<1>2. cnx[c] \in Connection
  BY DEF IInv, TypeOK
<1>3. u = [cnx[c] EXCEPT !.link = "shut"] \/ (u = cnx[c] /\ ~Up(c))
  BY <1>2 DEF Connection, Up
<1> HIDE DEF u
<1>4. CASE cnx'[c] = [cnx[c] EXCEPT !.link = "shut"]
  BY <1>1, <1>4, FarServed
<1>5. CASE cnx'[c] = cnx[c] /\ ~Up(c)
  <2>1. ~Awaits(c)'
    BY <1>5 DEF Awaits, Up
  <2> QED BY <1>1, <1>5, <2>1, FarServed
<1> QED BY <1>1, <1>3, <1>4, <1>5

LEMMA ReadGarbageServed ==
  ASSUME IInv, WaitInv, NEW c \in Conn, NEW k \in DOMAIN stream[c], ReadGarbage(c, k)
  PROVE  WaitInv'
<1> DEFINE s == stream[c]
           t == SubSeq(s, k + 1, Len(s))
<1>1. UNCHANGED <<req, handled>>
  BY DEF ReadGarbage
<1>2. CASE Close(c)
  BY <1>1, <1>2, CloseServed
<1>3. CASE /\ peer' = [peer EXCEPT ![c] = "stuck"]
           /\ stream' = [stream EXCEPT ![c] = t]
           /\ skipped' = skipped \cup ({s[i].of : i \in 1 .. k} \ handled)
           /\ UNCHANGED <<cnx, reply>>
  <2>1. /\ s \in Seq(Part) /\ Len(s) \in Nat /\ k \in 1 .. Len(s)
        /\ Pairs(s, Up(c)) /\ Up(c) \in BOOLEAN
    BY PartFacts
  <2>2. /\ \A d \in Conn \ {c} : /\ cnx'[d] = cnx[d] /\ stream'[d] = stream[d]
                                 /\ reply'[d] = reply[d] /\ peer'[d] = peer[d]
        /\ peer'[c] = "stuck" /\ cnx'[c] = cnx[c] /\ stream'[c] = t
        /\ skipped \subseteq skipped' /\ reply'[c] = reply[c]
    BY <1>3 DEF IInv, TypeOK
  <2> HIDE DEF s
  <2>3. Len(t) = Len(s) - k /\ \A i \in 1 .. Len(t) : t[i] = s[i + k]
    BY <2>1, DropParts
  <2> HIDE DEF t
  <2>4. ASSUME Awaits(c)' PROVE Due(c)'
    <3> DEFINE r == cnx[c].req
    <3>1. r \in skipped \/ (On(c, r) /\ r \notin handled)
      BY <2>2, <2>4 DEF Awaits, Up, WaitInv, Served, Due
    <3>2. CASE On(c, r) /\ r \notin handled
      <4>1. PICK i \in 1 .. Len(s) : s[i].of = r
        BY <3>2 DEF On, s
      <4>2. CASE i \in 1 .. k
        <5>1. r \in skipped'
          BY <1>3, <3>2, <4>1, <4>2
        <5> QED BY <2>2, <5>1 DEF Due
      <4>3. CASE i \notin 1 .. k
        <5>1. i - k \in 1 .. Len(t) /\ (i - k) + k = i
          BY <2>1, <2>3, <4>1, <4>3
        <5>2. t[i - k].of = r
          BY <2>3, <4>1, <5>1
        <5> QED BY <1>1, <2>2, <3>2, <5>1, <5>2 DEF Due, On
      <4> QED BY <4>2, <4>3
    <3>3. CASE r \in skipped
      BY <2>2, <3>3 DEF Due
    <3> QED BY <3>1, <3>2, <3>3
  <2> QED BY <1>1, <2>2, <2>4, FarServed
<1> QED BY <1>2, <1>3 DEF ReadGarbage, Past

LEMMA PeerServed ==
  ASSUME IInv, WaitInv, NEW c \in Conn, PongSent(c) \/ ReadEnds(c)
  PROVE  WaitInv'
<1>1. /\ UNCHANGED <<cnx, stream, reply, req, handled, skipped>>
      /\ \A d \in Conn \ {c} : peer'[d] = peer[d]
  BY DEF PongSent, ReadEnds, seen, IInv, TypeOK
<1>2. Up(c) => peer'[c] = "first"
  BY DEF PongSent, ReadEnds, Up, IInv, TypeOK
<1>3. Awaits(c)' => Due(c)'
  <2>1. Awaits(c)' => Awaits(c)
    BY <1>1 DEF Awaits, Up
  <2>2. Awaits(c) => Due(c)
    BY DEF WaitInv, Served
  <2>3. Due(c) => Due(c)'
    BY <1>1 DEF Due, On
  <2> QED BY <2>1, <2>2, <2>3
<1> QED BY <1>1, <1>2, <1>3, FarServed

LEMMA AstrayServed ==
  ASSUME IInv, WaitInv, NEW c \in Conn, Astray(c)
  PROVE  WaitInv'
<1>1. cnx[c] \in Connection
  BY DEF IInv, TypeOK
<1>2. CASE ReadShort(c)
  <2> DEFINE s == [cnx[c] EXCEPT !.cut = TRUE]
  <2>1. s \in Connection /\ s.link = cnx[c].link /\ s.req = cnx[c].req
    BY <1>1 DEF Connection
  <2>2. cnx[c].op # "none" /\ \E k : Got(c, k, s)
    BY <1>2 DEF ReadShort, Reads
  <2> HIDE DEF s
  <2> QED BY <2>1, <2>2, GotServed
<1>3. ASSUME NEW k, ReadAstray(c, k) PROVE WaitInv'
  BY <1>1, <1>3, GotServed DEF ReadAstray, Reads
<1>4. CASE ReadCut(c)
  BY <1>4, CloseServed DEF ReadCut
<1> QED BY <1>2, <1>3, <1>4 DEF Astray

LEMMA FaultServed ==
  ASSUME IInv, WaitInv, ServerDies \/ ServerStarts \/ \E c \in Conn : LinkBreaks(c)
  PROVE  WaitInv'
<1>1. CASE ServerDies
  <2>1. req' = req
    BY <1>1 DEF ServerDies
  <2>2. ASSUME NEW d \in Conn
        PROVE  /\ cnx'[d].op = cnx[d].op /\ cnx'[d].req = cnx[d].req
               /\ cnx'[d].link = IF cnx[d].link = "up" THEN "shut" ELSE cnx[d].link
    <3>1. cnx'[d] = [cnx[d] EXCEPT !.link = IF @ = "up" THEN "shut" ELSE @]
      BY <1>1 DEF ServerDies
    <3>2. cnx[d] \in Connection
      BY DEF IInv, TypeOK
    <3> QED BY <3>1, <3>2 DEF Connection
  <2>3. Carried'
    BY <2>1, <2>2 DEF WaitInv, Carried
  <2>4. ASSUME NEW d \in Conn PROVE Served(d)'
    <3>1. Served(d) /\ ~Up(d)' /\ ~Awaits(d)'
      BY <2>2 DEF WaitInv, Up, Awaits
    <3>2. cnx'[d].link = "none" => cnx[d].link = "none"
      BY <2>2
    <3> QED BY <2>2, <3>1, <3>2 DEF Served
  <2> QED BY <2>3, <2>4 DEF WaitInv
<1>2. CASE ServerStarts
  <2>1. UNCHANGED <<cnx, stream, reply, peer, req, handled, skipped>>
    BY <1>2 DEF ServerStarts, seen
  <2>2. Carried'
    BY <2>1 DEF WaitInv, Carried
  <2>3. \A d \in Conn : Served(d)'
    BY <2>1, SameServed DEF WaitInv
  <2> QED BY <2>2, <2>3 DEF WaitInv
<1>3. ASSUME NEW c \in Conn, LinkBreaks(c) PROVE WaitInv'
  <2>1. UNCHANGED <<req, handled, skipped, peer>>
    BY <1>3 DEF LinkBreaks, seen
  <2>2. cnx'[c] = [cnx[c] EXCEPT !.link = "shut"] /\ \A d \in Conn \ {c} : cnx'[d] = cnx[d]
    BY <1>3 DEF LinkBreaks, IInv, TypeOK
  <2>3. \A d \in Conn \ {c} : stream'[d] = stream[d] /\ reply'[d] = reply[d]
    BY <1>3 DEF LinkBreaks, IInv, TypeOK
  <2> QED BY <2>1, <2>2, <2>3, FarServed
<1> QED BY <1>1, <1>2, <1>3

LEMMA NextServed ==
  ASSUME IInv, WaitInv, [Next]_vars
  PROVE  WaitInv'
<1>1. ASSUME NEW r \in Request, Submit(r) PROVE WaitInv'
  BY <1>1, ReuseServed, ConnectServed DEF Submit
<1>2. ASSUME NEW c \in Conn, Server(c) PROVE WaitInv'
  BY <1>2, ReadFirstServed, ReadGarbageServed, ReadRestServed, PeerServed DEF Server
<1>3. ASSUME NEW c \in Conn, Client(c) PROVE WaitInv'
  BY <1>3, ConnectSucceedsServed, ClientServed
<1>4. ASSUME NEW c \in Conn, Astray(c) PROVE WaitInv'
  BY <1>4, AstrayServed
<1>5. CASE UNCHANGED vars
  <2>1. UNCHANGED <<cnx, stream, reply, peer, req, handled, skipped>>
    BY <1>5 DEF vars, wire, seen
  <2>2. Carried'
    BY <2>1 DEF WaitInv, Carried
  <2>3. \A d \in Conn : Served(d)'
    BY <2>1, SameServed DEF WaitInv
  <2> QED BY <2>2, <2>3 DEF WaitInv
<1> QED BY <1>1, <1>2, <1>3, <1>5, <1>4, FaultServed DEF Next

\* A step of c itself, of its Connection or of the reactor can be taken: a
\* completion is queued, or there is something to read, or a closed socket.
MayGoOn(c) ==
  \/ cnx[c].keep \in {"failed", "aborted", "taken"}
  \/ /\ Runs(c)
     /\ \/ cnx[c].op \in {"connect", "write", "unwritten"}
        \/ cnx[c].op \in {"read", "rest"} /\ (reply[c] # <<>> \/ cnx[c].link = "shut")
  \/ peer[c] = "writing"
  \/ peer[c] \in {"first", "rest", "stuck"} /\ stream[c] # <<>>

NobodyForgotten ==
  \A r \in Request : req[r] = "pending" =>
    \/ r \in skipped
    \/ \E c \in Conn : /\ cnx[c].req = r
                       /\ MayGoOn(c) \/ (cnx[c].op = "rest" /\ cnx[c].cut)

\* No callback of MessageBus::send or sendAndReceive is lost: while a request is
\* pending, it has a connection on which something is still to happen, unless the
\* server dropped it (Connection::handleReceive), or it waits for as many bytes as
\* what a short read left behind says (ClientConnection::handleReceive).  This is
\* what is safety in CalledBack.
THEOREM CallbackAhead == Spec => []NobodyForgotten
<1>1. Init => WaitInv
  <2> SUFFICES ASSUME Init PROVE WaitInv
    OBVIOUS
  <2>1. /\ \A c \in Conn : cnx[c] = Absent
        /\ \A r \in Request : req[r] = "idle"
    BY DEF Init
  <2>2. Carried
    BY <2>1 DEF Carried
  <2>3. \A c \in Conn : Served(c)
    BY <2>1, AbsentFacts DEF Served, Awaits, Up
  <2> QED BY <2>2, <2>3 DEF WaitInv
<1>2. IInv /\ WaitInv => NobodyForgotten
  <2> SUFFICES ASSUME IInv, WaitInv, NEW r \in Request, req[r] = "pending", r \notin skipped
               PROVE  \E c \in Conn : /\ cnx[c].req = r
                                      /\ MayGoOn(c) \/ (cnx[c].op = "rest" /\ cnx[c].cut)
    BY DEF NobodyForgotten
  <2>1. PICK c \in Conn : cnx[c].req = r
    BY DEF WaitInv, Carried
  <2>2. /\ Served(c) /\ cnx[c] \in Connection /\ cnx[c].op # "none"
        /\ peer[c] \in {"none", "first", "rest", "stuck", "writing"}
    BY <2>1, RequestFacts DEF WaitInv, IInv, TypeOK, PoolInv
  <2> SUFFICES ASSUME ~(cnx[c].op = "rest" /\ cnx[c].cut) PROVE MayGoOn(c)
    BY <2>1
  <2>3. cnx[c].keep \in {"none", "failed", "aborted", "taken"}
    BY <2>2 DEF IInv, UseInv, Connection
  <2>4. CASE cnx[c].keep # "none" \/ cnx[c].op \in {"connect", "write", "unwritten"}
    BY <2>3, <2>4 DEF MayGoOn, Runs
  <2>5. CASE cnx[c].keep = "none" /\ cnx[c].op \in {"read", "rest"}
    <3>1. CASE reply[c] # <<>> \/ cnx[c].link = "shut"
      BY <2>5, <3>1 DEF MayGoOn, Runs
    <3>2. CASE reply[c] = <<>> /\ cnx[c].link # "shut"
      <4>1. Up(c) /\ cnx[c].req \in Call
        BY <2>2, <2>5, <3>2 DEF Served, Up, Connection, IInv, UseInv
      <4>2. cnx[c].op = "read"
        <5> SUFFICES ASSUME cnx[c].op = "rest" PROVE FALSE
          BY <2>5
        <5>1. Clean(c)
          BY <2>2, AbsentFacts DEF IInv, PoolInv, CleanInv
        <5> QED BY <3>2, <4>1, <5>1 DEF Clean, Owed
      <4>3. peer[c] # "none" /\ On(c, r)
        BY <2>1, <2>2, <3>2, <4>1, <4>2 DEF Served, Awaits, Due
      <4>4. stream[c] # <<>>
        BY <4>3, PartFacts DEF On
      <4> QED BY <2>2, <4>3, <4>4 DEF MayGoOn
    <3> QED BY <3>1, <3>2
  <2> QED BY <2>2, <2>3, <2>4, <2>5 DEF Connection
<1> QED BY <1>1, <1>2, NextServed, Invariance, PTL DEF Spec
=============================================================================
