--------------------------- MODULE FramingProofs ---------------------------
(***************************************************************************)
(* Framing, for messages and a buffer of any sizes.  As long as no first   *)
(* read was short or took more than one message, the reader stands at the  *)
(* boundary after the messages handled, or that many bytes before the next *)
(* one as it waits for: this is what makes the invariant inductive.        *)
(***************************************************************************)
EXTENDS Framing, TLAPS

\* The entry of the i-th message, handled whole and in order
Whole(i) == [of |-> i, whole |-> TRUE]

InStep ==
  ~mixed =>
    /\ reader.state # "closed"
    /\ Len(handled) <= Len(End)
    /\ \A i \in DOMAIN handled : handled[i] = Whole(i)
    /\ reader.state = "first" => taken = Begin(Len(handled) + 1)
    /\ reader.state = "rest" =>
         reader.of = Len(handled) + 1 /\ taken + reader.left = End[reader.of]

IInv == TypeOK /\ InStep

\* Where messages begin and end.
LEMMA EndFacts ==
  /\ Len(End) \in Nat /\ Message = 1 .. Len(End)
  /\ \A k \in Message : /\ End[k] \in Nat /\ Begin(k) \in Nat /\ Size(k) \in Nat
                        /\ End[k] = Begin(k) + Size(k) /\ Size(k) > Header
                        /\ Begin(k + 1) = End[k]
  /\ Begin(1) = 0 /\ Begin(Len(End) + 1) \in Nat
<1>1. Len(End) \in Nat /\ Message = 1 .. Len(End) /\ \A k \in Message : End[k] \in Nat
  BY FramingAssumption DEF Message
<1>2. \A k \in Message : Size(k) > Header
  BY FramingAssumption
<1>3. ASSUME NEW k \in Message
      PROVE  /\ Begin(k) \in Nat /\ Size(k) \in Nat
             /\ End[k] = Begin(k) + Size(k) /\ Begin(k + 1) = End[k]
  <2>1. Begin(k) \in Nat /\ End[k] \in Nat /\ Header \in Nat
    BY <1>1, FramingAssumption DEF Begin
  <2>2. Begin(k + 1) = End[k]
    BY <1>1 DEF Begin
  <2>3. Size(k) = End[k] - Begin(k) /\ Size(k) > Header
    BY <1>2 DEF Size
  <2>4. Size(k) \in Nat /\ End[k] = Begin(k) + Size(k)
    BY <2>1, <2>3
  <2> QED BY <2>1, <2>2, <2>4
<1>4. Begin(Len(End) + 1) \in Nat
  BY <1>1 DEF Begin
<1> QED BY <1>1, <1>2, <1>3, <1>4 DEF Begin

\* No two messages begin at the same byte.
LEMMA BeginIsUnique ==
  ASSUME NEW j \in 1 .. Len(End) + 1, NEW k \in 1 .. Len(End) + 1, j < k
  PROVE  Begin(j) < Begin(k)
<1>1. k - 1 \in Message /\ Begin(k) = End[k - 1]
  BY EndFacts DEF Begin
<1>2. CASE j = 1
  <2>1. Begin(j) = 0
    BY <1>2 DEF Begin
  <2>2. /\ End[k - 1] = Begin(k - 1) + Size(k - 1) /\ Size(k - 1) > Header
        /\ Begin(k - 1) \in Nat /\ Size(k - 1) \in Nat
    BY <1>1, EndFacts
  <2>3. Header \in Nat
    BY FramingAssumption
  <2> HIDE DEF Begin, Size
  <2> QED BY <1>1, <2>1, <2>2, <2>3
<1>3. CASE j # 1
  <2>1. j - 1 \in 1 .. (k - 1) - 1 /\ Begin(j) = End[j - 1]
    BY <1>3, EndFacts DEF Begin
  <2> QED BY <1>1, <2>1, FramingAssumption
<1> QED BY <1>2, <1>3

\* A message that begins earlier is an earlier one.
LEMMA BeginIsOrdered ==
  ASSUME NEW j \in 1 .. Len(End) + 1, NEW k \in 1 .. Len(End) + 1,
         Begin(j) \in Nat, Begin(k) \in Nat, Begin(j) < Begin(k)
  PROVE  j < k
<1>1. j \in Nat /\ k \in Nat
  BY EndFacts
<1>2. CASE j = k
  BY <1>2
<1>3. CASE k < j
  <2>1. Begin(k) < Begin(j)
    BY <1>3, BeginIsUnique
  <2> QED BY <2>1
<1> QED BY <1>1, <1>2, <1>3

LEMMA SentFacts ==
  ASSUME written \in 0 .. Len(End)
  PROVE  Sent \in Nat /\ Sent = Begin(written + 1)
BY EndFacts DEF Sent, Begin

\* A size that is read in part is no larger than it is.
LEMMA SizeReadFacts ==
  ASSUME NEW k \in Message, NEW n \in Nat \ {0}, Partial(Size(k), n)
  PROVE  /\ Missing(Size(k), n) \in Nat
         /\ Missing(Size(k), n) < Size(k)
         /\ n >= Header => Missing(Size(k), n) = Size(k) - n
<1>1. Size(k) \in Nat
  BY EndFacts
<1>2. CASE n >= Header
  BY <1>1, <1>2 DEF Partial, Missing, SizeRead
<1>3. CASE ~(n >= Header)
  <2>1. Unit[n] \in Nat \ {0}
    BY <1>3, FramingAssumption
  <2>2. Size(k) % Unit[n] \in Nat
    BY <1>1, <2>1
  <2> HIDE DEF Size
  <2> QED BY <1>1, <1>3, <2>2 DEF Partial, Missing, SizeRead
<1> QED BY <1>2, <1>3

\* One more message handled in order.
LEMMA AppendInOrder ==
  ASSUME NEW T, NEW s \in Seq(T), \A i \in DOMAIN s : s[i] = Whole(i),
         Whole(Len(s) + 1) \in T
  PROVE  LET t == Append(s, Whole(Len(s) + 1))
         IN  /\ Len(t) = Len(s) + 1 /\ Len(s) \in Nat
             /\ \A i \in DOMAIN t : t[i] = Whole(i)
OBVIOUS

-----------------------------------------------------------------------------
LEMMA InitInv == Init => IInv
<1> SUFFICES ASSUME Init PROVE IInv
  OBVIOUS
<1>1. TypeOK
  <2>1. <<>> \in Seq([of : Message, whole : BOOLEAN])
    OBVIOUS
  <2>2. Sent = 0 /\ written \in 0 .. Len(End)
    BY EndFacts DEF Init, Sent
  <2>3. /\ reader \in [state : {"first", "rest", "closed"},
                       of : Message \cup {0}, left : Nat]
        /\ reader.state # "rest"
    BY DEF Init, Reading
  <2>4. mixed \in BOOLEAN /\ taken = 0 /\ handled = <<>>
    BY DEF Init
  <2> QED BY <2>1, <2>2, <2>3, <2>4 DEF TypeOK
<1>2. InStep
  BY EndFacts DEF Init, InStep, Reading
<1> QED BY <1>1, <1>2 DEF IInv

LEMMA WriteInv ==
  ASSUME IInv, Write
  PROVE  IInv'
<1> USE DEF IInv
<1>1. written' \in 0 .. Len(End) /\ written' = written + 1 /\ written \in 0 .. Len(End)
  BY EndFacts DEF Write, TypeOK
<1>2. Sent <= Sent' /\ Sent \in Nat /\ Sent' \in Nat
  <2>1. Sent = Begin(written + 1) /\ Sent \in Nat
    BY <1>1, SentFacts
  <2>2. Sent' = Begin(written' + 1) /\ Sent' \in Nat
    BY <1>1, EndFacts DEF Sent, Begin
  <2>3. Begin(written + 1) < Begin(written' + 1)
    <3>1. /\ written + 1 \in 1 .. Len(End) + 1 /\ written' + 1 \in 1 .. Len(End) + 1
          /\ written + 1 < written' + 1
      <4>1. Len(End) \in Nat
        BY EndFacts
      <4> QED BY <1>1, <4>1
    <3> QED BY <3>1, BeginIsUnique
  <2> QED BY <2>1, <2>2, <2>3
<1>3. TypeOK'
  BY <1>1, <1>2 DEF Write, TypeOK
<1>4. InStep'
  BY DEF Write, InStep
<1> QED BY <1>3, <1>4

\* The second part: what was missing is there.
LEMMA ReadRestInv ==
  ASSUME IInv, ReadRest
  PROVE  IInv'
<1> USE DEF IInv
<1> DEFINE entry == [of    |-> reader.of,
                     whole |-> taken + reader.left >= End[reader.of]]
<1>1. /\ reader.state = "rest" /\ reader.of \in Message /\ reader.left \in Nat
      /\ taken \in 0 .. Sent /\ Sent \in Nat
      /\ handled \in Seq([of : Message, whole : BOOLEAN])
  BY SentFacts DEF ReadRest, TypeOK
<1>2. taken' = taken + reader.left /\ taken' \in 0 .. Sent /\ Sent' = Sent
  BY <1>1 DEF ReadRest, Available, Sent
<1>3. entry \in [of : Message, whole : BOOLEAN]
  BY <1>1
<1>4. /\ handled' = Append(handled, entry)
      /\ reader' = Reading("first", 0, 0) /\ UNCHANGED <<written, mixed>>
  BY DEF ReadRest
<1>5. TypeOK'
  <2>1. handled' \in Seq([of : Message, whole : BOOLEAN])
    BY <1>1, <1>3, <1>4
  <2> QED BY <1>2, <1>4, <2>1 DEF TypeOK, Reading
<1>6. InStep'
  <2> SUFFICES ASSUME ~mixed PROVE InStep'
    BY <1>4 DEF InStep
  <2>1. /\ reader.of = Len(handled) + 1 /\ taken + reader.left = End[reader.of]
        /\ \A i \in DOMAIN handled : handled[i] = Whole(i)
    BY <1>1 DEF InStep
  <2>2. entry = Whole(Len(handled) + 1)
    <3>1. (taken + reader.left >= End[reader.of]) = TRUE
      BY <1>1, <2>1, EndFacts
    <3> QED BY <2>1, <3>1, Zenon DEF Whole
  <2>3. /\ Len(handled') = Len(handled) + 1 /\ Len(handled) \in Nat
        /\ \A i \in DOMAIN handled' : handled'[i] = Whole(i)
    <3>1. handled' = Append(handled, Whole(Len(handled) + 1))
      BY <1>4, <2>2
    <3> HIDE DEF entry
    <3> QED BY <1>1, <1>3, <2>1, <2>2, <3>1, AppendInOrder
  <2>4. taken' = Begin(Len(handled') + 1) /\ Len(handled') <= Len(End)
    <3>1. /\ End[reader.of] = Begin(reader.of + 1) /\ reader.of \in 1 .. Len(End)
          /\ Len(End) \in Nat
      BY <1>1, EndFacts
    <3> QED BY <1>1, <1>2, <2>1, <2>3, <3>1
  <2> QED BY <1>4, <2>3, <2>4 DEF InStep, Reading
<1> QED BY <1>5, <1>6

\* The first part.  In step, the message it begins is the next one.
LEMMA ReadFirstInv ==
  ASSUME IInv, NEW n \in 1 .. Buffer, ReadFirst(n)
  PROVE  IInv'
<1> USE DEF IInv
<1>1. /\ reader.state = "first" /\ taken \in 0 .. Sent /\ Sent \in Nat
      /\ handled \in Seq([of : Message, whole : BOOLEAN]) /\ mixed \in BOOLEAN
      /\ n \in Nat \ {0} /\ written \in 0 .. Len(End)
  BY SentFacts, FramingAssumption DEF ReadFirst, TypeOK
<1>2. taken' = taken + n /\ taken' \in 0 .. Sent /\ Sent' = Sent /\ written' = written
  BY <1>1 DEF ReadFirst, Available, Sent
<1>3. ASSUME ~mixed
      PROVE  /\ Len(handled) + 1 \in Message /\ taken = Begin(Len(handled) + 1)
             /\ \A k \in Message : taken = Begin(k) => k = Len(handled) + 1
             /\ \A i \in DOMAIN handled : handled[i] = Whole(i)
  <2>1. /\ taken = Begin(Len(handled) + 1) /\ Len(handled) <= Len(End)
        /\ Len(handled) \in Nat
        /\ \A i \in DOMAIN handled : handled[i] = Whole(i)
    BY <1>1, <1>3 DEF InStep
  <2>2. Len(handled) # Len(End)
    <3> SUFFICES ASSUME Len(handled) = Len(End) PROVE FALSE
      OBVIOUS
    <3>1. taken < Sent
      BY <1>1, <1>2
    <3>2. Sent = Begin(written + 1)
      BY <1>1, SentFacts
    <3>3. taken = Begin(Len(End) + 1)
      BY <2>1
    <3>4. CASE written = Len(End)
      BY <1>1, <3>1, <3>2, <3>3, <3>4
    <3>5. CASE written < Len(End)
      <4>1. /\ written + 1 \in 1 .. Len(End) + 1
            /\ Len(End) + 1 \in 1 .. Len(End) + 1
            /\ written + 1 < Len(End) + 1
        <5>1. Len(End) \in Nat
          BY EndFacts
        <5> QED BY <1>1, <3>5, <5>1
      <4>2. Begin(written + 1) < Begin(Len(End) + 1)
        BY <4>1, BeginIsUnique
      <4> QED BY <1>1, <3>1, <3>2, <3>3, <4>2
    <3> QED BY <1>1, <3>4, <3>5, EndFacts
  <2>3. Len(handled) + 1 \in Message
    BY <2>1, <2>2, EndFacts
  <2>4. ASSUME NEW k \in Message, taken = Begin(k) PROVE k = Len(handled) + 1
    <3>1. /\ k \in 1 .. Len(End) + 1 /\ Len(handled) + 1 \in 1 .. Len(End) + 1
          /\ Begin(k) \in Nat
      BY <2>3, EndFacts
    <3> DEFINE m == Len(handled) + 1
    <3>2. m \in 1 .. Len(End) + 1 /\ Begin(m) = Begin(k)
      BY <2>1, <2>4, <3>1
    <3> HIDE DEF m
    <3>3. k < m => Begin(k) < Begin(m)
      BY <3>1, <3>2, BeginIsUnique
    <3>4. m < k => Begin(m) < Begin(k)
      BY <3>1, <3>2, BeginIsUnique
    <3>5. k \in Nat /\ m \in Nat
      BY <3>1, <3>2, EndFacts
    <3>6. k = m
      BY <3>1, <3>2, <3>3, <3>4, <3>5
    <3> QED BY <3>6 DEF m
  <2> QED BY <2>1, <2>3, <2>4
<1>4. CASE \E k \in Message :
             /\ taken = Begin(k)
             /\ mixed' = (mixed \/ n < Header \/ n > Size(k))
             /\ Partial(Size(k), n)
             /\ reader' = Reading("rest", k, Missing(Size(k), n))
             /\ UNCHANGED handled
  <2>1. PICK k \in Message :
             /\ taken = Begin(k)
             /\ mixed' = (mixed \/ n < Header \/ n > Size(k))
             /\ Partial(Size(k), n)
             /\ reader' = Reading("rest", k, Missing(Size(k), n))
             /\ UNCHANGED handled
    BY <1>4
  <2>2. /\ Missing(Size(k), n) \in Nat /\ Missing(Size(k), n) < Size(k)
        /\ n >= Header => Missing(Size(k), n) = Size(k) - n
    BY <1>1, <2>1, SizeReadFacts
  <2>3. TypeOK'
    <3>1. k # 0 /\ mixed' \in BOOLEAN
      BY <1>1, <2>1, EndFacts
    <3>2. /\ reader' \in [state : {"first", "rest", "closed"},
                          of : Message \cup {0}, left : Nat]
          /\ reader'.of = k /\ reader'.left = Missing(Size(k), n)
      BY <2>1, <2>2 DEF Reading
    <3> QED BY <1>1, <1>2, <2>1, <2>2, <3>1, <3>2 DEF TypeOK
  <2>4. InStep'
    <3> SUFFICES ASSUME ~mixed' PROVE InStep'
      BY DEF InStep
    <3>0. ~mixed /\ ~(n < Header)
      BY <2>1, Zenon
    <3>1. n >= Header /\ k = Len(handled) + 1
      BY <1>1, <1>3, <2>1, <3>0, FramingAssumption
    <3>2. End[k] = Begin(k) + Size(k) /\ Begin(k) \in Nat /\ Size(k) \in Nat
      BY EndFacts
    <3>3. taken' + (Size(k) - n) = End[k]
      BY <1>1, <1>2, <2>1, <3>2
    <3>4. Len(handled) <= Len(End)
      BY <1>1, <3>1, EndFacts
    <3> QED BY <1>3, <2>1, <2>2, <3>0, <3>1, <3>3, <3>4 DEF InStep, Reading
  <2> QED BY <2>3, <2>4
<1>5. CASE \E k \in Message :
             /\ taken = Begin(k)
             /\ mixed' = (mixed \/ n < Header \/ n > Size(k))
             /\ ~Partial(Size(k), n)
             /\ n < Header
             /\ reader' = Reading("closed", 0, 0) /\ UNCHANGED handled
  <2>1. mixed' = TRUE
    BY <1>5
  <2>2. TypeOK'
    BY <1>1, <1>2, <1>5, <2>1 DEF TypeOK, Reading
  <2> QED BY <2>1, <2>2 DEF InStep
<1>6. CASE \E k \in Message :
             /\ taken = Begin(k)
             /\ mixed' = (mixed \/ n < Header \/ n > Size(k))
             /\ ~Partial(Size(k), n)
             /\ ~(n < Header)
             /\ handled' = Append(handled, [of |-> k, whole |-> n >= Size(k)])
             /\ UNCHANGED reader
  <2>1. PICK k \in Message :
             /\ taken = Begin(k)
             /\ mixed' = (mixed \/ n < Header \/ n > Size(k))
             /\ ~Partial(Size(k), n)
             /\ ~(n < Header)
             /\ handled' = Append(handled, [of |-> k, whole |-> n >= Size(k)])
             /\ UNCHANGED reader
    BY <1>6
  <2> DEFINE entry == [of |-> k, whole |-> n >= Size(k)]
  <2>2. /\ Size(k) \in Nat /\ Begin(k) \in Nat /\ End[k] = Begin(k) + Size(k)
        /\ Begin(k + 1) = End[k] /\ k \in 1 .. Len(End) /\ Len(End) \in Nat
    BY EndFacts
  <2>3. entry \in [of : Message, whole : BOOLEAN]
    OBVIOUS
  <2>4. n >= Size(k)
    BY <1>1, <2>1, <2>2, FramingAssumption DEF Partial, SizeRead
  <2>5. handled' \in Seq([of : Message, whole : BOOLEAN]) /\ handled' = Append(handled, entry)
    BY <1>1, <2>1, <2>3
  <2>6. TypeOK'
    <3>1. mixed' \in BOOLEAN
      BY <1>1, <2>1
    <3> QED BY <1>1, <1>2, <2>1, <2>5, <3>1 DEF TypeOK
  <2>7. InStep'
    <3> SUFFICES ASSUME ~mixed' PROVE InStep'
      BY DEF InStep
    <3>0. ~mixed /\ ~(n > Size(k))
      BY <2>1, Zenon
    <3>1. n = Size(k) /\ k = Len(handled) + 1
      BY <1>1, <1>3, <2>1, <2>2, <2>4, <3>0
    <3>2. entry = Whole(Len(handled) + 1)
      <4>1. (n >= Size(k)) = TRUE
        BY <2>4
      <4> QED BY <3>1, <4>1, Zenon DEF Whole
    <3>5. handled' = Append(handled, Whole(Len(handled) + 1))
      BY <2>5, <3>2
    <3> HIDE DEF entry
    <3>3. /\ Len(handled') = Len(handled) + 1 /\ Len(handled) \in Nat
          /\ \A i \in DOMAIN handled' : handled'[i] = Whole(i)
      BY <1>1, <1>3, <2>3, <3>0, <3>2, <3>5, AppendInOrder
    <3>4. taken' = Begin(Len(handled') + 1) /\ Len(handled') <= Len(End)
      BY <1>1, <1>2, <2>1, <2>2, <3>1, <3>3
    <3> QED BY <1>1, <2>1, <3>3, <3>4 DEF InStep
  <2> QED BY <2>6, <2>7
<1>7. CASE /\ \A k \in Message : taken # Begin(k)
           /\ reader' = Reading("closed", 0, 0)
           /\ UNCHANGED <<handled, mixed>>
  <2>1. mixed' /\ mixed
    BY <1>1, <1>3, <1>7
  <2>2. TypeOK'
    BY <1>1, <1>2, <1>7 DEF TypeOK, Reading
  <2> QED BY <2>1, <2>2 DEF InStep
<1> QED BY <1>4, <1>5, <1>6, <1>7 DEF ReadFirst

LEMMA NextInv == IInv /\ [Next]_vars => IInv'
<1> SUFFICES ASSUME IInv, [Next]_vars PROVE IInv'
  OBVIOUS
<1>1. CASE UNCHANGED vars
  BY <1>1 DEF vars, IInv, TypeOK, InStep, Sent
<1> QED BY <1>1, WriteInv, ReadRestInv, ReadFirstInv DEF Next, Read

THEOREM Invariance == Spec => []IInv
<1>1. Init => IInv
  BY InitInv
<1>2. IInv /\ [Next]_vars => IInv'
  BY NextInv
<1> QED BY <1>1, <1>2, PTL DEF Spec

\* No read takes more than was sent, and a read that waits for the second part
\* waits for less than the message (readMessageSize, SharedBuffer).
THEOREM TypeCorrect == Spec => []TypeOK
<1>1. IInv => TypeOK
  BY DEF IInv
<1> QED BY <1>1, Invariance, PTL

\* Messages of any sizes are handled whole and in order, as long as no first read
\* was shorter than a size or took more than a message.
THEOREM WholeInOrder == Spec => []NothingLost
<1>1. IInv => NothingLost
  BY DEF IInv, InStep, NothingLost, Whole
<1> QED BY <1>1, Invariance, PTL

-----------------------------------------------------------------------------
(* Nothing stands still                                                    *)

\* The reader waits for nothing that has not been written: either it may read,
\* or all that was written is handled.
NeverStuck ==
  ~mixed =>
    \/ reader.state = "first" /\ (taken = Sent => Len(handled) = written)
    \/ reader.state = "rest" /\ reader.left <= Available

\* The second part of a message has always been written with the first, and as
\* long as no first read was short or took more than a message, the last byte
\* that is read belongs to the last message that is handled: what Delivered needs
\* besides that what has arrived is read.
THEOREM NothingWaits == Spec => []NeverStuck
<1>1. ASSUME IInv, ~mixed
      PROVE  \/ reader.state = "first" /\ (taken = Sent => Len(handled) = written)
             \/ reader.state = "rest" /\ reader.left <= Available
  <2> DEFINE n == Len(handled)
  <2>1. /\ n \in Nat /\ n <= Len(End) /\ Len(End) \in Nat
        /\ written \in 0 .. Len(End) /\ taken \in Nat /\ taken <= Sent
        /\ Sent \in Nat /\ Sent = Begin(written + 1)
    BY <1>1, EndFacts, SentFacts DEF IInv, TypeOK, InStep
  <2>2. n + 1 \in 1 .. Len(End) + 1 /\ written + 1 \in 1 .. Len(End) + 1
    BY <2>1
  <2>3. CASE reader.state = "first"
    <3>1. taken = Begin(n + 1)
      BY <1>1, <2>3 DEF IInv, InStep
    <3>2. ASSUME taken = Sent
          PROVE  n = written
      <4>1. Begin(n + 1) = Begin(written + 1) /\ Begin(n + 1) \in Nat
        BY <2>1, <3>1, <3>2
      <4>2. n + 1 < written + 1 => Begin(n + 1) < Begin(written + 1)
        BY <2>2, BeginIsUnique
      <4>3. written + 1 < n + 1 => Begin(written + 1) < Begin(n + 1)
        BY <2>2, BeginIsUnique
      <4>4. n \in Nat /\ written \in Nat
        BY <2>1
      <4> HIDE DEF n
      <4>5. ~(n + 1 < written + 1) /\ ~(written + 1 < n + 1)
        BY <4>1, <4>2, <4>3
      <4> QED BY <4>4, <4>5
    <3> QED BY <2>3, <3>2
  <2>4. CASE reader.state = "rest"
    <3> DEFINE k == reader.of
               w == written + 1
    <3>1. /\ k \in Message /\ taken + reader.left = End[k]
          /\ reader.left \in Nat /\ reader.left < Size(k)
      BY <1>1, <2>4 DEF IInv, TypeOK, InStep
    <3>2. /\ End[k] = Begin(k) + Size(k) /\ Begin(k) \in Nat /\ Size(k) \in Nat
          /\ End[k] = Begin(k + 1) /\ k \in 1 .. Len(End) /\ Len(End) \in Nat
      BY <3>1, EndFacts
    <3>3. w \in 1 .. Len(End) + 1 /\ Sent = Begin(w) /\ Begin(w) \in Nat
      BY <2>1, <2>2
    <3> HIDE DEF k, w
    <3>4. k \in 1 .. Len(End) + 1 /\ k + 1 \in 1 .. Len(End) + 1
      BY <3>2
    <3>5. taken \in Nat /\ taken <= Sent /\ Sent \in Nat
      BY <2>1
    <3>6. Begin(k) < Begin(w)
      <4> DEFINE b == Begin(k)
                 z == Size(k)
      <4>1. /\ taken + reader.left = b + z /\ reader.left < z
            /\ b \in Nat /\ z \in Nat /\ reader.left \in Nat
        BY <3>1, <3>2
      <4> HIDE DEF b, z
      <4>2. b < taken
        BY <3>5, <4>1
      <4>3. b < Begin(w)
        BY <3>3, <3>5, <4>1, <4>2
      <4> QED BY <4>3 DEF b
    <3>7. k < w
      BY <3>2, <3>3, <3>4, <3>6, BeginIsOrdered
    <3>8. k + 1 = w \/ k + 1 < w
      BY <3>3, <3>4, <3>7
    <3>9. k + 1 < w => Begin(k + 1) < Begin(w)
      BY <3>3, <3>4, BeginIsUnique
    <3>10. End[k] <= Sent
      <4>1. CASE k + 1 = w
        BY <3>2, <3>3, <4>1
      <4>2. CASE k + 1 < w
        BY <3>2, <3>3, <3>9, <4>2
      <4> QED BY <3>8, <4>1, <4>2
    <3>11. reader.left <= Sent - taken
      BY <2>1, <3>1, <3>10
    <3> QED BY <2>4, <3>11 DEF Available
  <2> QED BY <1>1, <2>3, <2>4 DEF IInv, TypeOK, InStep
<1>2. IInv => NeverStuck
  BY <1>1 DEF NeverStuck
<1> QED BY <1>2, Invariance, PTL
=============================================================================
