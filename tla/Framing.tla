------------------------------ MODULE Framing ------------------------------
(***************************************************************************)
(* How a Connection reads the messages of its client (handleReceive of     *)
(* connection.cpp) after the size that writeMessageWithSize puts before    *)
(* each (asio.hpp).  A ClientConnection finds the size of a Pong in the    *)
(* same way, but goes on after a cut read: that is in MessageBus.          *)
(***************************************************************************)
EXTENDS Integers, Sequences

CONSTANTS
  End,     \* End[k]: bytes of the first k messages, the sizes before them included
  Header,  \* sizeof(uint32_t)
  Unit,    \* Unit[n]: what the n-th byte of a size counts in; the last one is 1
  Buffer   \* SharedBuffer(): 1024

Message == DOMAIN End

Begin(k) == IF k = 1 THEN 0 ELSE End[k - 1]

Size(k) == End[k] - Begin(k)

ASSUME FramingAssumption ==
  /\ End \in Seq(Nat)
  /\ Header \in Nat \ {0} /\ Buffer \in Nat /\ Buffer >= Header
  /\ Unit \in [1 .. Header -> Nat \ {0}]
  /\ \A k \in Message : Size(k) > Header /\ \A j \in 1 .. k - 1 : End[j] < End[k]

VARIABLES
  written,  \* messages written
  taken,    \* bytes read
  reader,   \* "first", "rest" or "closed"; the message read and the bytes missing
  handled,  \* history: messages parsed, in order, and if they were complete
  mixed     \* history: a first read took less than a size or more than a message

vars == <<written, taken, reader, handled, mixed>>

\* Bytes that have arrived: all that were written and not read
Sent == IF written = 0 THEN 0 ELSE End[written]

Available == Sent - taken

Reading(state, k, left) == [state |-> state, of |-> k, left |-> left]

TypeOK ==
  /\ written \in 0 .. Len(End)
  /\ taken \in 0 .. Sent
  /\ reader \in [state : {"first", "rest", "closed"},
                 of    : Message \cup {0},
                 left  : Nat]
  /\ reader.state = "rest" => reader.of # 0 /\ reader.left < Size(reader.of)
  /\ handled \in Seq([of : Message, whole : BOOLEAN])
  /\ mixed \in BOOLEAN

Init ==
  /\ written = 0
  /\ taken = 0
  /\ reader = Reading("first", 0, 0)
  /\ handled = <<>>
  /\ mixed = FALSE

Write ==
  /\ written < Len(End)
  /\ written' = written + 1
  /\ UNCHANGED <<taken, reader, handled, mixed>>

\* readMessageSize after a read of n bytes: the bytes that are missing are the
\* zeros of a new buffer, and the first byte is the highest.
SizeRead(size, n) ==
  IF n >= Header THEN size ELSE size - (size % Unit[n])

\* Mutants: what was read already is waited for again; the first read is taken
\* for the message.
MissingAll(size, n) == SizeRead(size, n)
PartialNever(size, n) == FALSE

\* The bytes of the complete read
Missing(size, n) == SizeRead(size, n) - n

Partial(size, n) == SizeRead(size, n) > n

\* The first part, of n bytes.  At the beginning of a message either the rest is
\* read, or it is handled and what follows in the buffer is dropped; with no size
\* there is nothing to parse.  Anywhere else it is invalid or never complete: no
\* message is handled any more.
ReadFirst(n) ==
  /\ reader.state = "first"
  /\ n \in 1 .. Available /\ n <= Buffer
  /\ taken' = taken + n
  /\ \/ \E k \in Message :
          /\ taken = Begin(k)
          /\ mixed' = (mixed \/ n < Header \/ n > Size(k))
          /\ IF Partial(Size(k), n)
             THEN reader' = Reading("rest", k, Missing(Size(k), n)) /\ UNCHANGED handled
             ELSE IF n < Header
             THEN reader' = Reading("closed", 0, 0) /\ UNCHANGED handled
             ELSE /\ handled' = Append(handled, [of |-> k, whole |-> n >= Size(k)])
                  /\ UNCHANGED reader
     \/ /\ \A k \in Message : taken # Begin(k)
        /\ reader' = Reading("closed", 0, 0)
        /\ UNCHANGED <<handled, mixed>>
  /\ UNCHANGED written

\* async_read: the second part completes when all of it is there.
ReadRest ==
  /\ reader.state = "rest" /\ Available >= reader.left
  /\ taken' = taken + reader.left
  /\ handled' = Append(handled, [of    |-> reader.of,
                                 whole |-> taken + reader.left >= End[reader.of]])
  /\ reader' = Reading("first", 0, 0)
  /\ UNCHANGED <<written, mixed>>

Read == ReadRest \/ \E n \in 1 .. Buffer : ReadFirst(n)

Next == Write \/ Read

Spec == Init /\ [][Next]_vars

\* What has arrived is read.
FairSpec == Spec /\ WF_vars(Read)

-----------------------------------------------------------------------------
\* If every first read gets the size and no more than one message, messages of
\* any size, smaller or larger than the buffer, are handled whole and in order.
NothingLost ==
  ~mixed =>
    /\ reader.state # "closed"
    /\ \A i \in DOMAIN handled : handled[i] = [of |-> i, whole |-> TRUE]

\* Then every message that is written is handled.
Delivered ==
  \A k \in Message :
    written >= k ~> mixed \/ \E i \in DOMAIN handled : handled[i].of = k
=============================================================================
