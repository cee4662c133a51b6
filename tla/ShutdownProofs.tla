--------------------------- MODULE ShutdownProofs ---------------------------
(***************************************************************************)
(* The safety properties of Shutdown, for any number of completions and of *)
(* signals.                                                                *)
(***************************************************************************)
EXTENDS Shutdown, TLAPS

HasTask(q) == \E i \in DOMAIN q : q[i] = "task"

\* The task leaves the queue only for the poll that puts it back.
TaskInv ==
  /\ at \notin {"mark", "poll"} => HasTask(queue)
  /\ at = "start" => queue = <<"task">>

\* Nothing is taken up after a signal but what leads back to the test.
LateInv ==
  \/ late = 0
  \/ late = 1 /\ stopped /\ at \in {"mark", "poll", "run", "test", "end"}

IInv == TypeOK /\ TaskInv /\ LateInv /\ Wakeable

-----------------------------------------------------------------------------
LEMMA Queued ==
  ASSUME NEW n \in Nat
  PROVE  /\ Completions(n) \in Seq({"task", "completion"})
         /\ Len(Completions(n)) = n
BY DEF Completions

\* What is added behind leaves the task where it was.
LEMMA TaskKept ==
  ASSUME NEW q \in Seq({"task", "completion"}), HasTask(q), NEW n \in Nat
  PROVE  /\ q \o Completions(n) \in Seq({"task", "completion"})
         /\ Len(q \o Completions(n)) = Len(q) + n
         /\ HasTask(q \o Completions(n))
<1> DEFINE c == Completions(n)
<1>0. c \in Seq({"task", "completion"}) /\ Len(c) = n
  BY Queued
<1> HIDE DEF c
<1>1. q \o c \in Seq({"task", "completion"}) /\ Len(q \o c) = Len(q) + n
  BY <1>0
<1>2. PICK i \in DOMAIN q : q[i] = "task"
  BY DEF HasTask
<1>3. (q \o c)[i] = "task" /\ i \in DOMAIN (q \o c)
  BY <1>0, <1>1, <1>2
<1> QED  BY <1>1, <1>3 DEF HasTask, c

LEMMA TaskLast ==
  ASSUME NEW q \in Seq({"task", "completion"}), NEW n \in Nat
  PROVE  /\ q \o Polled(n) \in Seq({"task", "completion"})
         /\ Len(q \o Polled(n)) = Len(q) + n + 1
         /\ HasTask(q \o Polled(n))
<1>1. /\ Polled(n) \in Seq({"task", "completion"})
      /\ Len(Polled(n)) = n + 1
      /\ Polled(n)[n + 1] = "task"
  BY Queued DEF Polled
<1>2. q \o Polled(n) \in Seq({"task", "completion"}) /\ Len(q \o Polled(n)) = Len(q) + n + 1
  BY <1>1
<1>3. (q \o Polled(n))[Len(q) + n + 1] = "task"
  BY <1>1
<1>4. Len(q) + n + 1 \in DOMAIN (q \o Polled(n))
  BY <1>2
<1> QED  BY <1>2, <1>3, <1>4 DEF HasTask

\* Behind a completion the task is still there.
LEMMA TaskBehind ==
  ASSUME NEW q \in Seq({"task", "completion"}), q # <<>>,
         Head(q) = "completion", HasTask(q)
  PROVE  HasTask(Tail(q))
<1>1. PICK i \in DOMAIN q : q[i] = "task"
  BY DEF HasTask
<1>2. i \in 2 .. Len(q)
  BY <1>1
<1>3. Tail(q)[i - 1] = "task" /\ i - 1 \in DOMAIN Tail(q)
  BY <1>1, <1>2
<1> QED  BY <1>3 DEF HasTask

-----------------------------------------------------------------------------
LEMMA InitInv == Init => IInv
<1> SUFFICES ASSUME Init PROVE IInv
  OBVIOUS
<1>1. queue \in Seq({"task", "completion"}) /\ Len(queue) = 1 /\ HasTask(queue)
  BY DEF Init, HasTask
<1>2. Len(queue) <= MaxQueue + 1 /\ signals \in 0 .. MaxSignals /\ late \in Nat
  BY <1>1, ShutdownAssumption DEF Init
<1>3. TypeOK
  BY <1>1, <1>2 DEF Init, TypeOK
<1> QED  BY <1>1, <1>3 DEF Init, IInv, TaskInv, LateInv, Wakeable

\* Every step keeps the invariant.
LEMMA StepInv == IInv /\ [Next]_vars => IInv'
<1> SUFFICES ASSUME IInv, [Next]_vars PROVE IInv'
  OBVIOUS
<1> USE ShutdownAssumption
<1>1. CASE Start
  <2>1. PICK n \in 0 .. MaxQueue : queue' = queue \o Completions(n)
    BY <1>1 DEF Start
  <2>2. queue \in Seq({"task", "completion"}) /\ Len(queue) = 1 /\ HasTask(queue)
    BY <1>1 DEF Start, IInv, TypeOK, TaskInv, HasTask
  <2>3. /\ queue' \in Seq({"task", "completion"}) /\ Len(queue') <= MaxQueue + 1
        /\ HasTask(queue')
    <3>1. n \in Nat /\ n <= MaxQueue
      BY <2>1
    <3>2. /\ queue \o Completions(n) \in Seq({"task", "completion"})
          /\ Len(queue \o Completions(n)) = Len(queue) + n
          /\ HasTask(queue \o Completions(n))
      BY <2>2, <3>1, TaskKept
    <3>3. 1 + n <= MaxQueue + 1
      BY <3>1
    <3> QED  BY <2>1, <2>2, <3>2, <3>3
  <2>4. TypeOK'
    BY <1>1, <2>3 DEF Start, BeforeRun, IInv, TypeOK
  <2> QED  BY <1>1, <2>3, <2>4 DEF Start, IInv, TaskInv, LateInv, Wakeable, HasTask
<1>2. CASE Test
  <2>1. TypeOK'
    BY <1>2 DEF Test, flags, IInv, TypeOK
  <2> QED  BY <1>2, <2>1 DEF Test, Ends, flags, IInv, TaskInv, LateInv, Wakeable, HasTask
<1>3. CASE Pop
  <2>1. /\ queue \in Seq({"task", "completion"}) /\ queue # <<>>
        /\ queue' = Tail(queue) /\ Len(queue) <= MaxQueue + 1 /\ HasTask(queue)
    BY <1>3 DEF Pop, Rest, IInv, TypeOK, TaskInv
  <2>2. queue' \in Seq({"task", "completion"}) /\ Len(queue') <= MaxQueue
    BY <2>1
  <2>3. LateInv'
    BY <1>3 DEF Pop, flags, IInv, TypeOK, LateInv
  <2>4. /\ at' \in {"mark", "run"} /\ stopped' \in BOOLEAN
        /\ interrupted' \in BOOLEAN /\ woken' \in BOOLEAN /\ more' \in BOOLEAN
    BY <1>3, Zenon DEF Pop, Interrupt, flags, IInv, TypeOK
  <2>5. signals' \in 0 .. MaxSignals /\ late' \in Nat
    BY <1>3 DEF Pop, IInv, TypeOK
  <2>6. TypeOK'
    BY <2>2, <2>4, <2>5 DEF TypeOK
  <2>7. TaskInv'
    <3>1. CASE Head(queue) = "task"
      BY <1>3, <3>1 DEF Pop, TaskInv
    <3>2. CASE Head(queue) = "completion"
      BY <1>3, <2>1, <3>2, TaskBehind DEF Pop, TaskInv, HasTask
    <3> QED  BY <1>3, <3>1, <3>2 DEF Pop
  <2> QED  BY <1>3, <2>3, <2>6, <2>7 DEF Pop, IInv, Wakeable
<1>4. CASE Mark
  <2>1. TypeOK'
    BY <1>4 DEF Mark, Interrupted, IInv, TypeOK
  <2> QED  BY <1>4, <2>1 DEF Mark, Interrupted, IInv, TaskInv, LateInv, Wakeable
<1>5. CASE Poll
  <2>1. PICK n \in 0 .. MaxQueue - Len(queue) : queue' = queue \o Polled(n)
    BY <1>5 DEF Poll
  <2>2. queue \in Seq({"task", "completion"}) /\ Len(queue) <= MaxQueue /\ Len(queue) \in Nat
    BY <1>5 DEF Poll, IInv, TypeOK
  <2>3. /\ queue' \in Seq({"task", "completion"}) /\ Len(queue') <= MaxQueue + 1
        /\ HasTask(queue')
    BY <2>1, <2>2, TaskLast
  <2>4. TypeOK'
    BY <1>5, <2>3 DEF Poll, IInv, TypeOK
  <2> QED  BY <1>5, <2>3, <2>4 DEF Poll, IInv, TaskInv, LateInv, Wakeable, HasTask
<1>6. CASE Run
  <2>1. PICK n \in 0 .. MaxQueue + 1 - Len(queue) :
          queue' = queue \o Completions(n) /\ Interrupt(n > 0)
    BY <1>6 DEF Run
  <2>2. /\ queue \in Seq({"task", "completion"}) /\ Len(queue) <= MaxQueue + 1
        /\ Len(queue) \in Nat /\ HasTask(queue)
    BY <1>6 DEF Run, IInv, TypeOK, TaskInv
  <2>3. /\ queue' \in Seq({"task", "completion"}) /\ Len(queue') <= MaxQueue + 1
        /\ HasTask(queue')
    BY <2>1, <2>2, TaskKept
  <2>4. TypeOK'
    BY <1>6, <2>1, <2>3 DEF Run, Interrupt, IInv, TypeOK
  <2> QED  BY <1>6, <2>3, <2>4 DEF Run, IInv, TaskInv, LateInv, Wakeable, HasTask
<1>7. CASE Signal
  <2>1. TypeOK'
    BY <1>7 DEF Signal, Interrupt, IInv, TypeOK
  <2>2. Wakeable'
    BY <1>7 DEF Signal, Interrupt, IInv, TypeOK, Wakeable
  <2> QED  BY <1>7, <2>1, <2>2 DEF Signal, IInv, TaskInv, LateInv, HasTask
<1>8. CASE UNCHANGED vars
  BY <1>8 DEF vars, flags, IInv, TypeOK, TaskInv, LateInv, Wakeable, HasTask
<1> QED  BY <1>1, <1>2, <1>3, <1>4, <1>5, <1>6, <1>7, <1>8 DEF Next, Main

\* The invariant of every behaviour: the task is never lost, and what a signal
\* lets pass is one step of the loop.
THEOREM Invariance == Spec => []IInv
BY InitInv, StepInv, PTL DEF Spec

\* The flags and the queue of task_io_service keep their types, and the queue
\* its bound.
THEOREM TypeCorrect == Spec => []TypeOK
<1>1. IInv => TypeOK
  BY DEF IInv
<1> QED  BY <1>1, Invariance, PTL

\* After main's signal handler one poll or handler is taken up at most, however
\* many signals there are.
THEOREM StopsSoon == Spec => []OneMore
<1>1. IInv => OneMore
  BY DEF IInv, LateInv, OneMore
<1> QED  BY <1>1, Invariance, PTL

\* The task is there whenever the loop looks for work: with nothing queued do_one
\* would wait for an event that without threads is never waited for.
NeverIdle == at \in {"test", "pop"} => HasTask(queue)

\* do_one never looks into a queue without the task.
THEOREM NeverWaits == Spec => []NeverIdle
<1>1. IInv => NeverIdle
  BY DEF IInv, TaskInv, NeverIdle
<1> QED  BY <1>1, Invariance, PTL

\* A poll that waits can still be ended by a signal, or has been.
THEOREM PollEnds == Spec => []Wakeable
<1>1. IInv => Wakeable
  BY DEF IInv
<1> QED  BY <1>1, Invariance, PTL
=============================================================================
