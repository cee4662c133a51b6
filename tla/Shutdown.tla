------------------------------ MODULE Shutdown ------------------------------
(***************************************************************************)
(* The end of a process.  A signal interrupts main (server/main.cpp) and   *)
(* io_service::run (asio's task_io_service) between any two steps, and its *)
(* handler stops the service; the program is built with                    *)
(* BOOST_DISABLE_THREADS, so that no mutex keeps it out.                   *)
(*                                                                         *)
(* The queue of the service holds completions and the task, which stands   *)
(* for a poll of the reactor.  What the handlers do to the process is in   *)
(* EventLoop; here they only queue more.                                   *)
(***************************************************************************)
EXTENDS Naturals, Sequences

CONSTANTS
  MaxQueue,   \* bound: the completions that are queued
  MaxSignals  \* bound: the signals of the whole behaviour

ASSUME ShutdownAssumption == MaxQueue \in Nat /\ MaxSignals \in Nat

VARIABLES
  at,           \* the next step of main
  stopped,      \* stopped_
  interrupted,  \* task_interrupted_
  woken,        \* epoll_wait has the interrupter to report
  queue,        \* op_queue_
  more,         \* more_handlers
  signals,      \* the signals handled
  late          \* history: polls and handlers taken up after the first

flags == <<stopped, interrupted, woken>>
vars  == <<at, flags, queue, more, signals, late>>

TypeOK ==
  /\ at \in {"start", "test", "pop", "mark", "poll", "run", "end"}
  /\ stopped \in BOOLEAN /\ interrupted \in BOOLEAN /\ woken \in BOOLEAN
  /\ queue \in Seq({"task", "completion"})
  /\ Len(queue) <= MaxQueue + (IF at \in {"mark", "poll"} THEN 0 ELSE 1)
  /\ more \in BOOLEAN
  /\ signals \in 0 .. MaxSignals /\ late \in Nat

Init ==
  /\ at = "start"
  /\ stopped = FALSE /\ interrupted = TRUE /\ woken = FALSE
  /\ queue = <<"task">>
  /\ more = FALSE
  /\ signals = 0 /\ late = 0

Completions(n) == [i \in 1 .. n |-> "completion"]

\* Mutant: the service is reset before it runs.
BeforeRunReset == FALSE

BeforeRun == stopped

\* The objects are made: what one of them sends may complete at once.
Start ==
  /\ at = "start"
  /\ at' = "test"
  /\ stopped' = BeforeRun
  /\ \E n \in 0 .. MaxQueue : queue' = queue \o Completions(n)
  /\ UNCHANGED <<interrupted, woken, more, signals, late>>

\* Mutant: the flag is looked at only while nothing else is queued.
EndsIdle == stopped /\ Len(queue) = 1

Ends == stopped

Test ==
  /\ at = "test"
  /\ at' = IF Ends THEN "end" ELSE "pop"
  /\ UNCHANGED <<flags, queue, more, signals, late>>

\* Mutant: what is taken up stays queued.
RestKept == queue

Rest == Tail(queue)

\* wake_one_thread_and_unlock, stop_all_threads: the poll is interrupted, unless
\* it was already.
Interrupt(needed) ==
  /\ interrupted' = (interrupted \/ needed)
  /\ woken' = (woken \/ (needed /\ ~interrupted))

Pop ==
  /\ at = "pop" /\ queue # <<>>
  /\ queue' = Rest
  /\ more' = (Rest # <<>>)
  /\ \/ /\ Head(queue) = "task"
        /\ at' = "mark"
        /\ UNCHANGED flags
     \/ /\ Head(queue) = "completion"
        /\ at' = "run"
        /\ Interrupt(Rest # <<>>)
        /\ UNCHANGED stopped
  /\ late' = IF stopped THEN late + 1 ELSE late
  /\ UNCHANGED signals

\* Mutant: the poll is never interrupted.
InterruptedNow == TRUE

Interrupted == more

Mark ==
  /\ at = "mark"
  /\ at' = "poll"
  /\ interrupted' = Interrupted
  /\ UNCHANGED <<stopped, woken, queue, more, signals, late>>

Polled(n) == Completions(n) \o <<"task">>

\* epoll_reactor::run and the task_cleanup after it.  It waits if there is
\* nothing else to do, but not for ever: a timer is always set.
Poll ==
  /\ at = "poll"
  /\ at' = "test"
  /\ \E n \in 0 .. MaxQueue - Len(queue) : queue' = queue \o Polled(n)
  /\ interrupted' = TRUE /\ woken' = FALSE
  /\ UNCHANGED <<stopped, more, signals, late>>

\* A handler: what it sends may complete at once.
Run ==
  /\ at = "run"
  /\ at' = "test"
  /\ \E n \in 0 .. MaxQueue + 1 - Len(queue) :
       /\ queue' = queue \o Completions(n)
       /\ Interrupt(n > 0)
  /\ UNCHANGED <<stopped, more, signals, late>>

\* signalHandler
Signal ==
  /\ at # "end" /\ signals < MaxSignals
  /\ stopped' = TRUE
  /\ Interrupt(TRUE)
  /\ signals' = signals + 1
  /\ UNCHANGED <<at, queue, more, late>>

Main == Start \/ Test \/ Pop \/ Mark \/ Poll \/ Run

Next == Main \/ Signal

\* The thread runs, and a poll ends with the next timer if with nothing else.
Spec == Init /\ [][Next]_vars /\ WF_vars(Main)

-----------------------------------------------------------------------------
\* Wherever the signal finds the process, one poll or handler is taken up after
\* it and no more ("should return as soon as possible", io_service::stop).
OneMore == late <= 1

\* A poll that waits can be ended by a signal or has been, even if an earlier
\* signal was lost: one handled between the test and Mark finds the poll
\* interrupted, and Mark forgets it.
Wakeable == (at = "poll" /\ ~more) => woken \/ ~interrupted

\* A process that was signalled ends, however early the signal came.
Stops == signals > 0 ~> at = "end"
=============================================================================
