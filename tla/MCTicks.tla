------------------------------- MODULE MCTicks -------------------------------
(***************************************************************************)
(* Cluster with a bound on what happens in a behaviour, timers that expire *)
(* and faults, and on the starts of processes.  Every process may announce *)
(* itself and ping for ever, so three of them have too many states for TLC *)
(* without it.                                                             *)
(***************************************************************************)
EXTENDS MCCluster

CONSTANTS
  MaxEvents,   \* bound: timers that expire, and faults, in the whole behaviour
  MaxRestarts  \* bound: restarts in the whole behaviour

VARIABLES ticks, starts

TickInit == Init /\ ticks = 0 /\ starts = 0

Tick(n) ==
  /\ \E w \in MayExpire(n) : Handle(n, w)
  /\ ticks' = ticks + 1
  /\ UNCHANGED starts

TickStart(n) ==
  /\ starts < Cardinality(Node) + MaxRestarts
  /\ Start(n)
  /\ starts' = starts + 1
  /\ UNCHANGED ticks

TickNext ==
  /\ \/ (Failure \/ \E n \in Node : Handle(n, NoWait)) /\ UNCHANGED <<ticks, starts>>
     \/ \E n \in Node : Tick(n) \/ TickStart(n)
  /\ ticks' + faults' <= MaxEvents

TickSpec == TickInit /\ [][TickNext]_<<vars, ticks, starts>>
=============================================================================
