--------------------------- MODULE RequestChannel ---------------------------
(***************************************************************************)
(* What MessageBus promises to Monitor and Membership about the messages   *)
(* for one node: each is handled there once at most, its callback runs     *)
(* once at most, and a call succeeds only if it was handled.  A Pong of    *)
(* which a read has left a part behind, and no less than that, makes calls *)
(* that were not handled succeed.                                          *)
(***************************************************************************)
CONSTANTS Send, Call   \* one-way messages, messages that are answered

VARIABLES
  req, handled,
  torn          \* calls answered in part, or with a part left by another

vars == <<req, handled, torn>>

Init ==
  /\ req = [r \in Send \cup Call |-> "idle"]
  /\ handled = {}
  /\ torn = {}

Submit(r) ==
  /\ req[r] = "idle"
  /\ req' = [req EXCEPT ![r] = "pending"]
  /\ UNCHANGED <<handled, torn>>

Handle(r) ==
  /\ req[r] # "idle" /\ r \notin handled
  /\ handled' = handled \cup {r}
  /\ UNCHANGED <<req, torn>>

CallBack(r, outcome) ==
  /\ req[r] = "pending"
  /\ outcome = "ok" /\ r \in Call => r \in handled
  /\ req' = [req EXCEPT ![r] = outcome]
  /\ UNCHANGED <<handled, torn>>

\* The first is a call that was handled: part of its own Pong is left.
Tear(r) ==
  /\ r \in Call /\ req[r] = "pending"
  /\ r \in handled \/ torn # {}
  /\ req' = [req EXCEPT ![r] = "ok"]
  /\ torn' = torn \cup {r}
  /\ UNCHANGED handled

Next ==
  \E r \in Send \cup Call :
    \/ Submit(r) \/ Handle(r) \/ Tear(r)
    \/ CallBack(r, "ok") \/ CallBack(r, "failed")

Spec == Init /\ [][Next]_vars
=============================================================================
