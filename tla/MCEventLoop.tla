----------------------------- MODULE MCEventLoop -----------------------------
(* An instance of EventLoop for TLC: the process in the middle of three names, *)
(* next on the ring to one of the others, to both if it knows only of them.    *)
EXTENDS EventLoop, TLC

MCNode == 1 .. 3
MCPoints == 1 :> <<10>> @@ 2 :> <<20>> @@ 3 :> <<30>>
MCNames == 1 :> 15 @@ 2 :> 25 @@ 3 :> 5
MCLists == {{1}, {3}, {1, 3}}
=============================================================================
