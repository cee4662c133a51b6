------------------------------- MODULE MCRing -------------------------------
(* An instance of Ring for TLC: three nodes whose points alternate. *)
EXTENDS Ring, TLC

MCNode == 1 .. 3
MCPoints == 1 :> <<10, 20>> @@ 2 :> <<30, 50>> @@ 3 :> <<40, 60>>
MCNames == 1 :> 15 @@ 2 :> 25 @@ 3 :> 5
MCPosition == {0, 15, 30, 35, 45, 55, 65}
=============================================================================
