------------------------------ MODULE MCCluster ------------------------------
(***************************************************************************)
(* Instances of Cluster for TLC.  On the ring of MCNode3 the points of 1,  *)
(* 2 and 3 lie at 10, 20 and 30, and the names hash to 15, 25 and 5: the   *)
(* node after a newcomer on the ring is the one after it in name order.    *)
(* With MCNames3b and MCNames2b the name of the last one falls right       *)
(* before its own point, so that nobody sends it a list when it is new: it *)
(* joins by the announcements of the others alone.                         *)
(***************************************************************************)
EXTENDS Cluster, TLC

MCNode2 == 1 .. 2
MCPoints2 == 1 :> <<10>> @@ 2 :> <<20>>
MCNames2 == 1 :> 15 @@ 2 :> 5
MCNames2b == 1 :> 15 @@ 2 :> 15

MCNode3 == 1 .. 3
MCPoints3 == 1 :> <<10>> @@ 2 :> <<20>> @@ 3 :> <<30>>
MCNames3 == 1 :> 15 @@ 2 :> 25 @@ 3 :> 5
MCNames3b == 1 :> 15 @@ 2 :> 25 @@ 3 :> 25
=============================================================================
