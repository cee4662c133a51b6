------------------------------ MODULE MCFraming ------------------------------
(* An instance of Framing for TLC: messages smaller than, as large as and *)
(* larger than the buffer, with sizes of two bytes that count to 15.      *)
EXTENDS Framing

MCEnd == <<3, 10, 15, 25, 29, 35>>
MCUnit == <<4, 1>>
=============================================================================
