---------------------------- MODULE MCDelivery ----------------------------
(* One gateway and one game: a browser comes back to the same gateway, to   *)
(* which its old connection may still be open.                              *)
EXTENDS Delivery

CONSTANTS c1, w1, g1
=============================================================================
