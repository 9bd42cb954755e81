------------------------------ MODULE MCFanoutFeed ------------------------------
(* FanoutFeed for TLC: two clients, three facts, an answer or two. *)
EXTENDS FanoutFeed, TLC
=================================================================================
