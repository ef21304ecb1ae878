------------------------------ MODULE MCLogger ------------------------------
(* Two values; 1 is what both readings are after a boot. *)
EXTENDS Logger

MCValues == {1, 20}
=============================================================================
