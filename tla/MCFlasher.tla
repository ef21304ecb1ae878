----------------------------- MODULE MCFlasher -----------------------------
(* Two images of two blocks; one thread more than a burn needs. *)
EXTENDS Flasher, TLC

Symmetry == Permutations(Workers)
=============================================================================
