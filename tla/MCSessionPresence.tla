-------------------------- MODULE MCSessionPresence --------------------------
(* Model-checking instance of SessionPresence.                             *)
EXTENDS SessionPresence, TLC

Symmetry == Permutations(Clis) \cup Permutations(Browsers)
=============================================================================
