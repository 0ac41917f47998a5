------------------------ MODULE MCConnectionRegistry ------------------------
(* Model-checking instance of ConnectionRegistry.                          *)
EXTENDS ConnectionRegistry
=============================================================================
