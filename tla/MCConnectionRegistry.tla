------------------------ MODULE MCConnectionRegistry ------------------------
(* An instance of ConnectionRegistry for model checking. *)
EXTENDS ConnectionRegistry

CONSTANTS c1, c2, b1, b2
=============================================================================
