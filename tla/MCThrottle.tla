----------------------------- MODULE MCThrottle -----------------------------
(* An instance of Throttle for model checking. *)
EXTENDS Throttle

CONSTANTS s1, s2
=============================================================================
