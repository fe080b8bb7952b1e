------------------------------ MODULE MCPyBus ------------------------------
(* An instance of PyBus for model checking.  One message meets what both    *)
(* callbacks require, one what the first, one what the second requires:     *)
(* until that one is registered, and with no callback, it is put back.      *)
EXTENDS PyBus

CONSTANTS t1, t2, c1, c2, p1, p2

MCAccepts == {<<c1, 1>>, <<c2, 1>>, <<c1, 2>>, <<c2, 3>>}
=============================================================================
