--------------------------- MODULE MCGrpcEndpoint ---------------------------
(* An instance of GrpcEndpoint for model checking: two Register calls, the *)
(* roles they declare chosen so that every pair of tasks that may meet on  *)
(* a connection meets there, and a call that declares no role at all.      *)
EXTENDS GrpcEndpoint

CONSTANTS r1, r2, a1

C == {"consumer"}
P == {"producer"}
MCRoles == {[r \in Consumers |-> IF r = r1 THEN x ELSE y] :
              <<x, y>> \in {<<C, C>>, <<C, P>>, <<P, C>>, <<C \cup P, C>>, <<{}, C>>}}
=============================================================================
