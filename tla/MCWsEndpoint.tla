---------------------------- MODULE MCWsEndpoint ----------------------------
(* An instance of WsEndpoint for model checking: a client that is both a   *)
(* consumer and a producer, with a consumer or a producer beside it.       *)
EXTENDS WsEndpoint

CONSTANTS r1, r2

C == {"consumer"}
P == {"producer"}
MCRoles == {[r \in Consumers |-> IF r = r1 THEN C \cup P ELSE y] : y \in {C, P}}
=============================================================================
