------------------------------- MODULE MCBus -------------------------------
(* Instances of Bus for model checking. *)
EXTENDS Bus

CONSTANTS m1, m2, m3, c1, c2

\* c1 takes the first two messages, c2 the last two: one message is wanted
\* by both, and either consumer alone leaves one message unhandled.
Overlapping == {<<m1, c1>>, <<m2, c1>>, <<m2, c2>>, <<m3, c2>>}

\* Every consumer takes every message.
BothTake == Messages \X Consumers
=============================================================================
