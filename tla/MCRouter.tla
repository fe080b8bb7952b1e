------------------------------ MODULE MCRouter ------------------------------
(* Instances of Router for model checking. *)
EXTENDS Router

Sensor == [kind |-> "producer", mode |-> "any", names |-> {"sensor"}]
Others == [kind |-> "producer", mode |-> "none", names |-> {"sensor"}]
Temp   == [kind |-> "label", mode |-> "any", names |-> {"temp", "load"}]
Both   == [kind |-> "label", mode |-> "all", names |-> {"temp", "load"}]
Small  == [kind |-> "size", min |-> None, max |-> 1]
Broken == [kind |-> "broken"]

Require(d)   == [dim |-> d, weight |-> One, required |-> TRUE]
Prefer(d, w) == [dim |-> d, weight |-> w, required |-> FALSE]

\* Weights next to the floor and the cap, and one at 1.0, so that a step or
\* two of learning reaches both ends and changes the ranking.
SomeOffers ==
  { <<>>,
    <<Require(Sensor), Prefer(Temp, One)>>,
    <<Prefer(Both, Floor + 100), Prefer(Small, 95 * One)>>,
    <<Require(Small), Prefer(Others, One)>>,
    <<Prefer(Broken, One), Prefer(Temp, One)>> }

SomeEnvelopes ==
  { [origin |-> "sensor", labels |-> {"temp"}, size |-> 1],
    [origin |-> "probe", labels |-> {"temp", "load"}, size |-> 2] }
=============================================================================
