------------------------------- MODULE Router -------------------------------
(***************************************************************************)
(* How one message finds its consumer: the plan of registry.rs (who        *)
(* qualifies, in which order), the walk of router.rs over it, the built-in *)
(* dimensions of dims.rs and the weights they learn (dimension.rs).        *)
(* A route borrows the registry from the plan to the last observation, so  *)
(* registrations change only between routes; the consumer's consume() is   *)
(* awaited in between and the route may be cancelled there.                *)
(*                                                                         *)
(* A weight is a whole number of Grains, One of them to 1.0: the code's    *)
(* f32 rounds elsewhere, and nothing below depends on where.               *)
(***************************************************************************)
EXTENDS Integers, Sequences, FiniteSets, SequencesExt

CONSTANTS Envelopes,    \* records [origin, labels, size]
          Offers,       \* what consumers register with: sequences of slots
          Routers,      \* which of "affinity" and "blind" the bus may use
          MaxIds,       \* bound: consumers ever registered
          MaxRoutes,    \* bound: messages routed
          None

One   == 1000000       \* 1.0
Floor == One \div 1000 \* 0.001
Cap   == 100 * One     \* 100.0

InRange(w) == w \in Floor..Cap

\* One dimension of a consumer: require() weighs 1.0, prefer() what it is given.
IsSlot(s) == /\ s \in [dim : {s.dim}, required : BOOLEAN, weight : Int]
             /\ s.required => s.weight = One

ASSUME OffersAssumption ==
    /\ Routers \subseteq {"affinity", "blind"}
    /\ \A o \in Offers : /\ o \in Seq({o[i] : i \in DOMAIN o})
                        /\ \A i \in DOMAIN o : IsSlot(o[i])

Answers == {"take", "busy", "veto"}
\* One message, what the consumers answer to it, and which one gets it.
Trips == [env : Envelopes, answer : UNION {[S -> Answers] : S \in SUBSET (0..MaxIds - 1)},
          winner : (0..MaxIds - 1) \cup {None}]

ASSUME NoneAssumption == None \notin Nat /\ None \notin Trips
ASSUME RouterBounds == MaxIds \in Nat /\ MaxRoutes \in Nat

VARIABLES router,   \* the router the bus was built with
          entries,  \* id -> its dimensions, in the order they were added
          nextId,   \* Registry::next_id
          flight,   \* the route whose consume() is awaited, or None
          last,     \* history: the last route and how it ended, or None
          routes    \* bound: how many messages were routed

vars == <<router, entries, nextId, flight, last, routes>>

Ids      == DOMAIN entries
Affinity == router = "affinity"

-----------------------------------------------------------------------------
(* Dimensions: kind "producer" and "label" match a set of names in mode    *)
(* any, all or none; "size" has bounds, None for an absent one; "broken"   *)
(* stands for a custom dimension whose score is not a finite number.       *)

Matches(d, e) ==
  \/ d.kind = "producer" /\ (e.origin \in d.names <=> d.mode = "any")
  \/ d.kind = "label" /\ d.mode = "any"  /\ e.labels \cap d.names # {}
  \/ d.kind = "label" /\ d.mode = "all"  /\ d.names \subseteq e.labels
  \/ d.kind = "label" /\ d.mode = "none" /\ e.labels \cap d.names = {}
  \/ /\ d.kind = "size"
     /\ d.min # None => e.size >= d.min
     /\ d.max # None => e.size <= d.max
  \/ d.kind = "broken"

SlotsOf(id)   == ToSet(entries[id])
Earned(s, e) == IF Matches(s.dim, e) THEN s.weight ELSE 0
Accepting(e) == {id \in Ids : \A s \in SlotsOf(id) : s.required => Matches(s.dim, e)}

Bug_TotalOfPreferred(slots, e) ==
  LET sum[n \in 0..Len(slots)] ==
        IF n = 0 THEN 0
        ELSE sum[n - 1] + (IF slots[n].required THEN 0 ELSE Earned(slots[n], e))
  IN  sum[Len(slots)]

\* The weights of all matching dimensions, required ones included.
Total(slots, e) ==
  LET sum[n \in 0..Len(slots)] == IF n = 0 THEN 0 ELSE sum[n - 1] + Earned(slots[n], e)
  IN  sum[Len(slots)]

Score(id, e) ==
  IF \E s \in SlotsOf(id) : s.dim.kind = "broken" THEN 0 ELSE Total(entries[id], e)

\* What plan() knows of the consumers that qualify; BlindRouter asks for no scores.
Scores(e) == [id \in Accepting(e) |-> IF Affinity THEN Score(id, e) ELSE 0]

Bug_OutranksNewestFirst(a, b, score) == \/ score[a] > score[b]
                                        \/ score[a] = score[b] /\ a > b

\* sort_by: score descending, then id ascending, the order of registration
Outranks(a, b, score) == \/ score[a] > score[b]
                         \/ score[a] = score[b] /\ a < b

\* Each consumer that qualifies comes behind those that outrank it.
Walk(e) ==
  LET score     == Scores(e)
      ahead(id) == {a \in Accepting(e) : Outranks(a, id, score)}
  IN  [n \in 1..Cardinality(Accepting(e)) |->
         CHOOSE id \in Accepting(e) : Cardinality(ahead(id)) = n - 1]

-----------------------------------------------------------------------------
(* Learning: every dimension of a consumer is told what became of it.      *)

Smaller(a, b) == IF a < b THEN a ELSE b
Larger(a, b)  == IF a > b THEN a ELSE b

Bug_AdjustWithoutCap(w, event) ==
  CASE event = "consumed" -> (w * 11) \div 10
    [] event = "busy"     -> Larger((w * 8) \div 10, Floor)
    [] event = "vetoed"   -> Larger((w * 9) \div 10, Floor)
    [] event = "skipped"  -> w

Bug_AdjustTiresWinner(w, event) ==
  CASE event = "consumed" -> Larger((w * 8) \div 10, Floor)
    [] event = "busy"     -> Larger((w * 8) \div 10, Floor)
    [] event = "vetoed"   -> Larger((w * 9) \div 10, Floor)
    [] event = "skipped"  -> w

Adjust(w, event) ==
  CASE event = "consumed" -> Smaller((w * 11) \div 10, Cap)
    [] event = "busy"     -> Larger((w * 8) \div 10, Floor)
    [] event = "vetoed"   -> Larger((w * 9) \div 10, Floor)
    [] event = "skipped"  -> w

\* The built-in dimensions adjust; a custom one that does not observe() keeps.
Told(slot, event) ==
  IF slot.dim.kind = "broken" THEN slot
  ELSE [slot EXCEPT !.weight = Adjust(@, event)]

\* events: id -> event, for the consumers that get one
Observe(events) ==
  entries' = [id \in Ids |->
                IF id \in DOMAIN events
                THEN [i \in DOMAIN entries[id] |-> Told(entries[id][i], events[id])]
                ELSE entries[id]]

Bug_EventPunishesSkipped(answer, plan, winner) ==
  [id \in ToSet(plan) |->
     IF id = winner THEN "consumed"
     ELSE IF answer[id] = "busy" THEN "busy" ELSE "vetoed"]

\* What each consumer of the plan is told: those asked before the winner, the
\* winner, those never asked.  Without a winner everyone was asked.
Event(answer, plan, winner) ==
  [id \in ToSet(plan) |->
     CASE id = winner -> "consumed"
       [] id # winner /\ winner # None
            /\ SelectInSeq(plan, LAMBDA x : x = winner)
                 < SelectInSeq(plan, LAMBDA x : x = id) -> "skipped"
       [] OTHER -> IF answer[id] = "busy" THEN "busy" ELSE "vetoed"]

-----------------------------------------------------------------------------
Init == /\ router \in Routers
        /\ entries = [id \in {} |-> <<>>] /\ nextId = 0
        /\ flight = None /\ last = None /\ routes = 0

\* register_consumer() and the require() and prefer() calls on what it returns.
Register(slots) ==
  /\ flight = None /\ nextId < MaxIds
  /\ entries' = [id \in Ids \cup {nextId} |->
                   IF id = nextId THEN slots ELSE entries[id]]
  /\ nextId' = nextId + 1
  /\ last' = None
  /\ UNCHANGED <<router, flight, routes>>

Bug_DeregisterReusesId(id) == /\ flight = None /\ id \in Ids
                              /\ entries' = [i \in Ids \ {id} |-> entries[i]]
                              /\ nextId' = nextId - 1
                              /\ last' = None
                              /\ UNCHANGED <<router, flight, routes>>

Deregister(id) == /\ flight = None /\ id \in Ids
                  /\ entries' = [i \in Ids \ {id} |-> entries[i]]
                  /\ last' = None
                  /\ UNCHANGED <<router, nextId, flight, routes>>

Bug_WinnerOrNothing(walk, answer) ==
  IF walk # <<>> /\ answer[Head(walk)] = "take" THEN Head(walk) ELSE None

\* The first of the walk that is available and does not veto.
Winner(walk, answer) ==
  LET at == SelectInSeq(walk, LAMBDA id : answer[id] = "take")
  IN  IF at = 0 THEN None ELSE walk[at]

(* route(): available() and validate() of each consumer are read once, and *)
(* may say anything.  A winner's consume() is then awaited; without one    *)
(* the message comes back and, in the affinity router, everyone learns.    *)
Route(e, walk, answer) ==
  LET winner == Winner(walk, answer)
      trip   == [env |-> e, answer |-> answer, winner |-> winner]
  IN  /\ flight = None /\ routes < MaxRoutes
      /\ routes' = routes + 1
      /\ \/ /\ winner # None
            /\ flight' = trip
            /\ UNCHANGED <<entries, last>>
         \/ /\ winner = None
            /\ last' = trip
            /\ IF Affinity THEN Observe(Event(answer, walk, None))
               ELSE UNCHANGED entries
            /\ UNCHANGED flight
      /\ UNCHANGED <<router, nextId>>

Consumed == /\ flight # None
            /\ last' = flight /\ flight' = None
            /\ IF Affinity
               THEN Observe(Event(flight.answer, Walk(flight.env), flight.winner))
               ELSE UNCHANGED entries
            /\ UNCHANGED <<router, nextId, routes>>

\* The future of the route is dropped: nobody learns anything.
CancelRoute == /\ flight # None
               /\ flight' = None /\ last' = None
               /\ UNCHANGED <<router, entries, nextId, routes>>

Next == \/ \E slots \in Offers : Register(slots)
        \/ \E id \in Ids : Deregister(id)
        \/ \E e \in Envelopes :
             LET walk == Walk(e)
             IN  \E answer \in [Accepting(e) -> Answers] : Route(e, walk, answer)
        \/ Consumed
        \/ CancelRoute

Spec == Init /\ [][Next]_vars

-----------------------------------------------------------------------------
TypeOK ==
  /\ router \in Routers
  /\ Ids \subseteq 0..nextId - 1 /\ nextId \in 0..MaxIds
  /\ \A id \in Ids : \E o \in Offers :
       /\ DOMAIN entries[id] = DOMAIN o
       /\ \A i \in DOMAIN o : /\ entries[id][i].dim = o[i].dim
                              /\ entries[id][i].required = o[i].required
                              /\ entries[id][i].weight \in Int
  /\ flight \in Trips \cup {None} /\ last \in Trips \cup {None}
  /\ \A trip \in {flight, last} \ {None} :
       DOMAIN trip.answer \subseteq Ids /\ trip.winner \in Ids \cup {None}
  /\ routes \in 0..MaxRoutes

(* prefer() takes any weight; the adjustments only do what their names say *)
(* for weights between the floor and the cap.                              *)
OffersInRange == \A o \in Offers : \A i \in DOMAIN o : InRange(o[i].weight)

(* Learning keeps every weight between floor and cap, provided prefer()    *)
(* was given weights between them: neither router ever lets one run away.  *)
WeightsInRange ==
  OffersInRange =>
     \A id \in Ids : \A i \in DOMAIN entries[id] : InRange(entries[id][i].weight)

Takers(trip) == {id \in DOMAIN trip.answer : trip.answer[id] = "take"}

(* The consumer whose consume() is awaited passes all its requirements, is *)
(* available, did not veto, and no other such consumer had a better claim: *)
(* a higher score, or the same and an earlier registration.  With the      *)
(* blind router only the registration counts.                              *)
BestWins ==
  flight # None =>
    /\ flight.winner \in Takers(flight) \cap Accepting(flight.env)
    /\ \A id \in Takers(flight) \ {flight.winner} :
         LET won == Score(flight.winner, flight.env)
             lost == Score(id, flight.env)
         IN  \/ Affinity /\ lost < won
             \/ (Affinity => lost = won) /\ flight.winner < id

(* A message comes back unhandled only when every consumer whose           *)
(* requirements it meets was asked and refused.                            *)
NobodyPassedOver ==
  last # None /\ last.winner = None =>
    /\ DOMAIN last.answer = Accepting(last.env)
    /\ Takers(last) = {}

(* What a route teaches never changes its own outcome: the same message    *)
(* with the same answers goes to the same consumer again.                  *)
Stable ==
  OffersInRange /\ flight = None /\ last # None =>
    Winner(Walk(last.env), last.answer) = last.winner

(* However often it was busy, a consumer that a message matches stays      *)
(* ahead of one that the message matches in nothing.                       *)
PreferenceSurvives ==
  OffersInRange /\ Affinity =>
  \A e \in Envelopes :
    LET score == Scores(e)
    IN  \A a, b \in Accepting(e) :
          /\ \E s \in SlotsOf(a) : Matches(s.dim, e)
          /\ \A s \in SlotsOf(a) : s.dim.kind # "broken"
          /\ \A s \in SlotsOf(b) : ~Matches(s.dim, e)
          => Outranks(a, b, score)

Weights(id) == [i \in DOMAIN entries[id] |-> entries[id][i].weight]

(* A weight moves only when a route ends, only in the affinity router, up  *)
(* only for the consumer that consumed, and down only for one that was     *)
(* asked before it and refused.                                            *)
LearnsFromOutcome ==
  [][OffersInRange =>
     \A id \in Ids \cap Ids' : \A i \in DOMAIN entries[id] :
       /\ entries[id][i].weight # entries'[id][i].weight =>
            Affinity /\ last' # None /\ id \in DOMAIN last'.answer
       /\ entries'[id][i].weight > entries[id][i].weight => id = last'.winner
       /\ entries'[id][i].weight < entries[id][i].weight =>
            /\ last'.answer[id] # "take"
            /\ last'.winner # None => Outranks(id, last'.winner, Scores(last'.env))]_vars
=============================================================================
