------------------------------ MODULE Delivery ------------------------------
(***************************************************************************)
(* What the bus promises, without its queues, loops and commands.  A       *)
(* message the bus has taken in is open until it is handed to one member   *)
(* that accepts it, or discarded; it never has two of these fates, nor the *)
(* same one twice.  Bus.tla is shown to implement this specification.      *)
(***************************************************************************)
EXTENDS Naturals, Sequences

CONSTANTS Messages,   \* the messages producers may send, each of them once
          Consumers,  \* the consumers that may register
          Accepts     \* <<m, c>>: no required dimension of c rejects m

VARIABLES open,       \* the messages taken in whose fate is not settled
          handed,     \* handed[m]: the consumers m was given to, in order
          discarded,  \* the messages given up
          members     \* the consumers that are registered

vars == <<open, handed, discarded, members>>

Init == /\ open = {}
        /\ handed = [m \in Messages |-> <<>>]
        /\ discarded = {}
        /\ members = {}

Fresh(m) == m \notin open /\ m \notin discarded /\ handed[m] = <<>>

Accept(m) == /\ Fresh(m)
             /\ open' = open \cup {m}
             /\ UNCHANGED <<handed, discarded, members>>

Hand(m, c) == /\ m \in open
              /\ c \in members
              /\ <<m, c>> \in Accepts
              /\ open' = open \ {m}
              /\ handed' = [handed EXCEPT ![m] = <<c>>]
              /\ UNCHANGED <<discarded, members>>

Discard(S) == /\ S \subseteq open
              /\ open' = open \ S
              /\ discarded' = discarded \cup S
              /\ UNCHANGED <<handed, members>>

Join(c) == /\ c \notin members
           /\ members' = members \cup {c}
           /\ UNCHANGED <<open, handed, discarded>>

Leave(c) == /\ c \in members
            /\ members' = members \ {c}
            /\ UNCHANGED <<open, handed, discarded>>

\* The bus is dropped: what is still open is given up, every member leaves.
Close == /\ open' = {}
         /\ discarded' = discarded \cup open
         /\ members' = {}
         /\ UNCHANGED handed

Next == \/ \E m \in Messages : Accept(m)
        \/ \E m \in Messages, c \in Consumers : Hand(m, c)
        \/ \E S \in SUBSET Messages : Discard(S)
        \/ \E c \in Consumers : Join(c) \/ Leave(c)
        \/ Close

Spec == Init /\ [][Next]_vars
=============================================================================
