------------------------- MODULE BusRegistryProofs -------------------------
(***************************************************************************)
(* The registry of Bus is what its owners believe it is, and Bus           *)
(* implements Delivery, for every value of the constants.  Requests are    *)
(* applied later than they are made: the invariant ties each command under *)
(* way to the owner it came from, so that it can hit nobody else.          *)
(***************************************************************************)
EXTENDS BusProofs

Known(c) == caller[c] \in {"in", "leaving", "gone"}

EntriesDiffer ==
  /\ \A e \in registry : e.id < nextId
  /\ \A e, f \in registry : e.id = f.id \/ e.consumer = f.consumer => e = f

IdsKnown ==
  /\ \A c \in Consumers : Known(c) => idOf[c] < nextId
  /\ \A c, d \in Consumers : Known(c) /\ Known(d) /\ idOf[c] = idOf[d] => c = d
  /\ \A e \in registry :
       /\ Known(e.consumer) => e.id = idOf[e.consumer]
       /\ caller[e.consumer] \notin {"out", "registering"}
       /\ \A c \in Consumers : Known(c) /\ idOf[c] = e.id => e.consumer = c

\* Each command comes from its owner, a registration from one call.
CommandsOwned ==
  \A i \in DOMAIN cmds :
    /\ cmds[i].op = "register" =>
         /\ caller[cmds[i].consumer] \in {"awaiting", "abandoned"}
         /\ cmds[i].consumer \notin Registered
         /\ \A j \in DOMAIN cmds :
              cmds[j].op = "register" /\ cmds[j].consumer = cmds[i].consumer => i = j
    /\ cmds[i].op = "deregister" =>
         \E c \in Consumers : caller[c] \in {"leaving", "gone"} /\ cmds[i].id = idOf[c]

InRegistered == \A c \in Consumers :
                  caller[c] = "in" => [id |-> idOf[c], consumer |-> c] \in registry
GoneAsked    == \A c \in Consumers :
                  caller[c] = "gone" /\ c \in Registered =>
                    \E i \in DOMAIN cmds : cmds[i] = [op |-> "deregister", id |-> idOf[c]]

RegInv == /\ TypeOK /\ EntriesDiffer /\ IdsKnown /\ CommandsOwned
          /\ pc # "dropped" => InRegistered /\ GoneAsked
          /\ pc = "dropped" => cmds = <<>> /\ registry = {}

(* Commands keep their type and place, but for the one put in or taken out. *)
LEMMA AppendCommand ==
  ASSUME NEW s \in Seq(Commands), NEW c \in Commands
  PROVE  /\ Len(s) + 1 \notin DOMAIN s /\ DOMAIN Append(s, c) = DOMAIN s \cup {Len(s) + 1}
         /\ Append(s, c)[Len(s) + 1] = c
         /\ \A i \in DOMAIN s : Append(s, c)[i] = s[i]
  OBVIOUS

\* Taking the first command off keeps the others and their order.
LEMMA FirstCommand ==
  ASSUME NEW s \in Seq(Commands), s # <<>>
  PROVE  /\ Head(s) \in Commands /\ Head(s) = s[1] /\ 1 \in DOMAIN s
         /\ \A i \in DOMAIN Tail(s) : /\ i + 1 \in DOMAIN s /\ i + 1 # 1
                                      /\ Tail(s)[i] = s[i + 1]
         /\ \A i, j \in DOMAIN Tail(s) : i + 1 = j + 1 => i = j
         /\ \A i \in DOMAIN s : i # 1 => i - 1 \in DOMAIN Tail(s) /\ Tail(s)[i - 1] = s[i]
  OBVIOUS

\* What the two kinds of commands carry.
LEMMA CommandFields ==
  ASSUME NEW s \in Seq(Commands), NEW i \in DOMAIN s
  PROVE  /\ s[i].op \in {"register", "deregister"}
         /\ s[i].op = "register" => s[i].consumer \in Consumers
         /\ s[i].op = "deregister" => s[i].id \in Nat
<1>1. s[i] \in Commands
  OBVIOUS
<1>. QED BY <1>1 DEF Commands

(* A new entry, by command or directly: its id is new and its consumer was  *)
(* not there.                                                               *)
LEMMA EntryAdded ==
  ASSUME RegInv, NEW c \in Consumers, c \notin Registered, ~Known(c),
         registry' = registry \cup {NewEntry(c)}, nextId' = nextId + 1,
         \/ caller[c] = "abandoned" /\ UNCHANGED <<caller, idOf>>
         \/ /\ caller' = [caller EXCEPT ![c] = "in"]
            /\ idOf' = [idOf EXCEPT ![c] = FreshId]
  PROVE  EntriesDiffer' /\ IdsKnown' /\ Registered' = Registered \cup {c}
<1> DEFINE n == [id |-> nextId, consumer |-> c]
<1>1. /\ registry' = registry \cup {n} /\ n.id = nextId /\ n.consumer = c
      /\ registry \subseteq Entries /\ nextId \in Nat
      /\ caller \in [Consumers -> Places] /\ idOf \in [Consumers -> Nat]
  BY DEF NewEntry, FreshId, RegInv, TypeOK
<1>2. \A e \in registry : /\ e.id \in Nat /\ e.consumer \in Consumers
                          /\ e.id < nextId /\ e.consumer # c
  BY <1>1 DEF RegInv, EntriesDiffer, Registered, Entries
<1> HIDE DEF n
<1>3. EntriesDiffer'
  BY <1>1, <1>2 DEF RegInv, EntriesDiffer
<1>4. \A d \in Consumers : /\ d # c => (Known(d)' <=> Known(d)) /\ idOf'[d] = idOf[d]
                                       /\ caller'[d] = caller[d]
                           /\ Known(c)' => idOf'[c] = nextId
                           /\ caller'[c] \in {"in", "abandoned"}
  BY <1>1 DEF Known, FreshId, Places
<1>5. \A d \in Consumers : Known(d) => idOf[d] < nextId /\ idOf[d] \in Nat
  BY <1>1 DEF RegInv, IdsKnown
<1>6. IdsKnown'
  <2>1. \A d \in Consumers : Known(d)' => idOf'[d] < nextId'
    BY <1>1, <1>4, <1>5
  <2>2. \A d, f \in Consumers : Known(d)' /\ Known(f)' /\ idOf'[d] = idOf'[f] => d = f
    BY <1>1, <1>4, <1>5 DEF RegInv, IdsKnown
  <2>3. ASSUME NEW e \in registry'
        PROVE  /\ Known(e.consumer)' => e.id = idOf'[e.consumer]
               /\ caller'[e.consumer] \notin {"out", "registering"}
               /\ \A d \in Consumers : Known(d)' /\ idOf'[d] = e.id => e.consumer = d
    <3>1. CASE e \in registry
      BY <1>1, <1>2, <1>4, <3>1 DEF RegInv, IdsKnown
    <3>2. CASE e = n
      BY <1>1, <1>4, <1>5, <3>2
    <3>. QED BY <1>1, <3>1, <3>2
  <2>4. \A d, f \in Consumers : (Known(d) /\ Known(f))' = (Known(d)' /\ Known(f)')
    OBVIOUS
  <2>. QED BY <2>1, <2>2, <2>3 DEF IdsKnown, Known
<1>7. Registered' = Registered \cup {c}
  BY <1>1 DEF Registered
<1>. QED BY <1>3, <1>6, <1>7

(* An entry taken out is its owner's and nobody else's.                     *)
LEMMA EntryRemoved ==
  ASSUME RegInv, NEW c \in Consumers, Known(c), registry' = Without(idOf[c]),
         nextId' = nextId
  PROVE  /\ registry' \subseteq registry /\ EntriesDiffer'
         /\ Registered' = Registered \ {c}
         /\ \A e \in registry : e.consumer # c => e \in registry'
<1>1. registry' \subseteq registry /\ registry \subseteq Entries
  BY DEF Without, RegInv, TypeOK
<1>2. \A e \in registry : e.id = idOf[c] <=> e.consumer = c
  BY DEF RegInv, IdsKnown
<1>3. \A e \in registry : e \in registry' <=> e.consumer # c
  BY <1>2 DEF Without
<1>4. Registered' = Registered \ {c}
  BY <1>1, <1>3 DEF Registered
<1>5. EntriesDiffer'
  BY <1>1 DEF RegInv, EntriesDiffer
<1>. QED BY <1>1, <1>3, <1>4, <1>5
-----------------------------------------------------------------------------
\* At most one consumer comes or goes.
OneMoves == \/ UNCHANGED Registered
            \/ \E c \in Consumers :
                 \/ c \notin Registered /\ Registered' = Registered \cup {c}
                 \/ c \in Registered /\ Registered' = Registered \ {c}

(* A command applied late does what its owner asked for, to its owner only. *)
LEMMA ApplyKeeps ==
  ASSUME RegInv, TypeOK', ApplyCmd
  PROVE  RegInv' /\ OneMoves
<1>0. /\ cmds \in Seq(Commands) /\ cmds # <<>> /\ cmds' = Tail(cmds)
      /\ pc' = pc /\ pc # "dropped"
      /\ caller \in [Consumers -> Places] /\ idOf \in [Consumers -> Nat]
  BY DEF ApplyCmd, busState, RegInv, TypeOK
<1>1. /\ Head(cmds) = cmds[1] /\ 1 \in DOMAIN cmds
      /\ \A i \in DOMAIN cmds' : i + 1 \in DOMAIN cmds /\ i + 1 # 1 /\ cmds'[i] = cmds[i + 1]
      /\ \A i, j \in DOMAIN cmds' : i + 1 = j + 1 => i = j
      /\ \A i \in DOMAIN cmds : i # 1 => i - 1 \in DOMAIN cmds' /\ cmds'[i - 1] = cmds[i]
  BY <1>0, FirstCommand
<1>2. EntriesDiffer /\ IdsKnown /\ CommandsOwned /\ InRegistered /\ GoneAsked
  BY <1>0 DEF RegInv
<1>4. CASE Head(cmds).op = "register"
  <2> DEFINE c == Head(cmds).consumer
  <2>1. /\ c \in Consumers /\ caller[c] \in {"awaiting", "abandoned"} /\ c \notin Registered
        /\ \A i \in DOMAIN cmds : i # 1 /\ cmds[i].op = "register" => cmds[i].consumer # c
    <3>1. cmds[1].op = "register" /\ cmds[1].consumer = c
      BY <1>0, <1>1, <1>4
    <3> HIDE DEF c
    <3>2. c \in Consumers
      BY <1>0, <1>1, <3>1, CommandFields
    <3>3. /\ caller[c] \in {"awaiting", "abandoned"} /\ c \notin Registered
          /\ \A j \in DOMAIN cmds : cmds[j].op = "register" /\ cmds[j].consumer = c => 1 = j
      BY <1>1, <1>2, <3>1 DEF CommandsOwned
    <3>. QED BY <3>2, <3>3
  <2>2. ApplyRegister(c)
    BY <1>4 DEF ApplyCmd
  <2> HIDE DEF c
  <2>3. \/ caller[c] = "abandoned" /\ UNCHANGED <<caller, idOf>>
        \/ /\ caller' = [caller EXCEPT ![c] = "in"]
           /\ idOf' = [idOf EXCEPT ![c] = FreshId]
    BY <2>1, <2>2 DEF ApplyRegister
  <2>4. /\ registry' = registry \cup {NewEntry(c)} /\ nextId' = nextId + 1
        /\ ~Known(c)
    BY <2>1, <2>2 DEF ApplyRegister, Known
  <2>5. EntriesDiffer' /\ IdsKnown' /\ Registered' = Registered \cup {c}
    BY <2>1, <2>3, <2>4, EntryAdded
  <2>6. /\ \A d \in Consumers \ {c} : caller'[d] = caller[d] /\ idOf'[d] = idOf[d]
        /\ caller'[c] \in {"in", "abandoned"}
        /\ caller'[c] = "in" => idOf'[c] = FreshId
    BY <1>0, <2>1, <2>3
  <2>7. CommandsOwned'
    <3> SUFFICES ASSUME NEW i \in DOMAIN cmds'
                 PROVE  /\ cmds'[i].op = "register" =>
                             /\ caller'[cmds'[i].consumer] \in {"awaiting", "abandoned"}
                             /\ cmds'[i].consumer \notin Registered'
                             /\ \A j \in DOMAIN cmds' :
                                  cmds'[j].op = "register" /\ cmds'[j].consumer = cmds'[i].consumer
                                    => i = j
                        /\ cmds'[i].op = "deregister" =>
                             \E d \in Consumers : /\ caller'[d] \in {"leaving", "gone"}
                                                 /\ cmds'[i].id = idOf'[d]
      BY DEF CommandsOwned
    <3>1. i + 1 \in DOMAIN cmds /\ i + 1 # 1 /\ cmds'[i] = cmds[i + 1]
      BY <1>1
    <3>2. ASSUME cmds'[i].op = "register"
          PROVE  /\ caller'[cmds'[i].consumer] \in {"awaiting", "abandoned"}
                 /\ cmds'[i].consumer \notin Registered'
                 /\ \A j \in DOMAIN cmds' :
                      cmds'[j].op = "register" /\ cmds'[j].consumer = cmds'[i].consumer
                        => i = j
      <4> DEFINE d == cmds[i + 1].consumer
      <4>0. d \in Consumers /\ cmds[i + 1].op = "register"
        BY <1>0, <3>1, <3>2, CommandFields
      <4>1. /\ d \in Consumers /\ d # c
            /\ caller[d] \in {"awaiting", "abandoned"} /\ d \notin Registered
            /\ \A j \in DOMAIN cmds : cmds[j].op = "register" /\ cmds[j].consumer = d => i + 1 = j
        BY <1>2, <2>1, <3>1, <4>0 DEF CommandsOwned
      <4>2. cmds'[i].consumer = d
        BY <3>1
      <4> HIDE DEF d
      <4>3. \A j \in DOMAIN cmds' :
              cmds'[j].op = "register" /\ cmds'[j].consumer = d => i = j
        BY <1>1, <4>1
      <4>. QED BY <2>5, <2>6, <4>1, <4>2, <4>3
    <3>3. ASSUME cmds'[i].op = "deregister"
          PROVE  \E d \in Consumers : /\ caller'[d] \in {"leaving", "gone"}
                                      /\ cmds'[i].id = idOf'[d]
      <4>1. PICK d \in Consumers : caller[d] \in {"leaving", "gone"} /\ cmds[i + 1].id = idOf[d]
        BY <1>2, <3>1, <3>3 DEF CommandsOwned
      <4>2. d # c
        BY <2>1, <4>1
      <4>. QED BY <2>6, <3>1, <4>1, <4>2
    <3>. QED BY <3>2, <3>3
  <2>8. InRegistered'
    BY <1>2, <2>4, <2>6 DEF InRegistered, NewEntry
  <2>9. GoneAsked'
    <3> SUFFICES ASSUME NEW d \in Consumers, caller'[d] = "gone", d \in Registered'
                 PROVE  \E i \in DOMAIN cmds' : cmds'[i] = [op |-> "deregister", id |-> idOf'[d]]
      BY DEF GoneAsked
    <3>1. d # c /\ caller[d] = "gone" /\ d \in Registered /\ idOf'[d] = idOf[d]
      BY <2>5, <2>6
    <3>2. PICK i \in DOMAIN cmds : cmds[i] = [op |-> "deregister", id |-> idOf[d]]
      BY <1>2, <3>1 DEF GoneAsked
    <3>3. i # 1
      BY <1>1, <1>4, <3>2
    <3>. QED BY <1>1, <3>1, <3>2, <3>3
  <2>10. OneMoves
    BY <2>1, <2>5 DEF OneMoves
  <2>. QED BY <1>0, <2>5, <2>7, <2>8, <2>9, <2>10 DEF RegInv
<1>5. CASE Head(cmds).op # "register"
  <2>1. Head(cmds).op = "deregister"
    <3>1. cmds[1].op # "register"
      BY <1>1, <1>5
    <3>2. cmds[1].op = "deregister"
      BY <1>0, <1>1, <3>1, CommandFields
    <3>. QED BY <1>1, <3>2
  <2>2. PICK c \in Consumers : caller[c] \in {"leaving", "gone"} /\ Head(cmds).id = idOf[c]
    BY <1>1, <1>2, <2>1 DEF CommandsOwned
  <2>3. registry' = Without(idOf[c]) /\ UNCHANGED <<nextId, caller, idOf>>
    BY <1>5, <2>2 DEF ApplyCmd, ApplyDeregister, owners
  <2>4. Known(c)
    BY <2>2 DEF Known
  <2>5. /\ registry' \subseteq registry /\ EntriesDiffer'
        /\ Registered' = Registered \ {c}
        /\ \A e \in registry : e.consumer # c => e \in registry'
    BY <2>3, <2>4, EntryRemoved
  <2>6. IdsKnown'
    BY <1>2, <2>3, <2>5 DEF IdsKnown, Known
  <2>7. CommandsOwned'
    <3> SUFFICES ASSUME NEW i \in DOMAIN cmds'
                 PROVE  /\ cmds'[i].op = "register" =>
                             /\ caller[cmds'[i].consumer] \in {"awaiting", "abandoned"}
                             /\ cmds'[i].consumer \notin Registered'
                             /\ \A j \in DOMAIN cmds' :
                                  cmds'[j].op = "register" /\ cmds'[j].consumer = cmds'[i].consumer
                                    => i = j
                        /\ cmds'[i].op = "deregister" =>
                             \E d \in Consumers : /\ caller[d] \in {"leaving", "gone"}
                                                 /\ cmds'[i].id = idOf[d]
      BY <2>3 DEF CommandsOwned
    <3>1. i + 1 \in DOMAIN cmds /\ cmds'[i] = cmds[i + 1]
      BY <1>1
    <3>. QED BY <1>1, <1>2, <2>5, <3>1 DEF CommandsOwned
  <2>8. InRegistered'
    BY <1>2, <2>2, <2>3, <2>5 DEF InRegistered
  <2>9. GoneAsked'
    <3> SUFFICES ASSUME NEW d \in Consumers, caller[d] = "gone", d \in Registered'
                 PROVE  \E i \in DOMAIN cmds' : cmds'[i] = [op |-> "deregister", id |-> idOf[d]]
      BY <2>3 DEF GoneAsked
    <3>1. d # c /\ d \in Registered /\ Known(d)
      BY <2>5 DEF Known
    <3>2. PICK i \in DOMAIN cmds : cmds[i] = [op |-> "deregister", id |-> idOf[d]]
      BY <1>2, <3>1 DEF GoneAsked
    <3>3. i # 1
      BY <1>1, <1>2, <2>2, <2>4, <3>1, <3>2 DEF IdsKnown
    <3>. QED BY <1>1, <3>2, <3>3
  <2>10. OneMoves
    <3>1. CASE c \in Registered
      BY <2>5, <3>1 DEF OneMoves
    <3>2. CASE c \notin Registered
      <4>1. Registered' = Registered
        BY <2>5, <3>2
      <4>. QED BY <4>1 DEF OneMoves
    <3>. QED BY <3>1, <3>2
  <2>. QED BY <1>0, <2>5, <2>6, <2>7, <2>8, <2>9, <2>10 DEF RegInv
<1>. QED BY <1>4, <1>5

(* A command put on the channel is its owner's. *)
LEMMA SendKeeps ==
  ASSUME RegInv, NEW c \in Consumers, RegisterEnqueue(c) \/ DeregisterEnqueue(c)
  PROVE  CommandsOwned' /\ (pc # "dropped" => InRegistered' /\ GoneAsked')
<1>0. /\ cmds \in Seq(Commands) /\ caller \in [Consumers -> Places]
      /\ idOf \in [Consumers -> Nat]
      /\ UNCHANGED <<registry, idOf, pc>>
      /\ \A d \in Consumers \ {c} : caller'[d] = caller[d]
      /\ Registered' = Registered
  BY DEF RegInv, TypeOK, RegisterEnqueue, DeregisterEnqueue, busState, Registered
<1>1. CommandsOwned /\ IdsKnown
  BY DEF RegInv
<1>2. ASSUME NEW k \in Commands, cmds' = Append(cmds, k), pc # "dropped",
             \/ /\ caller[c] = "registering" /\ caller'[c] = "awaiting"
                /\ k = [op |-> "register", consumer |-> c]
             \/ /\ caller[c] = "leaving" /\ caller'[c] = "gone"
                /\ k = [op |-> "deregister", id |-> idOf[c]]
      PROVE  CommandsOwned' /\ InRegistered' /\ GoneAsked'
  <2> DEFINE n == Len(cmds) + 1
  <2>1. /\ n \notin DOMAIN cmds /\ DOMAIN cmds' = DOMAIN cmds \cup {n}
        /\ cmds'[n] = k
        /\ \A i \in DOMAIN cmds : cmds'[i] = cmds[i]
    BY <1>0, <1>2, AppendCommand
  <2> HIDE DEF n
  <2>2. \A i \in DOMAIN cmds : cmds[i].op = "register" =>
          /\ cmds[i].consumer # c /\ cmds[i].consumer \in Consumers
    BY <1>0, <1>1, <1>2, CommandFields DEF CommandsOwned
  <2>3. c \notin Registered \/ caller[c] = "leaving"
    BY <1>1, <1>2 DEF IdsKnown, Registered
  <2>4. ASSUME NEW i \in DOMAIN cmds
        PROVE  /\ cmds'[i].op = "register" =>
                    /\ caller'[cmds'[i].consumer] \in {"awaiting", "abandoned"}
                    /\ cmds'[i].consumer \notin Registered'
                    /\ \A j \in DOMAIN cmds' :
                         cmds'[j].op = "register" /\ cmds'[j].consumer = cmds'[i].consumer
                           => i = j
               /\ cmds'[i].op = "deregister" =>
                    \E d \in Consumers : caller'[d] \in {"leaving", "gone"} /\ cmds'[i].id = idOf'[d]
    <3>1. cmds'[i] = cmds[i]
      BY <2>1
    <3>2. ASSUME cmds[i].op = "register"
          PROVE  /\ caller'[cmds[i].consumer] \in {"awaiting", "abandoned"}
                 /\ cmds[i].consumer \notin Registered'
                 /\ \A j \in DOMAIN cmds' :
                      cmds'[j].op = "register" /\ cmds'[j].consumer = cmds[i].consumer => i = j
      <4>1. /\ caller'[cmds[i].consumer] \in {"awaiting", "abandoned"}
            /\ cmds[i].consumer \notin Registered'
        BY <1>0, <1>1, <2>2, <3>2 DEF CommandsOwned
      <4>2. ASSUME NEW j \in DOMAIN cmds', cmds'[j].op = "register",
                   cmds'[j].consumer = cmds[i].consumer
            PROVE  i = j
        <5>1. CASE j \in DOMAIN cmds
          BY <1>1, <2>1, <3>2, <4>2, <5>1 DEF CommandsOwned
        <5>2. CASE j = n
          BY <1>2, <2>1, <2>2, <3>2, <4>2, <5>2
        <5>. QED BY <2>1, <5>1, <5>2
      <4>. QED BY <4>1, <4>2
    <3>3. ASSUME cmds[i].op = "deregister"
          PROVE  \E d \in Consumers : caller'[d] \in {"leaving", "gone"} /\ cmds[i].id = idOf'[d]
      <4>1. PICK d \in Consumers : caller[d] \in {"leaving", "gone"} /\ cmds[i].id = idOf[d]
        BY <1>1, <3>3 DEF CommandsOwned
      <4>2. caller'[d] \in {"leaving", "gone"}
        BY <1>0, <1>2, <4>1
      <4>. QED BY <1>0, <4>1, <4>2
    <3>. QED BY <3>1, <3>2, <3>3
  <2>5. /\ cmds'[n].op = "register" =>
             /\ caller'[cmds'[n].consumer] \in {"awaiting", "abandoned"}
             /\ cmds'[n].consumer \notin Registered'
             /\ \A j \in DOMAIN cmds' :
                  cmds'[j].op = "register" /\ cmds'[j].consumer = cmds'[n].consumer => n = j
        /\ cmds'[n].op = "deregister" =>
             \E d \in Consumers : caller'[d] \in {"leaving", "gone"} /\ cmds'[n].id = idOf'[d]
    <3>1. CASE k.op = "register"
      <4>1. k.consumer = c /\ caller'[c] = "awaiting" /\ c \notin Registered'
        BY <1>0, <1>2, <2>3, <3>1
      <4>2. \A j \in DOMAIN cmds : cmds'[j] = cmds[j] /\ (cmds[j].op = "register" => cmds[j].consumer # c)
        BY <2>1, <2>2
      <4>. QED BY <2>1, <3>1, <4>1, <4>2
    <3>2. CASE k.op = "deregister"
      <4>1. k.id = idOf'[c] /\ caller'[c] = "gone"
        BY <1>0, <1>2, <3>2
      <4>. QED BY <2>1, <3>2, <4>1
    <3>3. k.op \in {"register", "deregister"}
      BY <1>2
    <3>. QED BY <3>1, <3>2, <3>3
  <2>6. CommandsOwned'
    BY <2>1, <2>4, <2>5 DEF CommandsOwned
  <2>7. InRegistered'
    BY <1>0, <1>2 DEF RegInv, InRegistered
  <2>8. GoneAsked'
    <3> SUFFICES ASSUME NEW d \in Consumers, caller'[d] = "gone", d \in Registered
                 PROVE  \E i \in DOMAIN cmds' : cmds'[i] = [op |-> "deregister", id |-> idOf[d]]
      BY <1>0 DEF GoneAsked
    <3>1. CASE d = c
      BY <1>2, <2>1, <3>1
    <3>2. CASE d # c
      <4>1. PICK i \in DOMAIN cmds : cmds[i] = [op |-> "deregister", id |-> idOf[d]]
        BY <1>0, <1>2, <3>2 DEF RegInv, GoneAsked
      <4>. QED BY <2>1, <4>1
    <3>. QED BY <3>1, <3>2
  <2>. QED BY <2>6, <2>7, <2>8
<1>3. CASE RegisterEnqueue(c)
  <2>1. [op |-> "register", consumer |-> c] \in Commands
    BY DEF Commands
  <2>. QED BY <1>0, <1>2, <1>3, <2>1 DEF RegisterEnqueue
<1>4. CASE DeregisterEnqueue(c) /\ pc # "dropped"
  <2>1. [op |-> "deregister", id |-> idOf[c]] \in Commands
    BY <1>0 DEF Commands
  <2>. QED BY <1>0, <1>2, <1>4, <2>1 DEF DeregisterEnqueue
<1>5. CASE DeregisterEnqueue(c) /\ pc = "dropped"
  <2>1. cmds = <<>> /\ cmds' = <<>>
    BY <1>5 DEF RegInv, DeregisterEnqueue
  <2>. QED BY <1>5, <2>1 DEF CommandsOwned, RegInv
<1>. QED BY <1>3, <1>4, <1>5
(* Owners that ask, give up or fail, and those that use the bus directly. *)
LEMMA OwnerKeeps ==
  ASSUME RegInv, TypeOK', NEW c \in Consumers, Owner(c)
  PROVE  RegInv' /\ OneMoves
<1>0. /\ UNCHANGED pc /\ caller \in [Consumers -> Places] /\ idOf \in [Consumers -> Nat]
      /\ cmds \in Seq(Commands)
      /\ EntriesDiffer /\ IdsKnown /\ CommandsOwned
      /\ pc # "dropped" => InRegistered /\ GoneAsked
      /\ pc = "dropped" => cmds = <<>> /\ registry = {}
  BY DEF Owner, RegisterCall, RegisterEnqueue, RegisterFail, RegisterAbandon,
         RegisterDirect, DeregisterCall, DeregisterEnqueue, DeregisterDirect, busState,
         RegInv, TypeOK
<1>1. \A i \in DOMAIN cmds : cmds[i].op = "register" => cmds[i].consumer \in Consumers
  BY <1>0, CommandFields
<1>2. \A e \in registry : e.consumer \in Consumers
  BY DEF RegInv, TypeOK, Entries
<1>3. CASE RegisterCall(c) \/ RegisterFail(c) \/ RegisterAbandon(c) \/ DeregisterCall(c)
  <2>1. /\ UNCHANGED <<cmds, registry, nextId, idOf>>
        /\ \/ caller[c] = "out" /\ caller' = [caller EXCEPT ![c] = "registering"]
           \/ /\ pc = "dropped" /\ caller[c] \in {"registering", "awaiting"}
              /\ caller' = [caller EXCEPT ![c] = "failed"]
           \/ caller[c] = "awaiting" /\ caller' = [caller EXCEPT ![c] = "abandoned"]
           \/ caller[c] \in {"in", "gone"} /\ caller' = [caller EXCEPT ![c] = "leaving"]
    BY <1>3 DEF RegisterCall, RegisterFail, RegisterAbandon, DeregisterCall
  <2>2. \A d \in Consumers \ {c} : caller'[d] = caller[d]
    BY <1>0, <2>1
  <2>3. /\ Known(c)' => Known(c)
        /\ \A d \in Consumers : Known(d)' => Known(d)
    BY <1>0, <2>1, <2>2 DEF Known
  <2>4. Registered' = Registered /\ EntriesDiffer'
    BY <1>0, <2>1 DEF Registered, EntriesDiffer
  <2>5. /\ \A e \in registry : caller'[e.consumer] \notin {"out", "registering"}
        /\ \A d \in Consumers : /\ caller[d] \in {"leaving", "gone"} => caller'[d] \in {"leaving", "gone"}
                               /\ caller'[d] \in {"in", "gone"} => caller'[d] = caller[d]
    BY <1>0, <1>2, <2>1, <2>2 DEF IdsKnown
  <2>6. IdsKnown'
    <3>1. /\ \A d \in Consumers : Known(d)' => idOf'[d] < nextId'
          /\ \A d, e \in Consumers : Known(d)' /\ Known(e)' /\ idOf'[d] = idOf'[e] => d = e
      BY <1>0, <2>1, <2>3 DEF IdsKnown
    <3>2. \A e \in registry' :
             /\ Known(e.consumer)' => e.id = idOf'[e.consumer]
             /\ caller'[e.consumer] \notin {"out", "registering"}
             /\ \A d \in Consumers : Known(d)' /\ idOf'[d] = e.id => e.consumer = d
      BY <1>0, <1>2, <2>1, <2>3, <2>5 DEF IdsKnown
    <3>. QED BY <3>1, <3>2 DEF IdsKnown, Known
  <2>7. CommandsOwned'
    <3>1. CASE pc = "dropped"
      BY <1>0, <2>1, <3>1 DEF CommandsOwned
    <3>2. CASE pc # "dropped"
      <4>1. \A d \in Consumers : caller[d] \in {"awaiting", "abandoned"} =>
                                  caller'[d] \in {"awaiting", "abandoned"}
        BY <1>0, <2>1, <2>2, <3>2
      <4>. QED BY <1>0, <1>1, <2>1, <2>4, <2>5, <4>1 DEF CommandsOwned
    <3>. QED BY <3>1, <3>2
  <2>8. pc # "dropped" => InRegistered' /\ GoneAsked'
    BY <1>0, <2>1, <2>4, <2>5 DEF InRegistered, GoneAsked
  <2>. QED BY <1>0, <2>1, <2>4, <2>6, <2>7, <2>8 DEF RegInv, OneMoves
<1>4. CASE RegisterEnqueue(c) \/ DeregisterEnqueue(c)
  <2>1. CommandsOwned' /\ (pc # "dropped" => InRegistered' /\ GoneAsked')
    BY <1>4, SendKeeps
  <2>2. /\ UNCHANGED <<registry, nextId, idOf>>
        /\ \/ caller[c] = "registering" /\ caller' = [caller EXCEPT ![c] = "awaiting"]
           \/ caller[c] = "leaving" /\ caller' = [caller EXCEPT ![c] = "gone"]
        /\ pc = "dropped" => cmds' = cmds
    BY <1>4 DEF RegisterEnqueue, DeregisterEnqueue
  <2>3. \A d \in Consumers : /\ Known(d)' = Known(d)
                             /\ caller'[d] \in {"out", "registering"} => caller'[d] = caller[d]
    BY <1>0, <2>2 DEF Known
  <2>4. EntriesDiffer' /\ Registered' = Registered
    BY <1>0, <2>2 DEF EntriesDiffer, Registered
  <2>5. IdsKnown'
    <3>1. /\ \A d \in Consumers : Known(d)' => idOf'[d] < nextId'
          /\ \A d, e \in Consumers : Known(d)' /\ Known(e)' /\ idOf'[d] = idOf'[e] => d = e
      BY <1>0, <2>2, <2>3 DEF IdsKnown
    <3>2. \A e \in registry' :
             /\ Known(e.consumer)' => e.id = idOf'[e.consumer]
             /\ caller'[e.consumer] \notin {"out", "registering"}
             /\ \A d \in Consumers : Known(d)' /\ idOf'[d] = e.id => e.consumer = d
      BY <1>0, <1>2, <2>2, <2>3 DEF IdsKnown
    <3>. QED BY <3>1, <3>2 DEF IdsKnown, Known
  <2>. QED BY <1>0, <2>1, <2>2, <2>4, <2>5 DEF RegInv, OneMoves
<1>5. CASE RegisterDirect(c)
  <2>1. /\ pc = "idle" /\ caller[c] = "out" /\ UNCHANGED cmds
        /\ registry' = registry \cup {NewEntry(c)} /\ nextId' = nextId + 1
        /\ caller' = [caller EXCEPT ![c] = "in"]
        /\ idOf' = [idOf EXCEPT ![c] = FreshId]
    BY <1>5 DEF RegisterDirect
  <2>2. c \notin Registered /\ ~Known(c)
    BY <1>0, <2>1 DEF IdsKnown, Registered, Known
  <2>3. EntriesDiffer' /\ IdsKnown' /\ Registered' = Registered \cup {c}
    BY <2>1, <2>2, EntryAdded
  <2>4. \A d \in Consumers \ {c} : caller'[d] = caller[d] /\ idOf'[d] = idOf[d]
    BY <1>0, <2>1
  <2>5. /\ \A i \in DOMAIN cmds : cmds[i].op = "register" => cmds[i].consumer # c
        /\ \A d \in Consumers : caller[d] \in {"leaving", "gone"} => d # c
    BY <1>0, <2>1 DEF CommandsOwned
  <2>6. CommandsOwned'
    BY <1>0, <1>1, <2>1, <2>3, <2>4, <2>5 DEF CommandsOwned
  <2>7. InRegistered' /\ GoneAsked'
    <3>1. caller'[c] = "in" /\ idOf'[c] = FreshId
      BY <1>0, <2>1
    <3>. QED BY <1>0, <2>1, <2>3, <2>4, <3>1 DEF InRegistered, GoneAsked, NewEntry
  <2>8. OneMoves
    BY <2>2, <2>3 DEF OneMoves
  <2>. QED BY <1>0, <2>1, <2>2, <2>3, <2>6, <2>7, <2>8 DEF RegInv
<1>6. CASE DeregisterDirect(c)
  <2>1. /\ pc = "idle" /\ Known(c) /\ UNCHANGED <<cmds, nextId, idOf>>
        /\ registry' = Without(idOf[c]) /\ caller' = [caller EXCEPT ![c] = "gone"]
    BY <1>6 DEF DeregisterDirect, Known
  <2>2. /\ registry' \subseteq registry /\ EntriesDiffer'
        /\ Registered' = Registered \ {c}
        /\ \A e \in registry : e.consumer # c => e \in registry'
    BY <2>1, EntryRemoved
  <2>3. /\ \A d \in Consumers \ {c} : caller'[d] = caller[d]
        /\ caller'[c] = "gone" /\ caller[c] \notin {"awaiting", "abandoned"}
        /\ \A d \in Consumers : Known(d)' = Known(d)
    BY <1>0, <2>1 DEF Known
  <2>4. IdsKnown'
    <3>1. /\ \A d \in Consumers : Known(d)' => idOf'[d] < nextId'
          /\ \A d, e \in Consumers : Known(d)' /\ Known(e)' /\ idOf'[d] = idOf'[e] => d = e
      BY <1>0, <2>1, <2>3 DEF IdsKnown
    <3>2. \A e \in registry' :
             /\ Known(e.consumer)' => e.id = idOf'[e.consumer]
             /\ caller'[e.consumer] \notin {"out", "registering"}
             /\ \A d \in Consumers : Known(d)' /\ idOf'[d] = e.id => e.consumer = d
      BY <1>0, <1>2, <2>1, <2>2, <2>3 DEF IdsKnown
    <3>. QED BY <3>1, <3>2 DEF IdsKnown, Known
  <2>5. CommandsOwned'
    <3>1. \A d \in Consumers : /\ caller[d] \in {"awaiting", "abandoned"} => caller'[d] = caller[d]
                               /\ caller[d] \in {"leaving", "gone"} => caller'[d] \in {"leaving", "gone"}
      BY <2>3
    <3>. QED BY <1>0, <1>1, <2>1, <2>2, <3>1 DEF CommandsOwned
  <2>6. InRegistered' /\ GoneAsked'
    BY <1>0, <2>1, <2>2, <2>3 DEF InRegistered, GoneAsked
  <2>7. OneMoves
    <3>1. CASE c \in Registered
      BY <2>2, <3>1 DEF OneMoves
    <3>2. CASE c \notin Registered
      <4>1. Registered' = Registered
        BY <2>2, <3>2
      <4>. QED BY <4>1 DEF OneMoves
    <3>. QED BY <3>1, <3>2
  <2>. QED BY <1>0, <2>1, <2>2, <2>4, <2>5, <2>6, <2>7 DEF RegInv
<1>. QED BY <1>3, <1>4, <1>5, <1>6 DEF Owner

(* Everything else leaves the registry, the commands and the owners alone, *)
(* but for the bus itself going away.                                      *)
LEMMA RegStep == RegInv /\ AwaitsInLoop /\ [Next]_vars => RegInv' /\ (OneMoves \/ DropBus)
<1> SUFFICES ASSUME RegInv, AwaitsInLoop, [Next]_vars PROVE RegInv' /\ (OneMoves \/ DropBus)
  OBVIOUS
<1>0. TypeOK'
  BY TypeStep DEF RegInv
<1>1. ASSUME UNCHANGED <<cmds, registry, nextId, caller, idOf>>,
             pc' = pc \/ (pc # "dropped" /\ pc' # "dropped")
      PROVE  RegInv' /\ OneMoves
  <2>1. /\ EntriesDiffer' /\ CommandsOwned' /\ InRegistered' = InRegistered
        /\ GoneAsked' = GoneAsked /\ Registered' = Registered
    BY <1>1 DEF RegInv, EntriesDiffer, CommandsOwned, InRegistered, GoneAsked, Registered
  <2>2. IdsKnown'
    BY <1>1 DEF RegInv, IdsKnown, Known
  <2>. QED BY <1>0, <1>1, <2>1, <2>2 DEF RegInv, OneMoves
<1>2. ASSUME NEW m \in Messages, Producer(m) \/ RelayCall(m) PROVE RegInv' /\ OneMoves
  BY <1>1, <1>2
  DEF Producer, TrySend, SendCall, SendEnqueue, SendFail, Enqueue, Refuse, RelayCall,
      loopState, owners, Untouched
<1>3. ASSUME NEW c \in Consumers, Owner(c) PROVE RegInv' /\ OneMoves
  BY <1>0, <1>3, OwnerKeeps
<1>4. CASE DrainCmd \/ DispatchCmd
  BY <1>0, <1>4, ApplyKeeps DEF DrainCmd, DispatchCmd
<1>5. CASE StartDrain \/ RetryDone \/ DrainDone \/ StartDispatch \/ DrainTakePending
  BY <1>1, <1>5
  DEF StartDrain, RetryDone, DrainDone, StartDispatch, DrainTakePending, Goto, owners
<1>6. CASE RetryNext \/ DrainReceive \/ DispatchReceive
  BY <1>1, <1>6 DEF RetryNext, DrainReceive, DispatchReceive, Receive, Route, owners
<1>7. CASE ConsumeDone
  BY <1>1, <1>7 DEF ConsumeDone, Untouched, owners
<1>8. CASE Cancel
  <2>1. pc # "dropped"
    BY <1>8 DEF Cancel, AwaitsInLoop
  <2>. QED BY <1>1, <1>8, <2>1 DEF Cancel, Untouched, owners
<1>9. CASE DropBus
  <2>1. /\ cmds' = <<>> /\ registry' = {} /\ pc' = "dropped"
        /\ UNCHANGED <<nextId, caller, idOf>>
    BY <1>9 DEF DropBus, owners
  <2>2. EntriesDiffer' /\ CommandsOwned'
    BY <2>1 DEF EntriesDiffer, CommandsOwned
  <2>3. IdsKnown'
    BY <2>1 DEF RegInv, IdsKnown, Known
  <2>. QED BY <1>0, <1>9, <2>1, <2>2, <2>3 DEF RegInv
<1>10. CASE UNCHANGED vars
  BY <1>1, <1>10 DEF vars, owners
<1>. QED BY <1>2, <1>3, <1>4, <1>5, <1>6, <1>7, <1>8, <1>9, <1>10
         DEF Next, Drain, Dispatch

\* Nobody is registered at first and no command is under way.
LEMMA RegInit == Init => RegInv
<1> SUFFICES ASSUME Init PROVE RegInv
  OBVIOUS
<1>1. TypeOK
  BY CapacityAssumption
  DEF Init, TypeOK, Stages, Statuses, Places, Entries, Commands
<1>2. EntriesDiffer /\ CommandsOwned
  BY DEF Init, EntriesDiffer, CommandsOwned
<1>3. IdsKnown
  BY DEF Init, IdsKnown, Known
<1>4. pc # "dropped" /\ InRegistered /\ GoneAsked
  BY DEF Init, InRegistered, GoneAsked, Registered
<1>. QED BY <1>1, <1>2, <1>3, <1>4 DEF RegInv

\* The invariant of the registry holds in every state.
LEMMA RegHolds == Spec => []RegInv
<1>1. RegInv /\ AwaitsInLoop /\ [Next]_vars => RegInv'
  BY RegStep
<1>2. Fate => AwaitsInLoop
  BY DEF Fate
<1>. QED BY <1>1, <1>2, RegInit, FateHolds, PTL DEF Spec

(* The registry is what the owners believe it is: ids are never shared,    *)
(* nobody is removed by somebody else's request, late or repeated, and a   *)
(* removal that was asked for is done or still queued.                     *)
THEOREM RegistrationViewTheorem == Spec => []RegistrationView
<1>1. RegInv => RegistrationView
  BY DEF RegInv, EntriesDiffer, InRegistered, GoneAsked, RegistrationView
<1>. QED BY <1>1, RegHolds, PTL

-----------------------------------------------------------------------------
(* The refinement.  A message is open exactly when it was accepted and     *)
(* neither handed over nor discarded: what becomes of the open messages is *)
(* then read off the two, and no longer off three queues.                  *)

Unsettled == {m \in Messages : status[m] = "accepted" /\ handed[m] = <<>>}
Discarded == {m \in Messages : status[m] \in {"evicted", "lost"}}

\* Being in some queue is the same as having no fate yet.
LEMMA OpenIsUnsettled ==
  ASSUME OneFate, OneFate'
  PROVE  Open = Unsettled /\ Open' = Unsettled'
  BY DEF OneFate, Open, Unsettled

\* Steps that settle no message and move at most one consumer.
LEMMA MemberStep ==
  ASSUME OneFate, OneFate', OneMoves, UNCHANGED handed,
         \A m \in Messages :
           status'[m] = status[m]
             \/ {status[m], status'[m]} \cap {"accepted", "evicted", "lost"} = {}
  PROVE  [Abstract!Next]_(Abstract!vars)
<1>1. Open = Unsettled /\ Open' = Unsettled'
  BY OpenIsUnsettled
<1>2. UNCHANGED <<Open, Discarded>>
  BY <1>1 DEF Unsettled, Discarded
<1>3. CASE UNCHANGED Registered
  BY <1>2, <1>3 DEF Abstract!vars, Discarded
<1>4. ASSUME NEW c \in Consumers,
             \/ c \notin Registered /\ Registered' = Registered \cup {c}
             \/ c \in Registered /\ Registered' = Registered \ {c}
      PROVE  Abstract!Join(c) \/ Abstract!Leave(c)
  BY <1>2, <1>4 DEF Abstract!Join, Abstract!Leave, Discarded
<1>. QED BY <1>3, <1>4 DEF OneMoves, Abstract!Next

\* Every step of the bus is one of Delivery's, or changes nothing it sees.
LEMMA DeliveryStep ==
  ASSUME Fate, Fate', RegInv, [Next]_vars
  PROVE  [Abstract!Next]_(Abstract!vars)
<1>0. /\ OneFate /\ OneFate'
      /\ status \in [Messages -> Statuses] /\ handed \in [Messages -> Seq(Consumers)]
      /\ Open = Unsettled /\ Open' = Unsettled'
  BY OpenIsUnsettled DEF Fate, TypeOK
<1>1. ASSUME NEW m \in Messages, Producer(m) PROVE [Abstract!Next]_(Abstract!vars)
  <2>1. CASE Enqueue(m)
    <3>1. status[m] \in {"new", "sending"}
      BY <1>1, <2>1
      DEF Producer, TrySend, SendCall, SendEnqueue, SendFail, Enqueue, Refuse
    <3>2. /\ status' = Mark({m}, "accepted") /\ UNCHANGED <<handed, Registered>>
      BY <2>1 DEF Enqueue, loopState, Registered
    <3>3. handed[m] = <<>> /\ m \notin Open /\ m \notin Discarded
      <4>1. status[m] \notin {"accepted", "evicted", "lost"}
        BY <3>1
      <4>2. handed[m] = <<>>
        BY <1>0, <4>1 DEF OneFate
      <4>. QED BY <1>0, <4>1, <4>2 DEF Unsettled, Discarded
    <3>4. Open' = Open \cup {m} /\ Discarded' = Discarded
      BY <1>0, <3>1, <3>2, <3>3 DEF Mark, Unsettled, Discarded
    <3>5. Abstract!Accept(m)
      BY <3>2, <3>3, <3>4 DEF Abstract!Accept, Abstract!Fresh, Discarded
    <3>. QED BY <3>5 DEF Abstract!Next
  <2>2. CASE SendCall(m) \/ (Refuse(m) /\ status[m] \in {"new", "sending"})
    <3>1. UNCHANGED <<handed, registry>>
      BY <2>2 DEF SendCall, Refuse, loopState
    <3>2. \A x \in Messages :
            \/ status'[x] = status[x]
            \/ {status[x], status'[x]} \cap {"accepted", "evicted", "lost"} = {}
      BY <2>2 DEF SendCall, Refuse, Mark
    <3>3. OneMoves
      BY <3>1 DEF OneMoves, Registered
    <3>4. UNCHANGED handed
      BY <3>1
    <3>. QED BY <1>0, <3>2, <3>3, <3>4, MemberStep
  <2>. QED BY <1>1, <2>1, <2>2 DEF Producer, TrySend, SendEnqueue, SendFail
<1>2. ASSUME NEW m \in Messages, RelayCall(m) PROVE [Abstract!Next]_(Abstract!vars)
  <2>1. UNCHANGED <<handed, registry>>
    BY <1>2 DEF RelayCall, Untouched
  <2>2. \A x \in Messages :
          \/ status'[x] = status[x]
          \/ {status[x], status'[x]} \cap {"accepted", "evicted", "lost"} = {}
    BY <1>2 DEF RelayCall, Mark
  <2>3. OneMoves
    BY <2>1 DEF OneMoves, Registered
  <2>4. UNCHANGED handed
    BY <2>1
  <2>. QED BY <1>0, <2>2, <2>3, <2>4, MemberStep
<1>3. ASSUME UNCHANGED <<status, handed>>, OneMoves PROVE [Abstract!Next]_(Abstract!vars)
  <2>1. UNCHANGED handed /\ \A m \in Messages : status'[m] = status[m]
    BY <1>3
  <2>. QED BY <1>0, <1>3, <2>1, MemberStep
<1>4. ASSUME NEW c \in Consumers, Owner(c) PROVE [Abstract!Next]_(Abstract!vars)
  <2>1. UNCHANGED <<status, handed, pc>>
    BY <1>4 DEF Owner, RegisterCall, RegisterEnqueue, RegisterFail,
                RegisterAbandon, RegisterDirect, DeregisterCall,
                DeregisterEnqueue, DeregisterDirect, busState, traffic
  <2>2. TypeOK'
    BY DEF Fate
  <2>. QED BY <1>3, <1>4, <2>1, <2>2, OwnerKeeps
<1>5. CASE DrainCmd \/ DispatchCmd
  <2>1. UNCHANGED <<status, handed>> /\ ApplyCmd
    BY <1>5 DEF DrainCmd, DispatchCmd, ApplyCmd, busState, traffic
  <2>2. TypeOK'
    BY DEF Fate
  <2>. QED BY <1>3, <2>1, <2>2, ApplyKeeps
<1>6. CASE StartDrain \/ RetryDone \/ DrainDone \/ StartDispatch \/ DrainTakePending
        \/ ConsumeDone
  <2>1. UNCHANGED <<status, handed, registry>>
    BY <1>6 DEF StartDrain, RetryDone, DrainDone, StartDispatch, DrainTakePending, Goto,
                ConsumeDone, Untouched, traffic
  <2>. QED BY <1>3, <2>1 DEF OneMoves, Registered
<1>7. ASSUME NEW m \in Open, Route(m) PROVE [Abstract!Next]_(Abstract!vars)
  <2>0. /\ m \in Messages /\ status[m] = "accepted" /\ handed[m] = <<>>
        /\ Registered' = Registered
    BY <1>0, <1>7 DEF Unsettled, Route, Registered
  <2>1. CASE Hand(m)
    <3>1. PICK c \in Qualified(m) : handed' = [handed EXCEPT ![m] = Append(@, c)]
      BY <2>1 DEF Hand
    <3>2. c \in Registered /\ <<m, c>> \in Accepts /\ c \in Consumers
      BY AcceptsAssumption DEF Qualified, Registered, RegInv, TypeOK, Entries
    <3>3. handed' = [handed EXCEPT ![m] = <<c>>] /\ handed'[m] = <<c>>
      BY <1>0, <2>0, <3>1, <3>2
    <3>4. status' = status /\ Discarded' = Discarded
      BY <2>1 DEF Hand, Discarded
    <3>5. Open' = Open \ {m}
      BY <1>0, <2>0, <3>3, <3>4 DEF Unsettled
    <3>6. Abstract!Hand(m, c)
      BY <1>7, <2>0, <3>2, <3>3, <3>4, <3>5 DEF Abstract!Hand, Discarded
    <3>. QED BY <2>0, <3>2, <3>6 DEF Abstract!Next
  <2>2. CASE Hold(m)
    <3>1. status' = Mark(Evicted, "evicted") /\ handed' = handed
      BY <2>2 DEF Hold, PushPending
    <3>2. Evicted \subseteq Open
      <4>1. pending # <<>> => Head(pending) \in Open
        <5>1. pending \in Seq(Messages)
          BY DEF Fate, TypeOK
        <5>2. pending # <<>> => Head(pending) \in Messages /\ Head(pending) \in ToSet(pending)
          BY <5>1 DEF ToSet
        <5>. QED BY <5>2 DEF Open, Queued
      <4>. QED BY <4>1 DEF Evicted, Full
    <3>3. Open' = Open \ Evicted /\ Discarded' = Discarded \cup Evicted
      BY <1>0, <3>1, <3>2 DEF Unsettled, Discarded, Mark
    <3>4. Abstract!Discard(Evicted)
      BY <2>0, <3>1, <3>2, <3>3 DEF Abstract!Discard, Discarded
    <3>5. Evicted \in SUBSET Messages
      BY <3>2 DEF Open
    <3>6. \E S \in SUBSET Messages : Abstract!Discard(S)
      BY <3>4, <3>5 DEF Abstract!Discard
    <3>. QED BY <3>6 DEF Abstract!Next
  <2>. QED BY <1>7, <2>1, <2>2 DEF Route
<1>8. CASE RetryNext \/ DrainReceive \/ DispatchReceive
  <2>1. /\ batch \in Seq(Messages) /\ chan \in Seq(Messages)
    BY DEF Fate, TypeOK
  <2>2. /\ batch # <<>> => Head(batch) \in ToSet(batch) /\ Head(batch) \in Messages
        /\ chan # <<>> => Head(chan) \in ToSet(chan) /\ Head(chan) \in Messages
    BY <2>1 DEF ToSet
  <2>3. \E m \in Open : Route(m)
    BY <1>8, <2>2 DEF RetryNext, DrainReceive, DispatchReceive, Receive, Open, Queued
  <2>. QED BY <1>7, <2>3
<1>9. CASE Cancel
  <2>1. /\ UNCHANGED <<handed, registry>>
        /\ status' = [m \in Messages |->
                         IF m \in ToSet(batch) THEN "lost"
                         ELSE IF RelayBlocked /\ m = relay THEN "refused"
                         ELSE status[m]]
    BY <1>9 DEF Cancel, Untouched
  <2>2. ToSet(batch) \subseteq Open
    <3>1. ToSet(batch) \subseteq Messages
      BY ToSetType DEF Fate, TypeOK
    <3>. QED BY <3>1 DEF Open, Queued
  <2>3. RelayBlocked => status[relay] = "sending"
    BY DEF RelayBlocked
  <2>4. /\ Open' = Open \ ToSet(batch)
        /\ Discarded' = Discarded \cup ToSet(batch)
    BY <1>0, <2>1, <2>2, <2>3 DEF Unsettled, Discarded
  <2>5. Abstract!Discard(ToSet(batch))
    BY <2>1, <2>2, <2>4 DEF Abstract!Discard, Discarded, Registered
  <2>6. ToSet(batch) \in SUBSET Messages
    BY <2>2 DEF Open
  <2>7. \E S \in SUBSET Messages : Abstract!Discard(S)
    BY <2>5, <2>6 DEF Abstract!Discard
  <2>. QED BY <2>7 DEF Abstract!Next
<1>10. CASE DropBus
  <2>1. /\ status' = Mark(Open, "lost") /\ handed' = handed /\ registry' = {}
    BY <1>10 DEF DropBus
  <2>2. Open' = {} /\ Discarded' = Discarded \cup Open /\ Registered' = {}
    BY <1>0, <2>1 DEF Unsettled, Discarded, Mark, Registered
  <2>3. Abstract!Close
    BY <2>1, <2>2 DEF Abstract!Close, Discarded
  <2>. QED BY <2>3 DEF Abstract!Next
<1>11. CASE UNCHANGED vars
  BY <1>3, <1>11 DEF vars, traffic, OneMoves, Registered
<1>. QED BY <1>1, <1>2, <1>4, <1>5, <1>6, <1>8, <1>9, <1>10, <1>11
         DEF Next, Drain, Dispatch

(* The bus does what Delivery promises of it: each message it took in has  *)
(* at most one fate, and goes to at most one consumer, one that was        *)
(* registered when it was given and that none of its needs reject.         *)
THEOREM BusImplementsDelivery == Spec => DeliversAtMostOnce
<1>1. Init => Abstract!Init
  BY ToSetEmpty DEF Init, Abstract!Init, Open, Queued, Registered
<1>2. Fate /\ Fate' /\ RegInv /\ [Next]_vars => [Abstract!Next]_(Abstract!vars)
  BY DeliveryStep
<1>. QED BY <1>1, <1>2, FateHolds, RegHolds, PTL DEF Spec, DeliversAtMostOnce, Abstract!Spec
=============================================================================
