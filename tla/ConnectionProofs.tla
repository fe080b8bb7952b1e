-------------------------- MODULE ConnectionProofs --------------------------
(* Theorems about ConnectionRegistry for every value of its constants. *)
EXTENDS ConnectionRegistry, Integers, FunctionTheorems, FiniteSetTheorems, SequenceTheorems, TLAPS

Tasks == Clients \cup Broadcasters
States == {"out", "drawn", "uncounted", "in", "leaving", "removed",
           "idle", "sending", "pruning"}
Drawn(c) == task[c] # "out"

\* <<i, c>> names the client c by the id it drew.
Names(i, c) == c \in Clients /\ Drawn(c) /\ id[c] = i

Shapes == /\ task \in [Tasks -> States]
          /\ id \in [Clients -> Nat] /\ nextId \in Nat
          /\ closed \subseteq Clients
          /\ senders \in [Broadcasters -> Seq(Nat \X Clients)]
          /\ dead \in [Broadcasters -> SUBSET Nat]
          /\ IsFiniteSet(DOMAIN connections)

IdsFresh == \A c \in Clients : Drawn(c) => id[c] < nextId
IdsDiffer == \A c, d \in Clients : Drawn(c) /\ Drawn(d) /\ id[c] = id[d] => c = d
TableById == \A i \in DOMAIN connections : Names(i, connections[i])
SendersById == \A b \in Broadcasters : \A k \in DOMAIN senders[b] :
                 Names(senders[b][k][1], senders[b][k][2])
DeadAreClosed == \A b \in Broadcasters : \A i \in dead[b] :
                   \E c \in closed : Names(i, c)

IdInv == /\ Shapes /\ IdsFresh /\ IdsDiffer
         /\ TableById /\ SendersById /\ DeadAreClosed

(* A table stays finite when an entry is put in or taken out. *)
LEMMA TableFinite ==
  ASSUME IsFiniteSet(DOMAIN connections), NEW i, NEW c
  PROVE  IsFiniteSet(DOMAIN With(i, c)) /\ IsFiniteSet(DOMAIN Without(i))
<1>1. DOMAIN With(i, c) = DOMAIN connections \cup {i}
  BY DEF With
<1>2. DOMAIN Without(i) = DOMAIN connections \ {i}
  BY DEF Without
<1>. QED BY <1>1, <1>2, FS_AddElement, FS_RemoveElement

(* A snapshot in any order is a sequence of what the table stores. *)
LEMMA SnapshotIsSeq ==
  ASSUME IdInv, NEW order \in Orders(Stored)
  PROVE  /\ order \in Seq(Nat \X Clients)
         /\ \A k \in DOMAIN order : Names(order[k][1], order[k][2])
<1>1. IsFiniteSet(Stored)
  <2> DEFINE f == [i \in DOMAIN connections |-> <<i, connections[i]>>]
  <2>1. f \in [DOMAIN connections -> Stored]
    BY DEF Stored
  <2>2. \A p \in Stored : \E i \in DOMAIN connections : f[i] = p
    BY DEF Stored
  <2>3. f \in Surjection(DOMAIN connections, Stored)
    BY <2>1, <2>2, Fun_IsSurj
  <2>. QED BY <2>3, FS_Surjection DEF IdInv, Shapes
<1>2. Cardinality(Stored) \in Nat
  BY <1>1, FS_CardinalityType
<1>3. \A p \in Stored : p \in Nat \X Clients /\ Names(p[1], p[2])
  BY DEF Stored, IdInv, TableById, Names, Shapes
<1>4. order \in [1..Cardinality(Stored) -> Stored]
  BY DEF Orders
<1>5. order \in Seq(Nat \X Clients)
  BY <1>2, <1>3, <1>4
<1>. QED BY <1>3, <1>4, <1>5

\* Nobody has drawn an id at first.
LEMMA IdInit == Init => IdInv
<1> SUFFICES ASSUME Init PROVE IdInv
  OBVIOUS
<1>1. DOMAIN connections = {}
  BY DEF Init
<1>2. Shapes
  BY <1>1, FS_EmptySet DEF Init, Shapes, Tasks, States
<1>. QED BY <1>1, <1>2, RegistryAssumption
         DEF Init, IdInv, IdsFresh, IdsDiffer, TableById, SendersById, DeadAreClosed, Drawn

\* A fresh id is nobody else's.
LEMMA DrawIdStep == ASSUME IdInv, NEW c \in Clients, DrawId(c) PROVE IdInv'
<1>1. Shapes'
  BY RegistryAssumption DEF IdInv, Shapes, DrawId, FreshId, Become, channel, local, Tasks, States
<1>2. \A d \in Clients : Drawn(d) => Drawn(d)' /\ id'[d] = id[d] /\ d # c
  BY DEF IdInv, Shapes, DrawId, Become, Drawn, Tasks
<1>3. \A d \in Clients : Drawn(d)' /\ ~Drawn(d) => d = c
  BY DEF IdInv, Shapes, DrawId, Become, Drawn, Tasks
<1>4. id'[c] = nextId /\ nextId' = nextId + 1
  BY DEF IdInv, Shapes, DrawId, FreshId
<1>5. \A i, d : Names(i, d) => Names(i, d)'
  BY <1>2 DEF Names
<1>6. IdsFresh'
  <2> SUFFICES ASSUME NEW d \in Clients, Drawn(d)' PROVE id'[d] < nextId'
    BY DEF IdsFresh
  <2>1. CASE Drawn(d)
    BY <2>1, <1>2, <1>4 DEF IdInv, IdsFresh, Shapes
  <2>2. CASE ~Drawn(d)
    BY <2>2, <1>3, <1>4 DEF IdInv, Shapes
  <2>. QED BY <2>1, <2>2
<1>7. IdsDiffer'
  <2> SUFFICES ASSUME NEW d \in Clients, NEW e \in Clients,
                      Drawn(d)', Drawn(e)', id'[d] = id'[e]
               PROVE  d = e
    BY DEF IdsDiffer
  <2>1. CASE Drawn(d) /\ Drawn(e)
    BY <2>1, <1>2 DEF IdInv, IdsDiffer
  <2>2. CASE Drawn(d) /\ ~Drawn(e)
    BY <2>2, <1>2, <1>3, <1>4 DEF IdInv, IdsFresh, Shapes
  <2>3. CASE ~Drawn(d) /\ Drawn(e)
    BY <2>3, <1>2, <1>3, <1>4 DEF IdInv, IdsFresh, Shapes
  <2>4. CASE ~Drawn(d) /\ ~Drawn(e)
    BY <2>4, <1>3
  <2>. QED BY <2>1, <2>2, <2>3, <2>4
<1>8. UNCHANGED <<connections, closed, senders, dead>>
  BY DEF DrawId, channel, local
<1>9. TableById' /\ SendersById' /\ DeadAreClosed'
  BY <1>5, <1>8 DEF IdInv, TableById, SendersById, DeadAreClosed
<1>. QED BY <1>1, <1>6, <1>7, <1>9 DEF IdInv

(* Every other step keeps the ids; what remains is where they are stored. *)
LEMMA OtherStep ==
  ASSUME IdInv, Shapes', UNCHANGED <<id, nextId>>, closed \subseteq closed',
         \A c \in Clients : Drawn(c)' = Drawn(c),
         \A i \in DOMAIN connections' : Names(i, connections'[i]),
         \A b \in Broadcasters : \A k \in DOMAIN senders'[b] :
            Names(senders'[b][k][1], senders'[b][k][2]),
         \A b \in Broadcasters : \A i \in dead'[b] : \E c \in closed' : Names(i, c)
  PROVE  IdInv'
<1>1. \A i, c : Names(i, c) => Names(i, c)'
  BY DEF Names
<1>2. IdsFresh' /\ IdsDiffer'
  BY DEF IdInv, IdsFresh, IdsDiffer
<1>3. TableById' /\ SendersById' /\ DeadAreClosed'
  BY <1>1 DEF TableById, SendersById, DeadAreClosed
<1>. QED BY <1>2, <1>3 DEF IdInv

\* A client enters and takes out its own id only.
LEMMA ClientStepKeeps ==
  ASSUME IdInv, NEW c \in Clients, ClientStep(c)
  PROVE  IdInv'
<1>1. CASE DrawId(c)
  BY <1>1, DrawIdStep
<1> DEFINE Local == UNCHANGED <<id, nextId, closed, senders, dead>>
<1>2. CASE Insert(c)
  <2>1. Local /\ connections' = With(id[c], c) /\ Names(id[c], c)
    BY <1>2 DEF Insert, channel, local, Names, Drawn
  <2>2. Shapes'
    BY <1>2, <2>1, TableFinite DEF Insert, Become, IdInv, Shapes, Tasks, States
  <2>3. \A d \in Clients : Drawn(d)' = Drawn(d)
    BY <1>2 DEF Insert, Become, IdInv, Shapes, Tasks, States, Drawn
  <2>4. \A i \in DOMAIN connections' : Names(i, connections'[i])
    BY <2>1 DEF With, IdInv, TableById
  <2>. QED BY <2>1, <2>2, <2>3, <2>4, OtherStep DEF IdInv, SendersById, DeadAreClosed
<1>3. CASE Remove(c)
  <2>1. Local /\ connections' = Without(id[c])
    BY <1>3 DEF Remove, channel, local
  <2>2. Shapes'
    BY <1>3, <2>1, TableFinite DEF Remove, Become, IdInv, Shapes, Tasks, States
  <2>3. \A d \in Clients : Drawn(d)' = Drawn(d)
    BY <1>3 DEF Remove, Become, IdInv, Shapes, Tasks, States, Drawn
  <2>4. \A i \in DOMAIN connections' : Names(i, connections'[i])
    BY <2>1 DEF Without, IdInv, TableById
  <2>. QED BY <2>1, <2>2, <2>3, <2>4, OtherStep DEF IdInv, SendersById, DeadAreClosed
<1>4. CASE Count(c) \/ CallDisconnect(c) \/ Uncount(c)
  <2>1. Local /\ connections' = connections
    BY <1>4 DEF Count, CallDisconnect, Uncount, table, channel, local
  <2>2. Shapes'
    BY <1>4, <2>1 DEF Count, CallDisconnect, Uncount, Become, IdInv, Shapes, Tasks, States
  <2>3. \A d \in Clients : Drawn(d)' = Drawn(d)
    BY <1>4 DEF Count, CallDisconnect, Uncount, Become, IdInv, Shapes, Tasks, States, Drawn
  <2>. QED BY <2>1, <2>2, <2>3, OtherStep DEF IdInv, TableById, SendersById, DeadAreClosed
<1>5. CASE Receive(c) \/ Close(c)
  <2>1. UNCHANGED <<connections, id, nextId, task, senders, dead>>
    BY <1>5 DEF Receive, Close, table, local
  <2>2. closed \subseteq closed' /\ closed' \subseteq Clients
    BY <1>5 DEF Receive, Close, IdInv, Shapes
  <2>3. Shapes' /\ \A d \in Clients : Drawn(d)' = Drawn(d)
    BY <2>1, <2>2 DEF IdInv, Shapes, Drawn
  <2>. QED BY <2>1, <2>2, <2>3, OtherStep DEF IdInv, TableById, SendersById, DeadAreClosed
<1>. QED BY <1>1, <1>2, <1>3, <1>4, <1>5 DEF ClientStep

\* A broadcast counts only closed clients among the dead.
LEMMA BroadcastStepKeeps ==
  ASSUME IdInv, NEW b \in Broadcasters, BroadcastStep(b)
  PROVE  IdInv'
<1>0. \A c \in Clients : Drawn(c)' = Drawn(c)
  BY RegistryAssumption
     DEF BroadcastStep, Snapshot, Send, Return, Relock, Prune, Unlock, Become,
         IdInv, Shapes, Tasks, States, Drawn
<1>1. CASE Snapshot(b)
  <2>1. PICK order \in Orders(Stored) : senders' = [senders EXCEPT ![b] = order]
    BY <1>1 DEF Snapshot
  <2>2. /\ order \in Seq(Nat \X Clients)
        /\ \A k \in DOMAIN order : Names(order[k][1], order[k][2])
    BY SnapshotIsSeq
  <2>3. UNCHANGED <<connections, id, nextId, closed, dead>>
    BY <1>1 DEF Snapshot, table, channel
  <2>4. Shapes'
    BY <1>1, <2>1, <2>2, <2>3 DEF Snapshot, Become, IdInv, Shapes, Tasks, States
  <2>5. \A e \in Broadcasters : \A k \in DOMAIN senders'[e] :
            Names(senders'[e][k][1], senders'[e][k][2])
    BY <2>1, <2>2 DEF IdInv, Shapes, SendersById
  <2>. QED BY <1>0, <2>3, <2>4, <2>5, OtherStep DEF IdInv, TableById, DeadAreClosed
<1>2. CASE Send(b)
  <2> DEFINE s == senders[b]
  <2>1. s \in Seq(Nat \X Clients) /\ s # <<>>
    BY <1>2 DEF Send, IdInv, Shapes
  <2>2. Tail(s) \in Seq(Nat \X Clients) /\ Head(s) = s[1] /\ 1 \in DOMAIN s
        /\ \A k \in DOMAIN Tail(s) : k + 1 \in DOMAIN s /\ Tail(s)[k] = s[k + 1]
    BY <2>1, HeadTailProperties
  <2>3. /\ UNCHANGED <<connections, id, nextId, closed, task>>
        /\ senders' = [senders EXCEPT ![b] = Tail(s)]
    BY <1>2 DEF Send, table
  <2>4. Names(s[1][1], s[1][2]) /\ s[1][1] \in Nat
    BY <2>1, <2>2 DEF IdInv, SendersById
  <2>5. \/ dead' = dead
        \/ dead' = [dead EXCEPT ![b] = @ \cup {s[1][1]}] /\ s[1][2] \in closed
    BY <1>2, <2>2 DEF Send
  <2>6. Shapes'
    <3>1. senders' \in [Broadcasters -> Seq(Nat \X Clients)]
      <4>1. senders \in [Broadcasters -> Seq(Nat \X Clients)] BY DEF IdInv, Shapes
      <4>2. Tail(s) \in Seq(Nat \X Clients) BY <2>2
      <4> HIDE DEF s
      <4>. QED BY <2>3, <4>1, <4>2
    <3>2. dead' \in [Broadcasters -> SUBSET Nat]
      <4>1. dead \in [Broadcasters -> SUBSET Nat] BY DEF IdInv, Shapes
      <4>2. CASE dead' = dead BY <4>1, <4>2
      <4>3. CASE dead' = [dead EXCEPT ![b] = @ \cup {s[1][1]}]
        <5> DEFINE i == s[1][1]
        <5>1. i \in Nat BY <2>4
        <5>2. dead' = [dead EXCEPT ![b] = @ \cup {i}] BY <4>3
        <5> HIDE DEF i
        <5>. QED BY <4>1, <5>1, <5>2
      <4>. QED BY <2>5, <4>2, <4>3
    <3>3. /\ task' \in [Tasks -> States] /\ id' \in [Clients -> Nat] /\ nextId' \in Nat
          /\ closed' \subseteq Clients /\ IsFiniteSet(DOMAIN connections')
      BY <2>3 DEF IdInv, Shapes
    <3>. QED BY <3>1, <3>2, <3>3 DEF Shapes
  <2>7. \A e \in Broadcasters : \A k \in DOMAIN senders'[e] :
            Names(senders'[e][k][1], senders'[e][k][2])
    <3> SUFFICES ASSUME NEW e \in Broadcasters, NEW k \in DOMAIN senders'[e]
                 PROVE  Names(senders'[e][k][1], senders'[e][k][2])
      OBVIOUS
    <3>1. CASE e = b
      BY <2>2, <2>3, <3>1 DEF IdInv, Shapes, SendersById
    <3>2. CASE e # b
      BY <2>3, <3>2 DEF IdInv, Shapes, SendersById
    <3>. QED BY <3>1, <3>2
  <2>8. \A e \in Broadcasters : \A i \in dead'[e] : \E c \in closed' : Names(i, c)
    <3> SUFFICES ASSUME NEW e \in Broadcasters, NEW i \in dead'[e]
                 PROVE  \E c \in closed : Names(i, c)
      BY <2>3
    <3>1. CASE i \in dead[e]
      BY <3>1 DEF IdInv, DeadAreClosed
    <3>2. CASE i \notin dead[e]
      <4>1. i = s[1][1] /\ s[1][2] \in closed
        <5>1. dead' # dead
          BY <3>2
        <5>2. e = b /\ dead'[b] = dead[b] \cup {s[1][1]}
          BY <2>5, <3>2, <5>1 DEF IdInv, Shapes
        <5>. QED BY <2>5, <3>2, <5>1, <5>2
      <4>. QED BY <2>4, <4>1
    <3>. QED BY <3>1, <3>2
  <2>. QED BY <1>0, <2>3, <2>6, <2>7, <2>8, OtherStep DEF IdInv, TableById
<1>3. CASE Prune(b)
  <2>1. PICK i \in dead[b] : /\ connections' = Without(i)
                             /\ dead' = [dead EXCEPT ![b] = @ \ {i}]
    BY <1>3 DEF Prune
  <2>2. UNCHANGED <<id, nextId, closed, task, senders>>
    BY <1>3 DEF Prune, channel
  <2>3. Shapes'
    <3>1. IsFiniteSet(DOMAIN connections')
      BY <2>1, TableFinite DEF IdInv, Shapes
    <3>2. dead' \in [Broadcasters -> SUBSET Nat]
      BY <2>1 DEF IdInv, Shapes
    <3>. QED BY <2>2, <3>1, <3>2 DEF IdInv, Shapes
  <2>4. \A j \in DOMAIN connections' : Names(j, connections'[j])
    BY <2>1 DEF Without, IdInv, TableById
  <2>5. \A e \in Broadcasters : \A j \in dead'[e] : \E c \in closed' : Names(j, c)
    BY <2>1, <2>2 DEF IdInv, Shapes, DeadAreClosed
  <2>. QED BY <1>0, <2>2, <2>3, <2>4, <2>5, OtherStep DEF IdInv, SendersById
<1>4. CASE Return(b) \/ Relock(b) \/ Unlock(b)
  <2>1. UNCHANGED <<connections, id, nextId, closed, senders, dead>>
    BY <1>4 DEF Return, Relock, Unlock, table, channel, local
  <2>2. Shapes'
    BY <1>4, <2>1 DEF Return, Relock, Unlock, Become, IdInv, Shapes, Tasks, States
  <2>. QED BY <1>0, <2>1, <2>2, OtherStep DEF IdInv, TableById, SendersById, DeadAreClosed
<1>. QED BY <1>1, <1>2, <1>3, <1>4 DEF BroadcastStep

\* Every step keeps the ids apart.
LEMMA IdStep == IdInv /\ [Next]_vars => IdInv'
<1> SUFFICES ASSUME IdInv, [Next]_vars PROVE IdInv'
  OBVIOUS
<1>1. CASE UNCHANGED vars
  BY <1>1 DEF vars, table, channel, local, IdInv, Shapes, IdsFresh, IdsDiffer, TableById,
              SendersById, DeadAreClosed, Names, Drawn
<1>. QED BY <1>1, ClientStepKeeps, BroadcastStepKeeps DEF Next

(* Every id names one client for good: in the table, in the snapshots that *)
(* broadcasts still work through, and among what they found closed.        *)
THEOREM IdInvariant == Spec => []IdInv
BY IdInit, IdStep, PTL DEF Spec

\* What leaves the table in a step left by itself or is closed.
LEMMA LivingStayStep ==
  ASSUME IdInv, [Next]_vars, NEW i \in DOMAIN connections
  PROVE  \/ i \in DOMAIN connections' /\ connections'[i] = connections[i]
         \/ connections[i] \in closed
         \/ task[connections[i]] = "leaving"
<1>0. Names(i, connections[i])
  BY DEF IdInv, TableById
<1>1. \A c \in Clients : Names(i, c) => connections[i] = c
  BY <1>0 DEF IdInv, IdsDiffer, Names
<1>2. ASSUME NEW c \in Clients, ClientStep(c)
      PROVE  \/ i \in DOMAIN connections' /\ connections'[i] = connections[i]
             \/ task[connections[i]] = "leaving"
  <2>1. CASE Insert(c)
    <3>1. Names(id[c], c) /\ connections' = With(id[c], c)
      BY <2>1 DEF Insert, Names, Drawn
    <3>. QED BY <1>1, <3>1 DEF With
  <2>2. CASE Remove(c)
    <3>1. Names(id[c], c) /\ connections' = Without(id[c]) /\ task[c] = "leaving"
      BY <2>2 DEF Remove, Names, Drawn
    <3>. QED BY <1>1, <3>1 DEF Without
  <2>3. CASE ~Insert(c) /\ ~Remove(c)
    <3>1. connections' = connections
      BY <1>2, <2>3 DEF ClientStep, DrawId, Count, CallDisconnect, Uncount, Receive, Close, table
    <3>. QED BY <3>1
  <2>. QED BY <2>1, <2>2, <2>3
<1>3. ASSUME NEW b \in Broadcasters, BroadcastStep(b)
      PROVE  \/ i \in DOMAIN connections' /\ connections'[i] = connections[i]
             \/ connections[i] \in closed
  <2>1. CASE Prune(b)
    <3>1. PICK j \in dead[b] : connections' = Without(j)
      BY <2>1 DEF Prune
    <3>2. PICK c \in closed : Names(j, c)
      BY DEF IdInv, DeadAreClosed
    <3>. QED BY <1>1, <3>1, <3>2 DEF Without, Names
  <2>2. CASE ~Prune(b)
    <3>1. connections' = connections
      BY <1>3, <2>2 DEF BroadcastStep, Snapshot, Send, Return, Relock, Unlock, table
    <3>. QED BY <3>1
  <2>. QED BY <2>1, <2>2
<1>4. CASE UNCHANGED vars
  BY <1>4 DEF vars, table
<1>. QED BY <1>2, <1>3, <1>4 DEF Next

(* A broadcast acting on a snapshot that others have outdated never takes  *)
(* a living connection out of the table, however many tasks there are.     *)
THEOREM LivingStayTheorem == Spec => LivingStay
<1>1. IdInv /\ [Next]_vars =>
        [\A i \in DOMAIN connections :
           LET c == connections[i]
           IN \/ i \in DOMAIN connections' /\ connections'[i] = c
              \/ c \in closed
              \/ task[c] = "leaving"]_vars
  BY LivingStayStep
<1>. QED BY <1>1, IdInvariant, PTL DEF Spec, LivingStay

-----------------------------------------------------------------------------
(* The count beside the table: arithmetic modulo what usize counts to.     *)

(* What % and \div are for natural numbers. *)
LEMMA Quotient ==
  ASSUME NEW w \in Nat \ {0}, NEW x \in Nat
  PROVE  /\ x % w \in 0..w - 1 /\ x \div w \in Nat
         /\ x = w * (x \div w) + (x % w)
  OBVIOUS

\* There is only one way to write a number with a remainder.
LEMMA Remainder ==
  ASSUME NEW w \in Nat \ {0}, NEW x \in Nat, NEW q \in Nat, NEW r \in 0..w - 1,
         x = w * q + r
  PROVE  x % w = r
<1> DEFINE p == x \div w
           s == x % w
<1>1. p \in Nat /\ s \in 0..w - 1 /\ x = w * p + s
  BY Quotient
<1> HIDE DEF p, s
<1>2. w * (p - q) = r - s
  BY <1>1
<1>3. ASSUME p - q >= 1 PROVE FALSE
  <2>1. w * (p - q) >= w
    BY <1>1, <1>3
  <2>. QED BY <1>1, <1>2, <2>1
<1>4. ASSUME p - q <= -1 PROVE FALSE
  <2>1. w * (p - q) <= -w
    BY <1>1, <1>4
  <2>. QED BY <1>1, <1>2, <2>1
<1>5. p = q
  BY <1>1, <1>3, <1>4
<1>6. r = s
  BY <1>1, <1>2, <1>5
<1>. QED BY <1>6 DEF s

\* Counting modulo w: one more is one more, or starts over.
LEMMA NextRemainder ==
  ASSUME NEW w \in Nat \ {0}, NEW x \in Nat
  PROVE  (x + 1) % w = IF x % w = w - 1 THEN 0 ELSE (x % w) + 1
<1> DEFINE q == x \div w
           r == x % w
<1>1. q \in Nat /\ r \in 0..w - 1 /\ x = w * q + r
  BY Quotient
<1> HIDE DEF q, r
<1>2. CASE r = w - 1
  <2>1. x + 1 = w * (q + 1) + 0
    BY <1>1, <1>2
  <2>2. (x + 1) % w = 0
    BY <1>1, <2>1, Remainder
  <2>. QED BY <2>2, <1>2 DEF r
<1>3. CASE r # w - 1
  <2>1. x + 1 = w * q + (r + 1) /\ r + 1 \in 0..w - 1
    BY <1>1, <1>3
  <2>2. (x + 1) % w = r + 1
    BY <1>1, <2>1, Remainder
  <2>. QED BY <2>2, <1>3 DEF r
<1>. QED BY <1>2, <1>3

\* A full turn changes no remainder; a small number is its own.
LEMMA SameRemainder ==
  ASSUME NEW w \in Nat \ {0}, NEW x \in Nat
  PROVE  /\ (x + w) % w = x % w
         /\ x < w => x % w = x
<1> DEFINE q == x \div w
           r == x % w
<1>1. q \in Nat /\ r \in 0..w - 1 /\ x = w * q + r
  BY Quotient
<1> HIDE DEF q, r
<1>2. x + w = w * (q + 1) + r
  BY <1>1
<1>3. (x + w) % w = r
  BY <1>1, <1>2, Remainder
<1>4. x < w => x = w * 0 + x
  OBVIOUS
<1>5. x < w => x % w = x
  BY <1>4, Remainder
<1>. QED BY <1>3, <1>5 DEF r

\* One more on both sides changes nothing between them.
LEMMA Congruent ==
  ASSUME NEW w \in Nat \ {0}, NEW x \in Nat, NEW y \in Nat
  PROVE  x % w = y % w <=> (x + 1) % w = (y + 1) % w
<1>1. x % w \in 0..w - 1 /\ y % w \in 0..w - 1
  BY Quotient
<1>2. /\ (x + 1) % w = IF x % w = w - 1 THEN 0 ELSE (x % w) + 1
      /\ (y + 1) % w = IF y % w = w - 1 THEN 0 ELSE (y % w) + 1
  BY NextRemainder
<1> DEFINE r == x % w
           s == y % w
<1> HIDE DEF r, s
<1>. QED BY <1>1, <1>2 DEF r, s

\* What fetch_add and fetch_sub make of a count that differs by a multiple.
LEMMA UpAccounts ==
  ASSUME NEW a \in 0..Wrap - 1, NEW u \in Nat \ {0}
  PROVE  Up(a) \in 0..Wrap - 1 /\ (Up(a) + (u - 1)) % Wrap = (a + u) % Wrap
<1>1. Wrap \in Nat \ {0} /\ a \in Nat /\ a + 1 \in Nat /\ a % Wrap = a
  BY RegistryAssumption, SameRemainder
<1>2. Up(a) = IF a = Wrap - 1 THEN 0 ELSE a + 1
  BY <1>1, NextRemainder DEF Up
<1>3. CASE a = Wrap - 1
  <2>1. a + u = (u - 1) + Wrap /\ u - 1 \in Nat
    BY <1>1, <1>3
  <2>2. (a + u) % Wrap = (u - 1) % Wrap
    BY <1>1, <2>1, SameRemainder
  <2>. QED BY <1>1, <1>2, <1>3, <2>1, <2>2
<1>4. CASE a # Wrap - 1
  <2>1. Up(a) + (u - 1) = a + u
    BY <1>1, <1>2, <1>4
  <2>. QED BY <1>1, <1>2, <1>4, <2>1
<1>. QED BY <1>3, <1>4

\* The same for fetch_sub: what is left still accounts for one less.
LEMMA DownAccounts ==
  ASSUME NEW a \in 0..Wrap - 1, NEW u \in Nat, NEW y \in Nat \ {0},
         (a + u) % Wrap = y % Wrap
  PROVE  Down(a) \in 0..Wrap - 1 /\ (Down(a) + u) % Wrap = (y - 1) % Wrap
<1>1. Wrap \in Nat \ {0} /\ a \in Nat /\ a + u \in Nat
  BY RegistryAssumption
<1>2. Down(a) \in 0..Wrap - 1 /\ Down(a) + 1 \in {a, a + Wrap}
  <2>1. CASE a = 0
    <3>1. Wrap - 1 \in Nat /\ Wrap - 1 < Wrap /\ a + Wrap - 1 = Wrap - 1
      BY <1>1, <2>1
    <3>2. (Wrap - 1) % Wrap = Wrap - 1
      BY <1>1, <3>1, SameRemainder
    <3>. QED BY <1>1, <2>1, <3>1, <3>2 DEF Down
  <2>2. CASE a # 0
    <3>1. a - 1 \in Nat /\ a - 1 < Wrap /\ a + Wrap - 1 = (a - 1) + Wrap
      BY <1>1, <2>2
    <3>2. (a - 1) % Wrap = a - 1 /\ ((a - 1) + Wrap) % Wrap = (a - 1) % Wrap
      BY <1>1, <3>1, SameRemainder
    <3>. QED BY <1>1, <2>2, <3>1, <3>2 DEF Down
  <2>. QED BY <2>1, <2>2
<1> DEFINE x == Down(a) + u
<1>3. x \in Nat /\ y - 1 \in Nat /\ (y - 1) + 1 = y /\ x + 1 \in {a + u, (a + u) + Wrap}
  BY <1>1, <1>2
<1>4. (x + 1) % Wrap = ((y - 1) + 1) % Wrap
  BY <1>1, <1>3, SameRemainder
<1> HIDE DEF x
<1>5. x % Wrap = (y - 1) % Wrap
  BY <1>1, <1>3, <1>4, Congruent
<1>. QED BY <1>2, <1>5 DEF x

In(state) == {c \in Clients : task[c] = state}

Tally == /\ IdInv
         /\ active \in 0..Wrap - 1
         /\ IsFiniteSet(In("uncounted")) /\ IsFiniteSet(In("removed"))
         /\ \A i \in DOMAIN connections : task[connections[i]] \notin {"out", "drawn"}
         /\ CounterAccounts

\* A client that moves on is one less in one state, one more in another.
LEMMA Moved ==
  ASSUME IdInv, NEW c \in Clients, NEW to, Become(c, to), NEW state, IsFiniteSet(In(state))
  PROVE  /\ Cardinality(In(state)) \in Nat
         /\ IsFiniteSet(In(state)')
         /\ task[c] = state => Cardinality(In(state)) > 0
         /\ Cardinality(In(state)') =
              CASE task[c] = state /\ to # state -> Cardinality(In(state)) - 1
                [] task[c] # state /\ to = state -> Cardinality(In(state)) + 1
                [] OTHER -> Cardinality(In(state))
<1>1. \A d \in Clients : task'[d] = IF d = c THEN to ELSE task[d]
  BY DEF Become, IdInv, Shapes, Tasks
<1>2. Cardinality(In(state)) \in Nat /\ (task[c] = state => Cardinality(In(state)) # 0)
  BY FS_CardinalityType, FS_EmptySet DEF In
<1>3. CASE task[c] = state /\ to # state
  <2>1. In(state)' = In(state) \ {c} /\ c \in In(state)
    BY <1>1, <1>3 DEF In
  <2>. QED BY <1>2, <1>3, <2>1, FS_RemoveElement
<1>4. CASE task[c] # state /\ to = state
  <2>1. In(state)' = In(state) \cup {c} /\ c \notin In(state)
    BY <1>1, <1>4 DEF In
  <2>. QED BY <1>2, <1>4, <2>1, FS_AddElement
<1>5. CASE (task[c] = state) = (to = state)
  <2>1. In(state)' = In(state)
    BY <1>1, <1>5 DEF In
  <2>. QED BY <1>2, <1>5, <2>1
<1>. QED BY <1>3, <1>4, <1>5
\* The table by its size: one more with a new id, one less without an old one.
LEMMA TableSize ==
  ASSUME IsFiniteSet(DOMAIN connections), NEW i, NEW c
  PROVE  /\ Cardinality(DOMAIN connections) \in Nat
         /\ i \in DOMAIN connections => Cardinality(DOMAIN connections) > 0
         /\ Cardinality(DOMAIN With(i, c)) =
              Cardinality(DOMAIN connections) + (IF i \in DOMAIN connections THEN 0 ELSE 1)
         /\ Cardinality(DOMAIN Without(i)) =
              Cardinality(DOMAIN connections) - (IF i \in DOMAIN connections THEN 1 ELSE 0)
<1>1. DOMAIN With(i, c) = DOMAIN connections \cup {i} /\ DOMAIN Without(i) = DOMAIN connections \ {i}
  BY DEF With, Without
<1>2. /\ Cardinality(DOMAIN connections) \in Nat
      /\ i \in DOMAIN connections => Cardinality(DOMAIN connections) # 0
  BY FS_CardinalityType, FS_EmptySet
<1>. QED BY <1>1, <1>2, FS_AddElement, FS_RemoveElement

(* What a step of a client does to the count: each changes two of the four *)
(* numbers, or three by a whole turn.                                      *)
LEMMA ClientTally ==
  ASSUME Tally, NEW c \in Clients, ClientStep(c)
  PROVE  Tally'
<1> DEFINE size == Cardinality(DOMAIN connections)
           un     == Cardinality(In("uncounted"))
           out    == Cardinality(In("removed"))
<1>0. /\ IdInv /\ IdInv' /\ size \in Nat /\ un \in Nat /\ out \in Nat
      /\ active \in 0..Wrap - 1 /\ Wrap \in Nat \ {0}
      /\ (active + un) % Wrap = (size + out) % Wrap
  <2>1. IdInv /\ IdInv'
    BY ClientStepKeeps DEF Tally
  <2>2. size \in Nat /\ un \in Nat /\ out \in Nat
    BY FS_CardinalityType DEF Tally, IdInv, Shapes
  <2>. QED BY <2>1, <2>2, RegistryAssumption DEF Tally, CounterAccounts, In
<1>1. CASE Insert(c)
  <2>1. /\ connections' = With(id[c], c) /\ Become(c, "uncounted") /\ task[c] = "drawn"
        /\ UNCHANGED active
    BY <1>1 DEF Insert
  <2>2. id[c] \notin DOMAIN connections
    BY <1>0, <2>1 DEF Tally, IdInv, TableById, IdsDiffer, Names, Drawn
  <2>3. /\ IsFiniteSet(In("uncounted")') /\ IsFiniteSet(In("removed")')
        /\ Cardinality(In("uncounted")') = un + 1
        /\ Cardinality(In("removed")') = out
    BY <2>1, Moved DEF Tally
  <2>4. Cardinality(DOMAIN connections') = size + 1
    BY <1>0, <2>1, <2>2, TableSize DEF IdInv, Shapes
  <2>5. (active + (un + 1)) % Wrap = ((size + 1) + out) % Wrap
    <3>1. active + un \in Nat /\ size + out \in Nat
      BY <1>0
    <3>2. ((active + un) + 1) % Wrap = ((size + out) + 1) % Wrap
      BY <1>0, <3>1, Congruent
    <3>3. (active + un) + 1 = active + (un + 1) /\ (size + out) + 1 = (size + 1) + out
      BY <1>0
    <3>. QED BY <3>2, <3>3
  <2>6. \A i \in DOMAIN connections' : task'[connections'[i]] \notin {"out", "drawn"}
    BY <2>1 DEF With, Become, Tally, IdInv, Shapes, Tasks
  <2>. QED BY <1>0, <2>1, <2>3, <2>4, <2>5, <2>6 DEF Tally, CounterAccounts, In
<1>2. CASE Count(c)
  <2>1. /\ Become(c, "in") /\ task[c] = "uncounted" /\ active' = Up(active)
        /\ UNCHANGED connections
    BY <1>2 DEF Count
  <2>2. /\ IsFiniteSet(In("uncounted")') /\ IsFiniteSet(In("removed")')
        /\ un > 0
        /\ Cardinality(In("uncounted")') = un - 1
        /\ Cardinality(In("removed")') = out
    BY <2>1, Moved DEF Tally
  <2>3. /\ active' \in 0..Wrap - 1
        /\ (active' + (un - 1)) % Wrap = (size + out) % Wrap
    BY <1>0, <2>1, <2>2, UpAccounts
  <2>4. \A i \in DOMAIN connections' : task'[connections'[i]] \notin {"out", "drawn"}
    BY <2>1 DEF Become, Tally, IdInv, Shapes, Tasks
  <2>. QED BY <1>0, <2>1, <2>2, <2>3, <2>4 DEF Tally, CounterAccounts, In
<1>3. CASE Remove(c)
  <2>1. /\ connections' = Without(id[c]) /\ task[c] = "leaving"
        /\ Become(c, IF id[c] \in DOMAIN connections THEN "removed" ELSE "in")
        /\ UNCHANGED active
    BY <1>3 DEF Remove
  <2>2. /\ IsFiniteSet(In("uncounted")') /\ IsFiniteSet(In("removed")')
        /\ Cardinality(In("uncounted")') = un
        /\ Cardinality(In("removed")') =
             out + (IF id[c] \in DOMAIN connections THEN 1 ELSE 0)
    <3>1. CASE id[c] \in DOMAIN connections
      BY <1>0, <2>1, <3>1, Moved DEF Tally
    <3>2. CASE id[c] \notin DOMAIN connections
      BY <1>0, <2>1, <3>2, Moved DEF Tally
    <3>. QED BY <3>1, <3>2
  <2>3. /\ Cardinality(DOMAIN connections') =
             size - (IF id[c] \in DOMAIN connections THEN 1 ELSE 0)
    BY <1>0, <2>1, TableSize DEF IdInv, Shapes
  <2>4. Cardinality(DOMAIN connections') + Cardinality(In("removed")') = size + out
    BY <1>0, <2>2, <2>3
  <2>5. \A i \in DOMAIN connections' : task'[connections'[i]] \notin {"out", "drawn"}
    BY <2>1 DEF Without, Become, Tally, IdInv, Shapes, Tasks
  <2>. QED BY <1>0, <2>1, <2>2, <2>4, <2>5 DEF Tally, CounterAccounts, In
<1>4. CASE Uncount(c)
  <2>1. /\ Become(c, "in") /\ task[c] = "removed" /\ active' = Down(active)
        /\ UNCHANGED connections
    BY <1>4 DEF Uncount
  <2>2. /\ IsFiniteSet(In("uncounted")') /\ IsFiniteSet(In("removed")')
        /\ out > 0
        /\ Cardinality(In("uncounted")') = un
        /\ Cardinality(In("removed")') = out - 1
    BY <2>1, Moved DEF Tally
  <2>3. /\ active' \in 0..Wrap - 1
        /\ (active' + un) % Wrap = (size + (out - 1)) % Wrap
    <3>1. size + out \in Nat \ {0} /\ (size + out) - 1 = size + (out - 1)
      BY <1>0, <2>2
    <3>. QED BY <1>0, <2>1, <3>1, DownAccounts
  <2>4. \A i \in DOMAIN connections' : task'[connections'[i]] \notin {"out", "drawn"}
    BY <2>1 DEF Become, Tally, IdInv, Shapes, Tasks
  <2>. QED BY <1>0, <2>1, <2>2, <2>3, <2>4 DEF Tally, CounterAccounts, In
<1>5. CASE DrawId(c) \/ CallDisconnect(c)
  <2>1. PICK to \in {"drawn", "leaving"} :
          /\ Become(c, to) /\ (to = "drawn" <=> task[c] = "out")
          /\ task[c] \notin {"uncounted", "removed"}
          /\ UNCHANGED <<connections, active>>
    BY <1>5 DEF DrawId, CallDisconnect, table
  <2>2. /\ IsFiniteSet(In("uncounted")') /\ IsFiniteSet(In("removed")')
        /\ Cardinality(In("uncounted")') = un
        /\ Cardinality(In("removed")') = out
    BY <1>0, <2>1, Moved DEF Tally
  <2>3. \A i \in DOMAIN connections' : task'[connections'[i]] \notin {"out", "drawn"}
    BY <2>1 DEF Become, Tally, IdInv, Shapes, Tasks
  <2>. QED BY <1>0, <2>1, <2>2, <2>3 DEF Tally, CounterAccounts, In
<1>6. CASE Receive(c) \/ Close(c)
  <2>1. UNCHANGED <<connections, active, task>>
    BY <1>6 DEF Receive, Close, table
  <2>. QED BY <1>0, <2>1 DEF Tally, CounterAccounts, In
<1>. QED BY <1>1, <1>2, <1>3, <1>4, <1>5, <1>6 DEF ClientStep

(* A broadcast counts off each entry it finds and takes out, in one go. *)
LEMMA BroadcastTally ==
  ASSUME Tally, NEW b \in Broadcasters, BroadcastStep(b)
  PROVE  Tally'
<1>0. IdInv /\ IdInv'
  BY BroadcastStepKeeps DEF Tally
<1>1. \A c \in Clients : task'[c] = task[c]
  BY <1>0, RegistryAssumption
     DEF BroadcastStep, Snapshot, Send, Return, Relock, Prune, Unlock, Become, IdInv, Shapes, Tasks
<1>2. In("uncounted")' = In("uncounted") /\ In("removed")' = In("removed")
  BY <1>1 DEF In
<1>3. CASE Prune(b)
  <2>1. PICK i \in dead[b] :
          /\ connections' = Without(i)
          /\ active' = IF i \in DOMAIN connections THEN Down(active) ELSE active
    BY <1>3 DEF Prune
  <2> DEFINE size == Cardinality(DOMAIN connections)
             un   == Cardinality(In("uncounted"))
             out  == Cardinality(In("removed"))
  <2>2. /\ size \in Nat /\ un \in Nat /\ out \in Nat
        /\ active \in 0..Wrap - 1 /\ Wrap \in Nat \ {0}
        /\ (active + un) % Wrap = (size + out) % Wrap
    BY <1>0, FS_CardinalityType, RegistryAssumption
       DEF Tally, IdInv, Shapes, CounterAccounts, In
  <2>3. \A j \in DOMAIN connections' : task'[connections'[j]] \notin {"out", "drawn"}
    BY <1>0, <1>1, <2>1 DEF Without, Tally, IdInv, TableById, Names
  <2>4. CASE i \in DOMAIN connections
    <3>1. Cardinality(DOMAIN connections') = size - 1 /\ size > 0
      BY <1>0, <2>1, <2>4, TableSize DEF IdInv, Shapes
    <3>2. size + out \in Nat \ {0} /\ (size + out) - 1 = (size - 1) + out
      BY <2>2, <3>1
    <3>3. /\ active' \in 0..Wrap - 1
          /\ (active' + un) % Wrap = ((size - 1) + out) % Wrap
      BY <2>1, <2>2, <2>4, <3>2, DownAccounts
    <3>. QED BY <1>0, <1>2, <2>3, <3>1, <3>3 DEF Tally, CounterAccounts, In
  <2>5. CASE i \notin DOMAIN connections
    <3>1. DOMAIN connections' = DOMAIN connections /\ active' = active
      BY <2>1, <2>5 DEF Without
    <3>. QED BY <1>0, <1>2, <2>3, <3>1 DEF Tally, CounterAccounts, In
  <2>. QED BY <2>4, <2>5
<1>4. CASE ~Prune(b)
  <2>1. UNCHANGED <<connections, active>>
    BY <1>4 DEF BroadcastStep, Snapshot, Send, Return, Relock, Unlock, table
  <2>2. \A i \in DOMAIN connections' : task'[connections'[i]] \notin {"out", "drawn"}
    BY <1>0, <1>1, <2>1 DEF Tally, IdInv, TableById, Names
  <2>. QED BY <1>0, <1>2, <2>1, <2>2 DEF Tally, CounterAccounts, In
<1>. QED BY <1>3, <1>4

\* Nobody is counted at first, and nobody is there.
LEMMA TallyInit == Init => Tally
<1> SUFFICES ASSUME Init PROVE Tally
  OBVIOUS
<1>1. /\ DOMAIN connections = {} /\ active = 0
      /\ In("uncounted") = {} /\ In("removed") = {}
  BY RegistryAssumption DEF Init, In
<1>2. /\ Cardinality(DOMAIN connections) = 0
      /\ Cardinality(In("uncounted")) = 0 /\ Cardinality(In("removed")) = 0
      /\ IsFiniteSet(In("uncounted")) /\ IsFiniteSet(In("removed"))
  BY <1>1, FS_EmptySet
<1>3. CounterAccounts
  BY <1>1, <1>2 DEF CounterAccounts, In
<1>. QED BY <1>1, <1>2, <1>3, IdInit, RegistryAssumption DEF Tally

\* Every step keeps the tally.
LEMMA TallyStep == Tally /\ [Next]_vars => Tally'
<1>1. UNCHANGED vars /\ Tally => Tally'
  <2> SUFFICES ASSUME UNCHANGED vars, Tally PROVE Tally'
    OBVIOUS
  <2>1. UNCHANGED <<connections, active, task>> /\ IdInv'
    BY IdStep DEF vars, table, Tally
  <2>. QED BY <2>1 DEF Tally, CounterAccounts, In
<1>. QED BY <1>1, ClientTally, BroadcastTally DEF Next

(* The count that available() reads is, modulo what usize counts to, the   *)
(* size of the table and of the calls that have changed one and not yet    *)
(* the other: for any number of tasks, and whoever removes a connection.   *)
THEOREM CounterTheorem == Spec => []CounterAccounts
<1>1. Tally => CounterAccounts
  BY DEF Tally
<1>. QED BY <1>1, TallyInit, TallyStep, PTL DEF Spec

ClientStates == {"out", "drawn", "uncounted", "in", "leaving", "removed"}
BroadcastStates == {"idle", "sending", "pruning"}

Forms == /\ lock \in Broadcasters \cup {NoTask}
         /\ \A c \in Clients : task[c] \in ClientStates
         /\ \A b \in Broadcasters : task[b] \in BroadcastStates
         /\ queued \in [Clients -> 0..Room]

\* A client goes through its own states, a broadcast through its.
LEMMA FormsStep ==
  ASSUME IdInv, Forms, [Next]_vars
  PROVE  Forms'
<1>0. /\ task \in [Tasks -> States] /\ Clients \subseteq Tasks /\ Broadcasters \subseteq Tasks
      /\ \A c \in Clients : c \notin Broadcasters
      /\ Room \in Nat \ {0}
  BY RegistryAssumption DEF IdInv, Shapes, Tasks
<1>1. ASSUME NEW c \in Clients, ClientStep(c) PROVE Forms'
  <2>1. lock' = lock
    BY <1>1 DEF ClientStep, DrawId, Insert, Count, CallDisconnect, Remove, Uncount,
       Receive, Close, table
  <2>2. task' = task \/ \E to \in ClientStates : task' = [task EXCEPT ![c] = to]
    BY <1>1 DEF ClientStep, DrawId, Insert, Count, CallDisconnect, Remove, Uncount,
       Receive, Close, Become, ClientStates
  <2>3. queued' \in [Clients -> 0..Room]
    BY <1>0, <1>1 DEF ClientStep, DrawId, Insert, Count, CallDisconnect, Remove, Uncount,
       Receive, Close, channel, Forms
  <2>. QED BY <1>0, <2>1, <2>2, <2>3 DEF Forms
<1>2. ASSUME NEW b \in Broadcasters, BroadcastStep(b) PROVE Forms'
  <2>1. lock' \in {lock, b, NoTask}
    BY <1>2 DEF BroadcastStep, Snapshot, Send, Return, Relock, Prune, Unlock, table
  <2>2. task' = task \/ \E to \in BroadcastStates : task' = [task EXCEPT ![b] = to]
    BY <1>2 DEF BroadcastStep, Snapshot, Send, Return, Relock, Prune, Unlock, Become,
       BroadcastStates
  <2>3. \/ queued' = queued
        \/ \E c : HasRoom(c) /\ queued' = [queued EXCEPT ![c] = @ + 1]
    BY <1>2 DEF BroadcastStep, Snapshot, Send, Return, Relock, Prune, Unlock, channel
  <2>4. queued' \in [Clients -> 0..Room]
    BY <1>0, <2>3 DEF HasRoom, Forms
  <2>. QED BY <1>0, <2>1, <2>2, <2>4 DEF Forms
<1>3. CASE UNCHANGED vars
  BY <1>3 DEF vars, table, channel, Forms
<1>. QED BY <1>1, <1>2, <1>3 DEF Next

(* The types of the registry: every id in the table, in a snapshot or      *)
(* among the dead was drawn, by the client it is kept with; no channel     *)
(* holds more than its capacity, and the count stays below where it wraps. *)
THEOREM RegistryTypeInvariant == Spec => []TypeOK
<1>1. Init => Forms
  BY RegistryAssumption DEF Init, Forms, ClientStates, BroadcastStates
<1>2. Tally /\ Forms => TypeOK
  <2> SUFFICES ASSUME Tally, Forms PROVE TypeOK
    OBVIOUS
  <2>1. IdInv /\ nextId \in Nat
    BY DEF Tally, IdInv, Shapes
  <2>2. \A i, c : Names(i, c) => Drew(c, i)
    BY <2>1 DEF IdInv, IdsFresh, Names, Drawn, Drew
  <2>3. /\ \A i \in DOMAIN connections : Drew(connections[i], i)
        /\ \A b \in Broadcasters :
             /\ \A k \in DOMAIN senders[b] : Drew(senders[b][k][2], senders[b][k][1])
             /\ \A i \in dead[b] : \E c \in closed : Drew(c, i)
    BY <2>1, <2>2 DEF IdInv, TableById, SendersById, DeadAreClosed
  <2>. QED BY <2>1, <2>3 DEF Tally, Forms, TypeOK, IdInv, Shapes, ClientStates, BroadcastStates
<1>3. Tally /\ [Next]_vars => Tally'
  BY TallyStep
<1>4. Tally /\ Forms /\ [Next]_vars => Forms'
  BY FormsStep DEF Tally
<1>. QED BY <1>1, <1>2, <1>3, <1>4, TallyInit, PTL DEF Spec
=============================================================================
