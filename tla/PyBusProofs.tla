----------------------------- MODULE PyBusProofs -----------------------------
(***************************************************************************)
(* The Python MessageBus for any number of threads and callbacks: who      *)
(* holds which lock, that no message is lost or called twice however       *)
(* drains overlap and callbacks raise, and that only callbacks that raised *)
(* have messages waiting once all calls have returned.                     *)
(***************************************************************************)
EXTENDS PyBus, FiniteSetTheorems, TLAPS

States == {"python", "send", "ask", "lock", "bus", "back", "call"}

Typed == /\ pc \in [Threads -> States]
         /\ gil \in Threads \cup {Nobody} /\ busLock \in Threads \cup {Nobody}
         /\ named \subseteq Names
         /\ chan \in Seq(Nat) /\ backlog \in Seq(Nat) /\ batch \in Seq(Nat)
         /\ queues \in Seq(Callbacks)
         /\ pending \in [Callbacks -> Seq(Nat)]
         /\ turn \in [Threads -> Nat]
         /\ msgs \in [Threads -> Seq(Nat)]
         /\ done \in [Callbacks -> Seq(Nat)]
         /\ sent \in Nat

\* Each lock is with the one thread whose call says so.
LocksHeld == \A t \in Threads : /\ (gil = t) = (pc[t] \in {"send", "ask"})
                                /\ (busLock = t) = (pc[t] = "bus")

\* A drain is at a queue only while it calls back.
AtQueue == \A t \in Threads :
             /\ turn[t] \in 0..Len(queues)
             /\ pc[t] = "call" <=> turn[t] > 0
             /\ msgs[t] # <<>> => pc[t] = "call"

\* The thread that makes a handle has the GIL: no other send() overtakes it.
Bounds == /\ Len(chan) <= ChanRoom /\ sent <= MaxSent
          /\ \A t \in Threads : pc[t] = "send" => sent < MaxSent

\* Only the drain that has the bus has messages of the backlog to route again.
BatchHeld == batch # <<>> => busLock # Nobody

TypeInv == Typed /\ LocksHeld /\ AtQueue /\ Bounds /\ BatchHeld

\* A message that waits will be met by a drain that is before its queue.
Ahead(t, c) == /\ pc[t] \in {"bus", "back", "call"}
               /\ \E i \in DOMAIN queues : queues[i] = c /\ turn[t] < i
SomebodyComes == \A c \in Callbacks \ raisers :
                   pending[c] # <<>> => \E t \in Threads : Ahead(t, c)

\* The places a message may be in: none is in two, and none twice in one.
El(s)   == {s[i] : i \in DOMAIN s}
Once(s) == \A i, j \in DOMAIN s : s[i] = s[j] => i = j

Placed(f, n) ==
  /\ \A k \in DOMAIN f : \A x \in DOMAIN f[k] : Once(f[k][x]) /\ El(f[k][x]) \subseteq 1..n
  /\ \A k, l \in DOMAIN f : \A x \in DOMAIN f[k], y \in DOMAIN f[l] :
       k # l \/ x # y => El(f[k][x]) \cap El(f[l][y]) = {}
  /\ \A m \in 1..n : \E k \in DOMAIN f : \E x \in DOMAIN f[k] : m \in El(f[k][x])

Places == [chan    |-> [x \in {Nobody} |-> chan],
           backlog |-> [x \in {Nobody} |-> backlog],
           batch   |-> [x \in {Nobody} |-> batch],
           pending |-> pending,
           done    |-> done,
           msgs    |-> msgs]

OncePlaced == Placed(Places, sent)

(* What can be said of a sequence with one more or one less. *)
LEMMA SeqTypes ==
  ASSUME NEW S, NEW s \in Seq(S)
  PROVE  /\ Len(s) \in Nat /\ DOMAIN s = 1..Len(s)
         /\ s # <<>> => Head(s) \in S /\ Tail(s) \in Seq(S) /\ Len(Tail(s)) = Len(s) - 1
         /\ \A e \in S : Append(s, e) \in Seq(S) /\ Len(Append(s, e)) = Len(s) + 1
  OBVIOUS

\* Put() sends at most one message more, and never over the capacity.
LEMMA PutTyped ==
  ASSUME Typed, Bounds, Put, sent < MaxSent
  PROVE  chan' \in Seq(Nat) /\ sent' \in Nat /\ Len(chan') <= ChanRoom /\ sent' <= MaxSent
<1>1. /\ sent + 1 \in Nat /\ chan \in Seq(Nat) /\ Len(chan) \in Nat
      /\ ChanRoom \in Nat /\ MaxSent \in Nat /\ sent \in Nat
  BY PyAssumption, PyBounds DEF Typed
<1>2. CASE Len(chan) < ChanRoom
  <2>1. chan' = Append(chan, sent + 1) /\ sent' = sent + 1
    BY <1>2 DEF Put
  <2>. QED BY <1>1, <1>2, <2>1, SeqTypes DEF Bounds
<1>3. CASE ~(Len(chan) < ChanRoom)
  BY <1>1, <1>3 DEF Put, Typed, Bounds
<1>. QED BY <1>2, <1>3

\* A call takes the GIL when nobody has it; while it waits no other call begins.
LEMMA CallTyped ==
  ASSUME TypeInv, NEW t \in Threads,
         \/ Send(t) \/ SendNew(t) \/ MakeHandle(t) \/ CallIsEmpty(t) \/ IsEmpty(t)
         \/ CallDrain(t) \/ LockBus(t) \/ UnlockBus(t)
  PROVE  TypeInv'
<1> USE DEF TypeInv, States
<1>1. CASE Send(t)
  <2>1. /\ Put /\ sent < MaxSent /\ gil = Nobody
        /\ UNCHANGED <<gil, busLock, pc, named, backlog, batch, queues, pending, turn, msgs, done>>
    BY <1>1 DEF Send, Running, locks, deliver
  <2>2. \A u \in Threads : pc[u] # "send"
    BY <2>1, PyAssumption DEF LocksHeld
  <2>3. chan' \in Seq(Nat) /\ sent' \in Nat /\ Len(chan') <= ChanRoom /\ sent' <= MaxSent
    BY <2>1, PutTyped
  <2>4. Typed' BY <2>1, <2>3 DEF Typed
  <2>5. LocksHeld' BY <2>1 DEF LocksHeld
  <2>6. AtQueue' BY <2>1 DEF AtQueue
  <2>7. Bounds' /\ BatchHeld' BY <2>1, <2>2, <2>3 DEF Bounds, BatchHeld
  <2>. QED BY <2>4, <2>5, <2>6, <2>7
<1>2. CASE MakeHandle(t)
  <2>1. /\ Put /\ pc[t] = "send" /\ busLock = Nobody /\ gil' = Nobody
        /\ pc' = [pc EXCEPT ![t] = "python"] /\ named' \subseteq Names
        /\ UNCHANGED <<busLock, backlog, batch, queues, pending, turn, msgs, done>>
    BY <1>2 DEF MakeHandle, Goto, Set, Typed, deliver
  <2>2. gil = t /\ sent < MaxSent
    BY <2>1 DEF LocksHeld, Bounds
  <2>3. chan' \in Seq(Nat) /\ sent' \in Nat /\ Len(chan') <= ChanRoom /\ sent' <= MaxSent
    BY <2>1, <2>2, PutTyped
  <2>4. Typed' BY <2>1, <2>3 DEF Typed
  <2>5. LocksHeld' BY <2>1, <2>2, PyAssumption DEF LocksHeld, Typed
  <2>6. AtQueue' BY <2>1 DEF AtQueue, Typed
  <2>7. \A u \in Threads : pc'[u] # "send"
    BY <2>1, <2>2 DEF LocksHeld, Typed
  <2>8. Bounds' /\ BatchHeld' BY <2>1, <2>3, <2>7 DEF Bounds, BatchHeld
  <2>. QED BY <2>4, <2>5, <2>6, <2>8
<1>3. CASE SendNew(t) \/ CallIsEmpty(t) \/ IsEmpty(t)
  <2>1. /\ \E to \in {"send", "ask", "python"} :
              /\ pc' = [pc EXCEPT ![t] = to]
              /\ gil' = IF to = "python" THEN Nobody ELSE t
              /\ to # "python" => pc[t] = "python" /\ gil = Nobody
              /\ to = "python" => pc[t] = "ask"
              /\ to = "send" => sent < MaxSent
        /\ UNCHANGED <<busLock, named, chan, backlog, batch, queues, pending, turn, msgs, done, sent>>
    BY <1>3 DEF SendNew, CallIsEmpty, IsEmpty, Running, Goto, Set, bus, deliver
  <2>2. Typed' BY <2>1 DEF Typed
  <2>3. LocksHeld' BY <2>1, PyAssumption DEF LocksHeld, Typed
  <2>4. AtQueue' BY <2>1 DEF AtQueue, Typed
  <2>5. Bounds' /\ BatchHeld' BY <2>1 DEF Bounds, BatchHeld, Typed
  <2>. QED BY <2>2, <2>3, <2>4, <2>5
<1>4. CASE CallDrain(t) \/ UnlockBus(t)
  <2>1. /\ \E to \in {"lock", "back"} :
              /\ pc' = [pc EXCEPT ![t] = to]
              /\ pc[t] = CASE to = "lock" -> "python" [] to = "back" -> "bus"
              /\ busLock' = CASE to = "lock" -> busLock [] to = "back" -> Nobody
              /\ to = "back" => batch = <<>>
        /\ UNCHANGED <<gil, named, chan, backlog, batch, queues, pending, turn, msgs, done, sent>>
    BY <1>4 DEF CallDrain, UnlockBus, BusDrained, Running, Goto, Set, bus, deliver, locks
  <2>2. Typed' BY <2>1 DEF Typed
  <2>3. LocksHeld' BY <2>1, PyAssumption DEF LocksHeld, Typed
  <2>4. AtQueue' BY <2>1 DEF AtQueue, Typed
  <2>5. Bounds' BY <2>1 DEF Bounds, Typed
  <2>6. BatchHeld' BY <2>1 DEF BatchHeld
  <2>. QED BY <2>2, <2>3, <2>4, <2>5, <2>6
<1>5. CASE LockBus(t)
  <2>1. /\ pc[t] = "lock" /\ busLock = Nobody /\ busLock' = t
        /\ pc' = [pc EXCEPT ![t] = "bus"] /\ batch' = backlog /\ backlog' = <<>>
        /\ UNCHANGED <<gil, named, chan, queues, pending, turn, msgs, done, sent>>
    BY <1>5 DEF LockBus, Goto, Set, deliver
  <2>2. Typed' BY <2>1 DEF Typed
  <2>3. LocksHeld'
    <3>1. \A u \in Threads : pc[u] # "bus" /\ u # Nobody
      BY <2>1, PyAssumption DEF LocksHeld
    <3>2. \A u \in Threads : pc'[u] = IF u = t THEN "bus" ELSE pc[u]
      BY <2>1 DEF Typed
    <3>3. \A u \in Threads : (gil = u) = (pc[u] \in {"send", "ask"})
      BY DEF LocksHeld
    <3>. QED BY <2>1, <3>1, <3>2, <3>3 DEF LocksHeld
  <2>4. AtQueue' BY <2>1 DEF AtQueue, Typed
  <2>5. Bounds' BY <2>1 DEF Bounds, Typed
  <2>6. BatchHeld' BY <2>1, PyAssumption DEF BatchHeld
  <2>. QED BY <2>2, <2>3, <2>4, <2>5, <2>6
<1>. QED BY <1>1, <1>2, <1>3, <1>4, <1>5

\* A message is handed to one of the callbacks that want it, or put back.
LEMMA OfferTyped ==
  ASSUME Typed, NEW m \in Nat, Offer(m)
  PROVE  pending' \in [Callbacks -> Seq(Nat)] /\ backlog' \in Seq(Nat)
<1>1. /\ backlog \in Seq(Nat) /\ pending \in [Callbacks -> Seq(Nat)] /\ Takers(m) \subseteq Callbacks
  BY DEF Typed, Takers, Registered
<1>2. CASE HandOver(m) BY <1>1, <1>2 DEF HandOver
<1>3. CASE PutBack(m) BY <1>1, <1>3, SeqTypes DEF PutBack
<1>. QED BY <1>2, <1>3 DEF Offer

\* The bus takes a message off the batch or the channel and offers it.
LEMMA RouteTyped ==
  ASSUME TypeInv, NEW t \in Threads, Route(t)
  PROVE  TypeInv'
<1> USE DEF TypeInv
<1>1. /\ pc[t] = "bus"
      /\ UNCHANGED <<gil, busLock, pc, named, queues, turn, msgs, done, raisers, sent, drains>>
  BY DEF Route, locks
<1>2. /\ chan \in Seq(Nat) /\ batch \in Seq(Nat) /\ Len(chan) \in Nat /\ Len(chan) <= ChanRoom
      /\ ChanRoom \in Nat
  BY PyAssumption DEF Typed, Bounds
<1>3. /\ chan # <<>> => Head(chan) \in Nat /\ Tail(chan) \in Seq(Nat) /\ Len(Tail(chan)) = Len(chan) - 1
      /\ batch # <<>> => Head(batch) \in Nat /\ Tail(batch) \in Seq(Nat)
  BY <1>2, SeqTypes
<1>4. /\ pending' \in [Callbacks -> Seq(Nat)] /\ chan' \in Seq(Nat) /\ backlog' \in Seq(Nat)
      /\ batch' \in Seq(Nat) /\ Len(chan') <= ChanRoom
  <2>1. CASE batch # <<>> /\ Offer(Head(batch)) /\ batch' = Tail(batch) /\ UNCHANGED chan
    BY <1>2, <1>3, <2>1, OfferTyped
  <2>2. CASE batch = <<>> /\ chan # <<>> /\ Offer(Head(chan)) /\ chan' = Tail(chan) /\ UNCHANGED batch
    BY <1>2, <1>3, <2>2, OfferTyped
  <2>. QED BY <2>1, <2>2 DEF Route
<1>5. Typed' BY <1>1, <1>4 DEF Typed
<1>6. LocksHeld' BY <1>1 DEF LocksHeld
<1>7. AtQueue' BY <1>1 DEF AtQueue
<1>8. Bounds' BY <1>1, <1>4 DEF Bounds
<1>9. BatchHeld' BY <1>1, PyAssumption DEF BatchHeld, LocksHeld
<1>. QED BY <1>5, <1>6, <1>7, <1>8, <1>9

\* What a drain() does with the GIL: it is at the queue it took its messages from.
LEMMA CallbackTyped ==
  ASSUME TypeInv, NEW t \in Threads, NextQueue(t) \/ Called(t) \/ Raised(t) \/ Return(t)
  PROVE  TypeInv'
<1> USE DEF TypeInv
<1>1. /\ queues \in Seq(Callbacks) /\ pending \in [Callbacks -> Seq(Nat)]
      /\ msgs \in [Threads -> Seq(Nat)] /\ done \in [Callbacks -> Seq(Nat)]
      /\ turn \in [Threads -> Nat] /\ pc \in [Threads -> States] /\ turn[t] \in 0..Len(queues)
      /\ pc[t] = "call" <=> turn[t] > 0
      /\ Len(queues) \in Nat /\ msgs[t] \in Seq(Nat) /\ turn[t] \in Nat
  BY DEF Typed, AtQueue
<1>2. CASE NextQueue(t)
  <2> DEFINE c == queues[turn[t] + 1]
  <2>1. /\ pc[t] \in {"back", "call"} /\ msgs[t] = <<>> /\ turn[t] < Len(queues)
        /\ msgs' = [msgs EXCEPT ![t] = pending[c]] /\ pending' = [pending EXCEPT ![c] = <<>>]
        /\ turn' = [turn EXCEPT ![t] = turn[t] + 1] /\ pc' = [pc EXCEPT ![t] = "call"]
        /\ UNCHANGED <<gil, busLock, named, chan, backlog, batch, queues, done, raisers, sent, drains>>
    BY <1>2 DEF NextQueue, Set, Goto, locks, bus
  <2>2. c \in Callbacks BY <1>1, <2>1
  <2> HIDE DEF c
  <2>7. pending[c] \in Seq(Nat) /\ <<>> \in Seq(Nat) /\ turn[t] + 1 \in Nat
    BY <1>1, <2>2
  <2>8. /\ pc' \in [Threads -> States] /\ turn' \in [Threads -> Nat]
        /\ pending' \in [Callbacks -> Seq(Nat)] /\ msgs' \in [Threads -> Seq(Nat)]
    BY <1>1, <2>1, <2>2, <2>7 DEF States
  <2>3. Typed' BY <2>1, <2>8 DEF Typed
  <2>4. LocksHeld' BY <1>1, <2>1 DEF LocksHeld
  <2>5. AtQueue' BY <1>1, <2>1 DEF AtQueue
  <2>6. Bounds' /\ BatchHeld' BY <1>1, <2>1 DEF Bounds, BatchHeld
  <2>. QED BY <2>3, <2>4, <2>5, <2>6
<1>3. CASE Called(t) \/ Raised(t)
  <2> DEFINE c == queues[turn[t]]
  <2>1. /\ pc[t] = "call" /\ msgs[t] # <<>>
        /\ UNCHANGED <<gil, busLock, pc, named, chan, backlog, batch, queues, turn, sent>>
    BY <1>3 DEF Called, Raised, Running, locks, bus
  <2>2. c \in Callbacks BY <1>1, <2>1
  <2>3. /\ pending' \in [Callbacks -> Seq(Nat)] /\ done' \in [Callbacks -> Seq(Nat)]
        /\ msgs' \in [Threads -> Seq(Nat)] /\ \A u \in Threads : msgs'[u] # <<>> => msgs[u] # <<>>
    <3>1. CASE Called(t)
      <4>1. /\ done' = [done EXCEPT ![c] = Append(done[c], Head(msgs[t]))]
            /\ msgs' = [msgs EXCEPT ![t] = Tail(msgs[t])] /\ pending' = pending
        BY <3>1 DEF Called, Set
      <4>2. Head(msgs[t]) \in Nat /\ Tail(msgs[t]) \in Seq(Nat) /\ done[c] \in Seq(Nat)
        BY <1>1, <2>1, <2>2, SeqTypes
      <4>3. Append(done[c], Head(msgs[t])) \in Seq(Nat)
        BY <4>2, SeqTypes
      <4> HIDE DEF c
      <4>. QED BY <1>1, <2>1, <2>2, <4>1, <4>2, <4>3
    <3>2. CASE Raised(t)
      <4>1. /\ pending' = [pending EXCEPT ![c] = pending[c] \o msgs[t]]
            /\ msgs' = [msgs EXCEPT ![t] = <<>>] /\ done' = done
        BY <3>2 DEF Raised, Set, FromFailed
      <4> HIDE DEF c
      <4>2. pending[c] \o msgs[t] \in Seq(Nat)
        BY <1>1, <2>2
      <4>. QED BY <1>1, <2>1, <2>2, <4>1, <4>2
    <3>. QED BY <1>3, <3>1, <3>2
  <2> HIDE DEF c
  <2>4. Typed' BY <2>1, <2>3 DEF Typed
  <2>5. LocksHeld' BY <2>1 DEF LocksHeld
  <2>6. AtQueue' BY <2>1, <2>3 DEF AtQueue
  <2>7. Bounds' /\ BatchHeld' BY <2>1 DEF Bounds, BatchHeld
  <2>. QED BY <2>4, <2>5, <2>6, <2>7
<1>4. CASE Return(t)
  <2>1. /\ pc[t] \in {"back", "call"} /\ msgs[t] = <<>>
        /\ turn' = [turn EXCEPT ![t] = 0] /\ pc' = [pc EXCEPT ![t] = "python"]
        /\ UNCHANGED <<gil, busLock, named, chan, backlog, batch, queues, pending, msgs, done, sent>>
    BY <1>4 DEF Return, Set, Goto, locks, bus
  <2>2. Typed' BY <1>1, <2>1 DEF Typed, States
  <2>3. LocksHeld' BY <1>1, <2>1 DEF LocksHeld
  <2>4. AtQueue' BY <1>1, <2>1 DEF AtQueue
  <2>5. Bounds' /\ BatchHeld' BY <1>1, <2>1 DEF Bounds, BatchHeld
  <2>. QED BY <2>2, <2>3, <2>4, <2>5
<1>. QED BY <1>2, <1>3, <1>4

\* register_consumer() adds a queue that no drain is at.
LEMMA RegisterTyped ==
  ASSUME TypeInv, NEW c \in Callbacks, RegisterConsumer(c)
  PROVE  TypeInv'
<1> USE DEF TypeInv
<1>1. /\ queues' = Append(queues, c)
      /\ UNCHANGED <<gil, busLock, pc, named, chan, backlog, batch, pending, turn, msgs, done, sent>>
  BY DEF RegisterConsumer, locks, bus, deliver
<1>2. queues \in Seq(Callbacks) /\ Len(queues) \in Nat
      /\ queues' \in Seq(Callbacks) /\ Len(queues') = Len(queues) + 1
  BY <1>1, SeqTypes DEF Typed
<1>3. Typed' BY <1>1, <1>2 DEF Typed
<1>4. LocksHeld' BY <1>1 DEF LocksHeld
<1>5. AtQueue' BY <1>1, <1>2 DEF AtQueue, Typed
<1>6. Bounds' /\ BatchHeld' BY <1>1 DEF Bounds, BatchHeld
<1>. QED BY <1>3, <1>4, <1>5, <1>6

\* Nothing has happened, and no thread holds a lock.
LEMMA TypeInit == Init => TypeInv
<1> SUFFICES ASSUME Init PROVE TypeInv
  OBVIOUS
<1>1. Typed BY DEF Init, Typed, States
<1>2. LocksHeld BY PyAssumption DEF Init, LocksHeld
<1>3. AtQueue BY DEF Init, AtQueue
<1>4. Bounds /\ BatchHeld BY PyAssumption, PyBounds DEF Init, Bounds, BatchHeld
<1>. QED BY <1>1, <1>2, <1>3, <1>4 DEF TypeInv

\* Every step keeps the types, the locks and the places of the drains.
LEMMA TypeStep == TypeInv /\ [Next]_vars => TypeInv'
<1> SUFFICES ASSUME TypeInv, [Next]_vars PROVE TypeInv'
  OBVIOUS
<1>1. CASE UNCHANGED vars
  BY <1>1 DEF vars, locks, bus, deliver, TypeInv, Typed, LocksHeld, AtQueue, Bounds, BatchHeld
<1>2. ASSUME NEW c \in Callbacks, RegisterConsumer(c) PROVE TypeInv'
  BY <1>2, RegisterTyped
<1>3. ASSUME NEW t \in Threads, Call(t) \/ GoOn(t) PROVE TypeInv'
  BY <1>3, CallTyped, RouteTyped, CallbackTyped DEF Call, GoOn
<1>. QED BY <1>1, <1>2, <1>3 DEF Next

(* Each call holds exactly the locks it says, a drain has messages only    *)
(* while it calls back and never more queues behind it than there are, and *)
(* send() never puts more on the bus than it has room for, and what a      *)
(* drain took out of the backlog is routed before it gives the bus back.   *)
THEOREM PyTypeInvariant == Spec => []TypeOK
<1>1. TypeInv => TypeOK
  <2> SUFFICES ASSUME TypeInv PROVE TypeOK
    OBVIOUS
  <2>1. Registered \subseteq Callbacks /\ named \subseteq Names
    BY DEF TypeInv, Typed, Registered
  <2>2. Len(chan) <= ChanRoom /\ sent \in 0..MaxSent
    BY PyBounds DEF TypeInv, Typed, Bounds
  <2>3. ASSUME NEW t \in Threads
        PROVE  /\ pc[t] \in {"python", "send", "ask", "lock", "bus", "back", "call"}
               /\ (gil = t) = (pc[t] \in {"send", "ask"})
               /\ (busLock = t) = (pc[t] = "bus")
               /\ turn[t] \in 0..Len(queues)
               /\ msgs[t] # <<>> => pc[t] = "call"
    BY DEF TypeInv, Typed, States, LocksHeld, AtQueue
  <2>4. batch # <<>> => busLock # Nobody
    BY DEF TypeInv, BatchHeld
  <2>. QED BY <2>1, <2>2, <2>3, <2>4 DEF TypeOK
<1>2. Spec => []TypeInv
  BY TypeInit, TypeStep, PTL DEF Spec
<1>. QED BY <1>1, <1>2, PTL

-----------------------------------------------------------------------------
(* Only callbacks that raised have messages waiting                         *)

\* What the bus hands over meanwhile, and what has been handed over, is still
\* before the drain that runs the bus: it works on no queue yet.
LEMMA ComesStep ==
  ASSUME TypeInv, SomebodyComes, [Next]_vars
  PROVE  SomebodyComes'
<1>0. /\ queues \in Seq(Callbacks) /\ pending \in [Callbacks -> Seq(Nat)]
      /\ turn \in [Threads -> Nat] /\ pc \in [Threads -> States]
      /\ DOMAIN queues = 1..Len(queues) /\ Len(queues) \in Nat
  BY SeqTypes DEF TypeInv, Typed
<1>1. ASSUME UNCHANGED <<queues, pending, raisers>>, NEW t \in Threads,
             \A u \in Threads : u # t => pc'[u] = pc[u] /\ turn'[u] = turn[u],
             \A c \in Callbacks : Ahead(t, c) => Ahead(t, c)'
      PROVE  SomebodyComes'
  BY <1>1 DEF SomebodyComes, Ahead
<1>2. ASSUME NEW t \in Threads,
             \/ Send(t) \/ SendNew(t) \/ MakeHandle(t) \/ CallIsEmpty(t) \/ IsEmpty(t)
             \/ CallDrain(t) \/ LockBus(t) \/ UnlockBus(t) \/ Called(t) \/ Return(t)
      PROVE  SomebodyComes'
  <2>1. UNCHANGED <<queues, pending, raisers>>
    BY <1>2 DEF Send, SendNew, MakeHandle, CallIsEmpty, IsEmpty, CallDrain, LockBus, UnlockBus,
       Called, Return, deliver
  <2>2. CASE Return(t)
    <3>1. \A c \in Callbacks : ~Ahead(t, c)
      BY <1>0, <2>2 DEF Return, Ahead
    <3>2. \A u \in Threads : u # t => pc'[u] = pc[u] /\ turn'[u] = turn[u]
      BY <1>0, <2>2 DEF Return, Goto, Set
    <3>. QED BY <1>1, <2>1, <3>1, <3>2
  <2>3. CASE ~Return(t)
    <3>1. /\ UNCHANGED turn
          /\ \A u \in Threads : u # t => pc'[u] = pc[u]
          /\ pc[t] \in {"bus", "back", "call"} => pc'[t] \in {"bus", "back", "call"}
      BY <1>0, <1>2, <2>3 DEF Send, SendNew, MakeHandle, CallIsEmpty, IsEmpty, CallDrain, LockBus,
         UnlockBus, Called, Running, Goto, Set, deliver
    <3>2. \A c \in Callbacks : Ahead(t, c) => Ahead(t, c)'
      BY <2>1, <3>1 DEF Ahead
    <3>. QED BY <1>1, <2>1, <3>1, <3>2
  <2>. QED BY <2>2, <2>3
<1>3. ASSUME NEW t \in Threads, Route(t) PROVE SomebodyComes'
  <2>1. pc[t] = "bus" /\ turn[t] = 0 /\ UNCHANGED <<pc, queues, turn, raisers>>
    BY <1>0, <1>3 DEF Route, TypeInv, AtQueue
  <2>2. \A c \in Registered : Ahead(t, c)'
    BY <1>0, <2>1 DEF Ahead, Registered
  <2>3. \A c \in Callbacks : pending'[c] = pending[c] \/ c \in Registered
    BY <1>0, <1>3 DEF Route, Offer, HandOver, PutBack, Takers
  <2>4. \A u \in Threads, c \in Callbacks : Ahead(u, c) => Ahead(u, c)'
    BY <2>1 DEF Ahead
  <2>. QED BY <2>1, <2>2, <2>3, <2>4 DEF SomebodyComes
<1>4. ASSUME NEW t \in Threads, NextQueue(t) PROVE SomebodyComes'
  <2> DEFINE q == queues[turn[t] + 1]
  <2>1. /\ pc[t] \in {"back", "call"} /\ turn[t] < Len(queues)
        /\ pending' = [pending EXCEPT ![q] = <<>>] /\ turn' = [turn EXCEPT ![t] = turn[t] + 1]
        /\ pc' = [pc EXCEPT ![t] = "call"] /\ UNCHANGED <<queues, raisers>>
    BY <1>4 DEF NextQueue, Set, Goto
  <2>2. q \in Callbacks BY <1>0, <2>1
  <2>3. ASSUME NEW c \in Callbacks, NEW u \in Threads, Ahead(u, c), c # q PROVE Ahead(u, c)'
    <3>1. PICK i \in DOMAIN queues : queues[i] = c /\ turn[u] < i
      BY <2>3 DEF Ahead
    <3>2. CASE u = t
      <4>1. i # turn[t] + 1 BY <2>3, <3>1
      <4>2. i \in Nat /\ turn[t] \in Nat /\ turn[t] < i BY <1>0, <3>1, <3>2
      <4>3. turn[t] + 1 < i BY <4>1, <4>2
      <4>. QED BY <1>0, <2>1, <3>1, <3>2, <4>3 DEF Ahead
    <3>3. CASE u # t
      BY <1>0, <2>1, <2>3, <3>1, <3>3 DEF Ahead
    <3>. QED BY <3>2, <3>3
  <2>4. pending'[q] = <<>> /\ \A c \in Callbacks : c # q => pending'[c] = pending[c]
    BY <1>0, <2>1, <2>2
  <2> HIDE DEF q
  <2>. QED BY <2>1, <2>3, <2>4 DEF SomebodyComes
<1>5. ASSUME NEW t \in Threads, Raised(t) PROVE SomebodyComes'
  <2> DEFINE q == queues[turn[t]]
  <2>1. /\ pending' = [pending EXCEPT ![q] = pending[q] \o msgs[t]]
        /\ raisers' = raisers \cup {q} /\ UNCHANGED <<pc, queues, turn>>
    BY <1>5 DEF Raised, Set, FromFailed
  <2>2. \A u \in Threads, c \in Callbacks : Ahead(u, c) => Ahead(u, c)'
    BY <2>1 DEF Ahead
  <2> HIDE DEF q
  <2>3. \A c \in Callbacks : c # q => pending'[c] = pending[c]
    BY <1>0, <2>1
  <2>. QED BY <2>1, <2>2, <2>3 DEF SomebodyComes
<1>6. ASSUME NEW c \in Callbacks, RegisterConsumer(c) PROVE SomebodyComes'
  <2>1. /\ \A t \in Threads : pc[t] = "python"
        /\ UNCHANGED <<pending, raisers>>
    BY <1>6 DEF RegisterConsumer, deliver
  <2>2. \A d \in Callbacks \ raisers : pending[d] = <<>>
    BY <2>1 DEF SomebodyComes, Ahead
  <2>. QED BY <2>1, <2>2 DEF SomebodyComes
<1>7. CASE UNCHANGED vars
  <2>1. UNCHANGED <<pc, queues, pending, turn, raisers>> BY <1>7 DEF vars, deliver
  <2>. QED BY <2>1 DEF SomebodyComes, Ahead
<1>. QED BY <1>2, <1>3, <1>4, <1>5, <1>6, <1>7 DEF Next, Call, GoOn

(* Once no call is under way, a callback that never raised has no message  *)
(* waiting: whoever runs the bus comes to every queue it filled, and what  *)
(* another thread's bus handed over meanwhile has a drain of its own.      *)
THEOREM OnlyRaisersWaitTheorem == Spec => []OnlyRaisersWait
<1>1. Init => SomebodyComes
  BY DEF Init, SomebodyComes
<1>2. TypeInv /\ SomebodyComes /\ [Next]_vars => SomebodyComes'
  BY ComesStep
<1>3. SomebodyComes => OnlyRaisersWait
  BY DEF SomebodyComes, Ahead, OnlyRaisersWait
<1>. QED BY TypeInit, TypeStep, <1>1, <1>2, <1>3, PTL DEF Spec

-----------------------------------------------------------------------------
(* No message is lost or in two places                                      *)

\* What the first of a sequence, one more and another sequence make of its elements.
LEMMA Elements ==
  ASSUME NEW s \in Seq(Nat), NEW r \in Seq(Nat), NEW m \in Nat, Once(s), Once(r)
  PROVE  /\ El(<<>>) = {} /\ Once(<<>>)
         /\ s # <<>> => Head(s) \in El(s) /\ El(Tail(s)) = El(s) \ {Head(s)} /\ Once(Tail(s))
         /\ El(Append(s, m)) = El(s) \cup {m}
         /\ m \notin El(s) => Once(Append(s, m))
         /\ El(s \o r) = El(s) \cup El(r)
         /\ El(s) \cap El(r) = {} => Once(s \o r)
<1>1. /\ DOMAIN s = 1..Len(s) /\ Len(s) \in Nat /\ DOMAIN r = 1..Len(r) /\ Len(r) \in Nat
  OBVIOUS
<1>2. El(<<>>) = {} /\ Once(<<>>) BY DEF El, Once
<1>3. ASSUME s # <<>>
      PROVE  Head(s) \in El(s) /\ El(Tail(s)) = El(s) \ {Head(s)} /\ Once(Tail(s))
  <2>1. /\ Len(s) > 0 /\ Head(s) = s[1] /\ DOMAIN Tail(s) = 1..(Len(s) - 1)
        /\ \A i \in 1..(Len(s) - 1) : Tail(s)[i] = s[i + 1]
    BY <1>1, <1>3
  <2>2. Head(s) \in El(s) BY <1>1, <2>1 DEF El
  <2>3. Once(Tail(s)) BY <1>1, <2>1 DEF Once
  <2>4. ASSUME NEW e \in El(Tail(s)) PROVE e \in El(s) \ {Head(s)}
    <3>1. PICK i \in 1..(Len(s) - 1) : e = s[i + 1] BY <2>1, <2>4 DEF El
    <3>2. i + 1 \in DOMAIN s /\ 1 \in DOMAIN s /\ i + 1 # 1 BY <1>1, <2>1, <3>1
    <3>3. s[i + 1] # s[1] BY <3>2 DEF Once
    <3>. QED BY <2>1, <3>1, <3>2, <3>3 DEF El
  <2>5. ASSUME NEW e \in El(s) \ {Head(s)} PROVE e \in El(Tail(s))
    <3>1. PICK i \in 1..Len(s) : e = s[i] /\ i # 1 BY <1>1, <2>1, <2>5 DEF El
    <3>2. i - 1 \in 1..(Len(s) - 1) /\ Tail(s)[i - 1] = e BY <1>1, <2>1, <3>1
    <3>. QED BY <2>1, <3>2 DEF El
  <2>. QED BY <2>2, <2>3, <2>4, <2>5
<1>4. El(Append(s, m)) = El(s) \cup {m} /\ (m \notin El(s) => Once(Append(s, m)))
  <2>1. /\ DOMAIN Append(s, m) = 1..(Len(s) + 1)
        /\ \A i \in 1..Len(s) : Append(s, m)[i] = s[i]
        /\ Append(s, m)[Len(s) + 1] = m
    BY <1>1
  <2>2. m \notin El(s) => Once(Append(s, m)) BY <1>1, <2>1 DEF Once, El
  <2>3. ASSUME NEW e \in El(Append(s, m)) PROVE e \in El(s) \cup {m}
    <3>1. PICK i \in 1..(Len(s) + 1) : e = Append(s, m)[i] BY <2>1, <2>3 DEF El
    <3>2. i \in 1..Len(s) \/ i = Len(s) + 1 BY <1>1, <3>1
    <3>. QED BY <1>1, <2>1, <3>1, <3>2 DEF El
  <2>4. ASSUME NEW e \in El(s) \cup {m} PROVE e \in El(Append(s, m))
    <3>1. CASE e = m
      <4>1. Len(s) + 1 \in DOMAIN Append(s, m) BY <1>1, <2>1
      <4>. QED BY <2>1, <3>1, <4>1 DEF El
    <3>2. CASE e \in El(s)
      <4>1. PICK i \in 1..Len(s) : e = s[i] BY <1>1, <3>2 DEF El
      <4>2. i \in DOMAIN Append(s, m) BY <1>1, <2>1
      <4>. QED BY <2>1, <4>1, <4>2 DEF El
    <3>. QED BY <2>4, <3>1, <3>2
  <2>. QED BY <2>2, <2>3, <2>4
<1>5. El(s \o r) = El(s) \cup El(r) /\ (El(s) \cap El(r) = {} => Once(s \o r))
  <2>1. /\ DOMAIN (s \o r) = 1..(Len(s) + Len(r))
        /\ \A i \in 1..Len(s) : (s \o r)[i] = s[i]
        /\ \A i \in 1..(Len(s) + Len(r)) : i > Len(s) => (s \o r)[i] = r[i - Len(s)]
    BY <1>1
  <2>2. ASSUME NEW e \in El(s \o r) PROVE e \in El(s) \cup El(r)
    BY <1>1, <2>1 DEF El
  <2>3. ASSUME NEW e \in El(s) PROVE e \in El(s \o r)
    BY <1>1, <2>1 DEF El
  <2>4. ASSUME NEW e \in El(r) PROVE e \in El(s \o r)
    <3>1. PICK j \in 1..Len(r) : e = r[j] BY <1>1 DEF El
    <3>2. /\ Len(s) + j \in 1..(Len(s) + Len(r)) /\ (s \o r)[Len(s) + j] = r[j]
      BY <1>1, <2>1, <3>1
    <3>. QED BY <2>1, <3>1, <3>2 DEF El
  <2>5. ASSUME El(s) \cap El(r) = {}, NEW i \in DOMAIN (s \o r), NEW j \in DOMAIN (s \o r),
               (s \o r)[i] = (s \o r)[j]
        PROVE  i = j
    <3>1. ASSUME NEW p \in 1..(Len(s) + Len(r)), NEW q \in 1..(Len(s) + Len(r)),
                 p <= Len(s), q > Len(s)
          PROVE  (s \o r)[p] # (s \o r)[q]
      <4>1. p \in 1..Len(s) /\ q - Len(s) \in 1..Len(r) BY <1>1, <3>1
      <4>2. (s \o r)[p] = s[p] /\ (s \o r)[q] = r[q - Len(s)] BY <2>1, <3>1, <4>1
      <4>3. s[p] \in El(s) /\ r[q - Len(s)] \in El(r) BY <1>1, <4>1 DEF El
      <4>. QED BY <2>5, <4>2, <4>3
    <3>2. CASE i <= Len(s) /\ j <= Len(s)
      <4>1. i \in DOMAIN s /\ j \in DOMAIN s BY <1>1, <2>1, <2>5, <3>2
      <4>. QED BY <1>1, <2>1, <2>5, <4>1 DEF Once
    <3>3. CASE i > Len(s) /\ j > Len(s)
      <4>1. i - Len(s) \in DOMAIN r /\ j - Len(s) \in DOMAIN r BY <1>1, <2>1, <2>5, <3>3
      <4>2. r[i - Len(s)] = r[j - Len(s)] BY <2>1, <2>5, <3>3
      <4>3. i - Len(s) = j - Len(s) BY <4>1, <4>2 DEF Once
      <4>. QED BY <1>1, <2>1, <2>5, <4>3
    <3>4. i \in 1..(Len(s) + Len(r)) /\ j \in 1..(Len(s) + Len(r)) BY <2>1, <2>5
    <3>5. /\ (i <= Len(s)) \/ (i > Len(s))
          /\ (j <= Len(s)) \/ (j > Len(s))
      BY <1>1, <3>4
    <3>. QED BY <2>5, <3>1, <3>2, <3>3, <3>4, <3>5
  <2>6. El(s) \cap El(r) = {} => Once(s \o r)
    BY <2>5 DEF Once
  <2>. QED BY <2>2, <2>3, <2>4, <2>6
<1>. QED BY <1>2, <1>3, <1>4, <1>5

\* From f to g the messages M go from one place to another, and no others.
Moves(f, g, k, x, l, y, M) ==
  /\ DOMAIN g = DOMAIN f /\ \A h \in DOMAIN f : DOMAIN g[h] = DOMAIN f[h]
  /\ k \in DOMAIN f /\ x \in DOMAIN f[k]
  /\ l \in DOMAIN f /\ y \in DOMAIN f[l]
  /\ k # l \/ x # y
  /\ M \subseteq El(f[k][x])
  /\ Once(g[k][x]) /\ El(g[k][x]) = El(f[k][x]) \ M
  /\ Once(g[l][y]) /\ El(g[l][y]) = El(f[l][y]) \cup M
  /\ \A h \in DOMAIN f : \A z \in DOMAIN f[h] :
       (h # k \/ z # x) /\ (h # l \/ z # y) => g[h][z] = f[h][z]

\* Messages that go from one place to another are still in one place, once.
LEMMA MoveKeeps ==
  ASSUME NEW n, NEW f, NEW g, NEW k, NEW x, NEW l, NEW y, NEW M,
         Placed(f, n), Moves(f, g, k, x, l, y, M)
  PROVE  Placed(g, n)
<1>1. /\ \A h \in DOMAIN f : \A z \in DOMAIN f[h] : Once(f[h][z]) /\ El(f[h][z]) \subseteq 1..n
      /\ \A h, j \in DOMAIN f : \A z \in DOMAIN f[h], w \in DOMAIN f[j] :
           h # j \/ z # w => El(f[h][z]) \cap El(f[j][w]) = {}
      /\ \A m \in 1..n : \E h \in DOMAIN f : \E z \in DOMAIN f[h] : m \in El(f[h][z])
  BY DEF Placed
<1> USE DEF Moves
<1>2. ASSUME NEW h \in DOMAIN f, NEW z \in DOMAIN f[h]
      PROVE  Once(g[h][z]) /\ El(g[h][z]) \subseteq 1..n
  BY <1>1
\* Where a message of the new places was before the step.
<1>3. ASSUME NEW h \in DOMAIN f, NEW z \in DOMAIN f[h], NEW m \in El(g[h][z])
      PROVE  IF m \in M THEN h = l /\ z = y /\ m \in El(f[k][x]) ELSE m \in El(f[h][z])
  <2>1. CASE h = k /\ z = x BY <2>1
  <2>2. CASE h = l /\ z = y BY <2>2
  <2>3. CASE (h # k \/ z # x) /\ (h # l \/ z # y)
    <3>1. m \in El(f[h][z]) BY <2>3
    <3>2. El(f[h][z]) \cap El(f[k][x]) = {} BY <1>1, <2>3
    <3>. QED BY <3>1, <3>2
  <2>. QED BY <2>1, <2>2, <2>3
<1>4. ASSUME NEW h \in DOMAIN f, NEW z \in DOMAIN f[h], NEW j \in DOMAIN f, NEW w \in DOMAIN f[j],
             h # j \/ z # w, NEW m \in El(g[h][z]), m \in El(g[j][w])
      PROVE  FALSE
  <2>1. CASE m \in M BY <1>3, <1>4, <2>1
  <2>2. CASE m \notin M
    <3>1. m \in El(f[h][z]) /\ m \in El(f[j][w]) BY <1>3, <1>4, <2>2
    <3>. QED BY <1>1, <1>4, <3>1
  <2>. QED BY <2>1, <2>2
<1>5. ASSUME NEW m \in 1..n
      PROVE  \E h \in DOMAIN f : \E z \in DOMAIN f[h] : m \in El(g[h][z])
  <2>1. CASE m \in M BY <2>1
  <2>2. CASE m \notin M
    <3>1. PICK h \in DOMAIN f : \E z \in DOMAIN f[h] : m \in El(f[h][z]) BY <1>1
    <3>2. PICK z \in DOMAIN f[h] : m \in El(f[h][z]) BY <3>1
    <3>3. m \in El(g[h][z])
      <4>1. CASE h = k /\ z = x BY <2>2, <3>2, <4>1
      <4>2. CASE h = l /\ z = y BY <3>2, <4>2
      <4>3. CASE (h # k \/ z # x) /\ (h # l \/ z # y) BY <3>2, <4>3
      <4>. QED BY <4>1, <4>2, <4>3
    <3>. QED BY <3>3
  <2>. QED BY <2>1, <2>2
<1>. QED BY <1>2, <1>4, <1>5 DEF Placed

\* The next message, put in one place, is in that one only.
LEMMA GainKeeps ==
  ASSUME NEW n \in Nat, NEW f, NEW g, Placed(f, n),
         DOMAIN g = DOMAIN f, \A h \in DOMAIN f : DOMAIN g[h] = DOMAIN f[h],
         NEW k \in DOMAIN f, NEW x \in DOMAIN f[k],
         Once(g[k][x]), El(g[k][x]) = El(f[k][x]) \cup {n + 1},
         \A h \in DOMAIN f : \A z \in DOMAIN f[h] : h # k \/ z # x => g[h][z] = f[h][z]
  PROVE  Placed(g, n + 1)
<1>0. 1..(n + 1) = 1..n \cup {n + 1} /\ n + 1 \notin 1..n
  OBVIOUS
<1>1. /\ \A h \in DOMAIN f : \A z \in DOMAIN f[h] : Once(f[h][z]) /\ El(f[h][z]) \subseteq 1..n
      /\ \A h, j \in DOMAIN f : \A z \in DOMAIN f[h], w \in DOMAIN f[j] :
           h # j \/ z # w => El(f[h][z]) \cap El(f[j][w]) = {}
      /\ \A m \in 1..n : \E h \in DOMAIN f : \E z \in DOMAIN f[h] : m \in El(f[h][z])
  BY DEF Placed
<1> DEFINE N == n + 1
<1> HIDE DEF N
<1>2. ASSUME NEW h \in DOMAIN f, NEW z \in DOMAIN f[h]
      PROVE  Once(g[h][z]) /\ El(g[h][z]) \subseteq 1..N
  BY <1>0, <1>1 DEF N
<1>3. ASSUME NEW h \in DOMAIN f, NEW z \in DOMAIN f[h], NEW m \in El(g[h][z])
      PROVE  m \in El(f[h][z]) \/ (m = N /\ h = k /\ z = x)
  BY DEF N
<1>4. \A h \in DOMAIN f : \A z \in DOMAIN f[h] : N \notin El(f[h][z])
  BY <1>0, <1>1 DEF N
<1>5. ASSUME NEW h \in DOMAIN f, NEW z \in DOMAIN f[h], NEW j \in DOMAIN f, NEW w \in DOMAIN f[j],
             h # j \/ z # w, NEW m \in El(g[h][z]), m \in El(g[j][w])
      PROVE  FALSE
  BY <1>1, <1>3, <1>4, <1>5
<1>6. ASSUME NEW m \in 1..N
      PROVE  \E h \in DOMAIN f : \E z \in DOMAIN f[h] : m \in El(g[h][z])
  <2>1. CASE m = N BY <2>1 DEF N
  <2>2. CASE m \in 1..n
    <3>1. PICK h \in DOMAIN f : \E z \in DOMAIN f[h] : m \in El(f[h][z]) BY <1>1, <2>2
    <3>2. PICK z \in DOMAIN f[h] : m \in El(f[h][z]) BY <3>1
    <3>3. m \in El(g[h][z]) BY <3>2
    <3>. QED BY <3>3
  <2>. QED BY <1>0, <2>1, <2>2 DEF N
<1>7. Placed(g, N) BY <1>2, <1>5, <1>6 DEF Placed
<1>. QED BY <1>7 DEF N

\* The places, and what the invariant says of those a step is about.
LEMMA PlacesAre ==
  ASSUME TypeInv
  PROVE  /\ DOMAIN Places = {"chan", "backlog", "batch", "pending", "done", "msgs"}
         /\ DOMAIN Places.chan = {Nobody} /\ Places.chan[Nobody] = chan
         /\ DOMAIN Places.backlog = {Nobody} /\ Places.backlog[Nobody] = backlog
         /\ DOMAIN Places.batch = {Nobody} /\ Places.batch[Nobody] = batch
         /\ DOMAIN Places.pending = Callbacks /\ Places.pending = pending
         /\ DOMAIN Places.done = Callbacks /\ Places.done = done
         /\ DOMAIN Places.msgs = Threads /\ Places.msgs = msgs
         /\ \A k \in DOMAIN Places : \A x \in DOMAIN Places[k] : Places[k][x] \in Seq(Nat)
  BY DEF TypeInv, Typed, Places

\* The places are the same ones in every state.
LEMMA SamePlaces ==
  ASSUME TypeInv, TypeInv'
  PROVE  /\ DOMAIN Places' = DOMAIN Places
         /\ \A k \in DOMAIN Places : DOMAIN Places'[k] = DOMAIN Places[k]
<1>1. /\ DOMAIN Places = {"chan", "backlog", "batch", "pending", "done", "msgs"}
      /\ DOMAIN Places' = {"chan", "backlog", "batch", "pending", "done", "msgs"}
  BY DEF Places
<1>2. /\ Places.chan = [x \in {Nobody} |-> chan] /\ Places'.chan = [x \in {Nobody} |-> chan']
      /\ Places.backlog = [x \in {Nobody} |-> backlog]
      /\ Places'.backlog = [x \in {Nobody} |-> backlog']
      /\ Places.batch = [x \in {Nobody} |-> batch] /\ Places'.batch = [x \in {Nobody} |-> batch']
      /\ Places.pending = pending /\ Places'.pending = pending'
      /\ Places.done = done /\ Places'.done = done'
      /\ Places.msgs = msgs /\ Places'.msgs = msgs'
  BY DEF Places
<1>3. DOMAIN pending = DOMAIN pending' /\ DOMAIN done = DOMAIN done' /\ DOMAIN msgs = DOMAIN msgs'
  BY DEF TypeInv, Typed
<1>4. /\ DOMAIN Places.chan = DOMAIN Places'.chan /\ DOMAIN Places.backlog = DOMAIN Places'.backlog
      /\ DOMAIN Places.batch = DOMAIN Places'.batch
  BY <1>2
<1>. QED BY <1>1, <1>2, <1>3, <1>4

\* A message that is accepted is on the channel.
LEMMA PutOnce ==
  ASSUME TypeInv, TypeInv', OncePlaced, Put, UNCHANGED <<backlog, batch, pending, done, msgs>>
  PROVE  OncePlaced'
<1>1. CASE UNCHANGED <<chan, sent>>
  BY <1>1 DEF OncePlaced, Places
<1>2. CASE chan' = Append(chan, sent + 1) /\ sent' = sent + 1
  <2>1. sent \in Nat /\ chan \in Seq(Nat) /\ sent + 1 \in Nat BY DEF TypeInv, Typed
  <2>2. Once(chan) /\ El(chan) \subseteq 1..sent
    BY PlacesAre DEF OncePlaced, Placed
  <2>3. sent + 1 \notin El(chan) BY <2>1, <2>2
  <2>4. Once(chan') /\ El(chan') = El(chan) \cup {sent + 1}
    BY <1>2, <2>1, <2>2, <2>3, Elements
  <2>5. /\ "chan" \in DOMAIN Places /\ Nobody \in DOMAIN Places["chan"]
        /\ Places["chan"][Nobody] = chan /\ Places'["chan"][Nobody] = chan'
    BY DEF Places
  <2>6. \A h \in DOMAIN Places : \A z \in DOMAIN Places[h] :
          h # "chan" \/ z # Nobody => Places'[h][z] = Places[h][z]
    BY DEF Places
  <2>7. Placed(Places, sent) BY DEF OncePlaced
  <2>8. /\ DOMAIN Places' = DOMAIN Places
        /\ \A k \in DOMAIN Places : DOMAIN Places'[k] = DOMAIN Places[k]
    BY SamePlaces
  <2> DEFINE f == Places
             g == Places'
             k == "chan"
  <2>9. Placed(g, sent + 1)
    <3>1. Once(g[k][Nobody]) /\ El(g[k][Nobody]) = El(f[k][Nobody]) \cup {sent + 1}
      BY <2>4, <2>5
    <3>2. k \in DOMAIN f /\ Nobody \in DOMAIN f[k] /\ Placed(f, sent) BY <2>5, <2>7
    <3>3. /\ DOMAIN g = DOMAIN f /\ \A h \in DOMAIN f : DOMAIN g[h] = DOMAIN f[h]
          /\ \A h \in DOMAIN f : \A z \in DOMAIN f[h] : h # k \/ z # Nobody => g[h][z] = f[h][z]
      BY <2>6, <2>8
    <3> HIDE DEF f, g, k
    <3>. QED BY <2>1, <3>1, <3>2, <3>3, GainKeeps
  <2>. QED BY <1>2, <2>9 DEF OncePlaced
<1>. QED BY <1>1, <1>2 DEF Put

\* The sequences of any two different places have no element in common.
LEMMA Apart ==
  ASSUME TypeInv, OncePlaced,
         NEW k \in DOMAIN Places, NEW x \in DOMAIN Places[k],
         NEW l \in DOMAIN Places, NEW y \in DOMAIN Places[l], k # l \/ x # y
  PROVE  /\ Once(Places[k][x]) /\ Once(Places[l][y])
         /\ Places[k][x] \in Seq(Nat) /\ Places[l][y] \in Seq(Nat)
         /\ El(Places[k][x]) \cap El(Places[l][y]) = {}
  BY PlacesAre DEF OncePlaced, Placed

\* From f to g the first message of one place, or all of them, go to the end of another.
Goes(f, g, k, x, l, y) ==
  /\ k \in DOMAIN f /\ x \in DOMAIN f[k]
  /\ l \in DOMAIN f /\ y \in DOMAIN f[l]
  /\ k # l \/ x # y
  /\ \A h \in DOMAIN f : \A z \in DOMAIN f[h] :
       (h # k \/ z # x) /\ (h # l \/ z # y) => g[h][z] = f[h][z]
HeadGoes(f, g, k, x, l, y) ==
  /\ Goes(f, g, k, x, l, y)
  /\ f[k][x] # <<>> /\ g[k][x] = Tail(f[k][x]) /\ g[l][y] = Append(f[l][y], Head(f[k][x]))
AllGo(f, g, k, x, l, y) ==
  /\ Goes(f, g, k, x, l, y)
  /\ g[k][x] = <<>> /\ g[l][y] = f[l][y] \o f[k][x]

\* The first message of one place goes to the end of another.
LEMMA HeadMoves ==
  ASSUME TypeInv, TypeInv', OncePlaced, UNCHANGED sent,
         NEW k, NEW x, NEW l, NEW y, HeadGoes(Places, Places', k, x, l, y)
  PROVE  OncePlaced'
<1> USE DEF HeadGoes, Goes
<1> DEFINE s == Places[k][x]
           r == Places[l][y]
           m == Head(s)
<1>1. /\ Once(s) /\ Once(r) /\ s \in Seq(Nat) /\ r \in Seq(Nat) /\ El(s) \cap El(r) = {}
      /\ s # <<>> /\ Places'[k][x] = Tail(s) /\ Places'[l][y] = Append(r, m)
  BY Apart
<1>2. m \in El(s) /\ El(Tail(s)) = El(s) \ {m} /\ Once(Tail(s)) /\ m \in Nat
      /\ El(Append(r, m)) = El(r) \cup {m} /\ Once(Append(r, m))
  <2> HIDE DEF s, r
  <2>1. m \in Nat BY <1>1, SeqTypes
  <2>2. m \in El(s) /\ El(Tail(s)) = El(s) \ {m} /\ Once(Tail(s)) BY <1>1, <2>1, Elements
  <2>3. m \notin El(r) BY <1>1, <2>2
  <2>. QED BY <1>1, <2>1, <2>2, <2>3, Elements
<1>3. Moves(Places, Places', k, x, l, y, {m})
  BY <1>1, <1>2, SamePlaces DEF Moves
<1>4. Placed(Places, sent) BY DEF OncePlaced
<1> HIDE DEF m
<1>5. Placed(Places', sent) BY <1>3, <1>4, MoveKeeps
<1>. QED BY <1>5 DEF OncePlaced

\* All messages of one place go to the end of another.
LEMMA AllMove ==
  ASSUME TypeInv, TypeInv', OncePlaced, UNCHANGED sent,
         NEW k, NEW x, NEW l, NEW y, AllGo(Places, Places', k, x, l, y)
  PROVE  OncePlaced'
<1> USE DEF AllGo, Goes
<1> DEFINE s == Places[k][x]
           r == Places[l][y]
<1>1. /\ Once(s) /\ Once(r) /\ s \in Seq(Nat) /\ r \in Seq(Nat) /\ El(s) \cap El(r) = {}
      /\ Places'[k][x] = <<>> /\ Places'[l][y] = r \o s
  BY Apart
<1>2. /\ El(<<>>) = {} /\ Once(<<>>)
      /\ El(r \o s) = El(r) \cup El(s) /\ Once(r \o s)
  <2> HIDE DEF s, r
  <2>1. 0 \in Nat /\ El(r) \cap El(s) = {} BY <1>1
  <2>. QED BY <1>1, <2>1, Elements
<1>3. Moves(Places, Places', k, x, l, y, El(s))
  BY <1>1, <1>2, SamePlaces DEF Moves
<1>4. Placed(Places, sent) BY DEF OncePlaced
<1> HIDE DEF s
<1>5. Placed(Places', sent) BY <1>3, <1>4, MoveKeeps
<1>. QED BY <1>5 DEF OncePlaced

\* A message at the head of a queue of the bus goes to a callback's queue or to
\* the backlog.
LEMMA OfferOnce ==
  ASSUME TypeInv, TypeInv', OncePlaced, UNCHANGED <<sent, done, msgs>>,
         NEW k \in {"chan", "batch"}, NEW s \in Seq(Nat), s # <<>>, Offer(Head(s)),
         Places[k][Nobody] = s, Places'[k][Nobody] = Tail(s),
         \A l \in {"chan", "batch"} : l # k => Places'[l] = Places[l]
  PROVE  OncePlaced'
<1>0. Typed BY DEF TypeInv
<1>1. /\ pending \in [Callbacks -> Seq(Nat)] /\ Takers(Head(s)) \subseteq Callbacks
      /\ DOMAIN Places = {"chan", "backlog", "batch", "pending", "done", "msgs"}
      /\ DOMAIN Places[k] = {Nobody}
  BY <1>0 DEF Typed, Takers, Registered, Places
<1>2. Places.done = Places'.done /\ Places.msgs = Places'.msgs
  BY DEF Places
<1>3. CASE HandOver(Head(s))
  <2>1. PICK c \in Callbacks : pending' = [pending EXCEPT ![c] = Append(pending[c], Head(s))]
    BY <1>1, <1>3 DEF HandOver
  <2>2. /\ Places.backlog = Places'.backlog
        /\ c \in DOMAIN Places["pending"] /\ Places["pending"][c] = pending[c]
        /\ Places'["pending"][c] = Append(pending[c], Head(s))
        /\ \A z \in DOMAIN Places["pending"] : z # c => Places'["pending"][z] = Places["pending"][z]
    BY <1>1, <1>3, <2>1 DEF Places, HandOver
  <2>3. \A h \in DOMAIN Places : \A z \in DOMAIN Places[h] :
          (h # k \/ z # Nobody) /\ (h # "pending" \/ z # c) => Places'[h][z] = Places[h][z]
    BY <1>1, <1>2, <2>2
  <2>4. HeadGoes(Places, Places', k, Nobody, "pending", c)
    BY <1>1, <2>2, <2>3 DEF HeadGoes, Goes
  <2>. QED BY <2>4, HeadMoves
<1>4. CASE PutBack(Head(s))
  <2>1. /\ Places.pending = Places'.pending
        /\ DOMAIN Places["backlog"] = {Nobody} /\ Places["backlog"][Nobody] = backlog
        /\ Places'["backlog"][Nobody] = Append(backlog, Head(s))
    BY <1>4 DEF Places, PutBack
  <2>2. \A h \in DOMAIN Places : \A z \in DOMAIN Places[h] :
          (h # k \/ z # Nobody) /\ (h # "backlog" \/ z # Nobody) => Places'[h][z] = Places[h][z]
    BY <1>1, <1>2, <2>1
  <2>3. HeadGoes(Places, Places', k, Nobody, "backlog", Nobody)
    BY <1>1, <2>1, <2>2 DEF HeadGoes, Goes
  <2>. QED BY <2>3, HeadMoves
<1>. QED BY <1>3, <1>4 DEF Offer

\* The bus routes the first of the batch, or of the channel.
LEMMA RouteOnce ==
  ASSUME TypeInv, TypeInv', OncePlaced, NEW t \in Threads, Route(t)
  PROVE  OncePlaced'
<1>1. chan \in Seq(Nat) /\ batch \in Seq(Nat) BY DEF TypeInv, Typed
<1>2. UNCHANGED <<sent, done, msgs>> BY DEF Route
<1>3. CASE batch # <<>> /\ Offer(Head(batch)) /\ batch' = Tail(batch) /\ UNCHANGED chan
  <2>1. /\ Places["batch"][Nobody] = batch /\ Places'["batch"][Nobody] = Tail(batch)
        /\ Places'["chan"] = Places["chan"]
    BY <1>3 DEF Places
  <2>. QED BY <1>1, <1>2, <1>3, <2>1, OfferOnce
<1>4. CASE batch = <<>> /\ chan # <<>> /\ Offer(Head(chan)) /\ chan' = Tail(chan) /\ UNCHANGED batch
  <2>1. /\ Places["chan"][Nobody] = chan /\ Places'["chan"][Nobody] = Tail(chan)
        /\ Places'["batch"] = Places["batch"]
    BY <1>4 DEF Places
  <2>. QED BY <1>1, <1>2, <1>4, <2>1, OfferOnce
<1>. QED BY <1>3, <1>4 DEF Route

\* A drain() that takes the bus takes the whole backlog, having no batch yet.
LEMMA LockBusOnce ==
  ASSUME TypeInv, TypeInv', OncePlaced, NEW t \in Threads, LockBus(t)
  PROVE  OncePlaced'
<1>1. /\ batch' = backlog /\ backlog' = <<>> /\ batch = <<>>
      /\ UNCHANGED <<chan, pending, done, msgs, sent>>
  BY DEF LockBus, TypeInv, BatchHeld, deliver
<1>2. /\ "backlog" \in DOMAIN Places /\ Nobody \in DOMAIN Places["backlog"]
      /\ "batch" \in DOMAIN Places /\ Nobody \in DOMAIN Places["batch"]
      /\ Places["backlog"][Nobody] = backlog /\ Places'["backlog"][Nobody] = <<>>
      /\ Places["batch"][Nobody] = <<>> /\ Places'["batch"][Nobody] = backlog
  BY <1>1 DEF Places
<1>3. backlog = <<>> \o backlog
  BY DEF TypeInv, Typed
<1>4. \A h \in DOMAIN Places : \A z \in DOMAIN Places[h] :
        (h # "backlog" \/ z # Nobody) /\ (h # "batch" \/ z # Nobody) => Places'[h][z] = Places[h][z]
  BY <1>1 DEF Places
<1>5. AllGo(Places, Places', "backlog", Nobody, "batch", Nobody)
  BY <1>2, <1>3, <1>4 DEF AllGo, Goes
<1>. QED BY <1>1, <1>5, AllMove

\* A drain() takes a whole queue; it is the only one to have its messages then.
LEMMA NextQueueOnce ==
  ASSUME TypeInv, TypeInv', OncePlaced, NEW t \in Threads, NextQueue(t)
  PROVE  OncePlaced'
<1> DEFINE c == queues[turn[t] + 1]
<1>1. /\ msgs[t] = <<>> /\ turn[t] < Len(queues)
      /\ msgs' = [msgs EXCEPT ![t] = pending[c]] /\ pending' = [pending EXCEPT ![c] = <<>>]
      /\ UNCHANGED <<chan, backlog, batch, done, sent>>
  BY DEF NextQueue, Set, bus
<1>2. /\ pending \in [Callbacks -> Seq(Nat)] /\ msgs \in [Threads -> Seq(Nat)]
      /\ queues \in Seq(Callbacks) /\ turn[t] \in Nat
  BY DEF TypeInv, Typed
<1>3. c \in Callbacks BY <1>1, <1>2
<1> HIDE DEF c
<1>4. /\ "pending" \in DOMAIN Places /\ c \in DOMAIN Places["pending"]
      /\ "msgs" \in DOMAIN Places /\ t \in DOMAIN Places["msgs"]
      /\ Places["pending"][c] = pending[c] /\ Places'["pending"][c] = <<>>
      /\ Places["msgs"][t] = <<>> /\ Places'["msgs"][t] = pending[c]
  BY <1>1, <1>2, <1>3 DEF Places
<1>5. pending[c] = <<>> \o pending[c]
  BY <1>2, <1>3
<1>6. \A h \in DOMAIN Places : \A z \in DOMAIN Places[h] :
        (h # "pending" \/ z # c) /\ (h # "msgs" \/ z # t) => Places'[h][z] = Places[h][z]
  BY <1>1, <1>2 DEF Places
<1>7. AllGo(Places, Places', "pending", c, "msgs", t)
  BY <1>4, <1>5, <1>6 DEF AllGo, Goes
<1>. QED BY <1>1, <1>7, AllMove

\* What a callback took is done; what it raised on goes back, with the rest.
LEMMA CallbackOnce ==
  ASSUME TypeInv, TypeInv', OncePlaced, NEW t \in Threads, Called(t) \/ Raised(t)
  PROVE  OncePlaced'
<1> DEFINE c == queues[turn[t]]
<1>1. /\ pc[t] = "call" /\ msgs[t] # <<>> /\ UNCHANGED <<chan, backlog, batch, sent>>
  BY DEF Called, Raised, Running, bus
<1>2. /\ pending \in [Callbacks -> Seq(Nat)] /\ msgs \in [Threads -> Seq(Nat)]
      /\ done \in [Callbacks -> Seq(Nat)] /\ queues \in Seq(Callbacks)
      /\ turn[t] \in 1..Len(queues)
  <2>1. Typed /\ AtQueue BY DEF TypeInv
  <2>2. turn[t] \in 0..Len(queues) /\ turn[t] > 0 BY <1>1, <2>1 DEF AtQueue
  <2>. QED BY <2>1, <2>2 DEF Typed
<1>3. c \in Callbacks BY <1>2
<1>4. CASE Called(t)
  <2>1. /\ done' = [done EXCEPT ![c] = Append(done[c], Head(msgs[t]))]
        /\ msgs' = [msgs EXCEPT ![t] = Tail(msgs[t])] /\ pending' = pending
    BY <1>4 DEF Called, Set
  <2> HIDE DEF c
  <2>2. /\ "msgs" \in DOMAIN Places /\ t \in DOMAIN Places["msgs"]
        /\ "done" \in DOMAIN Places /\ c \in DOMAIN Places["done"]
        /\ Places["msgs"][t] = msgs[t] /\ Places'["msgs"][t] = Tail(msgs[t])
        /\ Places["done"][c] = done[c] /\ Places'["done"][c] = Append(done[c], Head(msgs[t]))
    BY <1>2, <1>3, <2>1 DEF Places
  <2>3. \A h \in DOMAIN Places : \A z \in DOMAIN Places[h] :
          (h # "msgs" \/ z # t) /\ (h # "done" \/ z # c) => Places'[h][z] = Places[h][z]
    BY <1>1, <1>2, <2>1 DEF Places
  <2>4. HeadGoes(Places, Places', "msgs", t, "done", c)
    BY <1>1, <2>2, <2>3 DEF HeadGoes, Goes
  <2>. QED BY <1>1, <2>4, HeadMoves
<1>5. CASE Raised(t)
  <2>1. /\ pending' = [pending EXCEPT ![c] = pending[c] \o msgs[t]]
        /\ msgs' = [msgs EXCEPT ![t] = <<>>] /\ done' = done
    BY <1>5 DEF Raised, Set, FromFailed
  <2> HIDE DEF c
  <2>2. /\ "msgs" \in DOMAIN Places /\ t \in DOMAIN Places["msgs"]
        /\ "pending" \in DOMAIN Places /\ c \in DOMAIN Places["pending"]
        /\ Places["msgs"][t] = msgs[t] /\ Places'["msgs"][t] = <<>>
        /\ Places["pending"][c] = pending[c] /\ Places'["pending"][c] = pending[c] \o msgs[t]
    BY <1>2, <1>3, <2>1 DEF Places
  <2>3. \A h \in DOMAIN Places : \A z \in DOMAIN Places[h] :
          (h # "msgs" \/ z # t) /\ (h # "pending" \/ z # c) => Places'[h][z] = Places[h][z]
    BY <1>1, <1>2, <2>1 DEF Places
  <2>4. AllGo(Places, Places', "msgs", t, "pending", c)
    BY <1>1, <2>2, <2>3 DEF AllGo, Goes
  <2>. QED BY <1>1, <2>4, AllMove
<1>. QED BY <1>4, <1>5

\* At first there are no messages.
LEMMA OnceInit == Init => OncePlaced
<1> SUFFICES ASSUME Init PROVE OncePlaced
  OBVIOUS
<1>1. \A k \in DOMAIN Places : \A x \in DOMAIN Places[k] : Places[k][x] = <<>>
  BY DEF Init, Places
<1>2. Once(<<>>) /\ El(<<>>) = {} BY DEF Once, El
<1>3. 1..sent = {} BY DEF Init
<1>. QED BY <1>1, <1>2, <1>3 DEF OncePlaced, Placed

\* Every step keeps each message in its place, or moves it to one other.
LEMMA OnceStep == TypeInv /\ TypeInv' /\ OncePlaced /\ [Next]_vars => OncePlaced'
<1> SUFFICES ASSUME TypeInv, TypeInv', OncePlaced, [Next]_vars PROVE OncePlaced'
  OBVIOUS
<1>1. CASE UNCHANGED <<chan, backlog, batch, pending, done, msgs, sent>>
  BY <1>1 DEF OncePlaced, Places
<1>2. ASSUME NEW t \in Threads, Send(t) \/ MakeHandle(t) PROVE OncePlaced'
  <2>1. Put /\ UNCHANGED <<backlog, batch, pending, done, msgs>>
    BY <1>2 DEF Send, MakeHandle, deliver
  <2>. QED BY <2>1, PutOnce
<1>3. ASSUME NEW t \in Threads, GoOn(t) \/ Call(t) PROVE OncePlaced'
  <2>1. CASE \/ SendNew(t) \/ CallIsEmpty(t) \/ IsEmpty(t) \/ CallDrain(t)
             \/ UnlockBus(t) \/ Return(t)
    BY <1>1, <2>1 DEF SendNew, CallIsEmpty, IsEmpty, CallDrain, UnlockBus, Return, bus, deliver
  <2>. QED BY <1>2, <1>3, <2>1, LockBusOnce, RouteOnce, NextQueueOnce, CallbackOnce DEF GoOn, Call
<1>4. ASSUME NEW c \in Callbacks, RegisterConsumer(c) PROVE OncePlaced'
  BY <1>1, <1>4 DEF RegisterConsumer, bus, deliver
<1>5. CASE UNCHANGED vars
  BY <1>1, <1>5 DEF vars, bus, deliver
<1>. QED BY <1>3, <1>4, <1>5 DEF Next

\* How often a message is in a place that has none twice.
LEMMA Counted ==
  ASSUME NEW s \in Seq(Nat), Once(s), NEW m
  PROVE  Cardinality({i \in DOMAIN s : s[i] = m}) = IF m \in El(s) THEN 1 ELSE 0
<1>1. CASE m \in El(s)
  <2>1. PICK j \in DOMAIN s : s[j] = m BY <1>1 DEF El
  <2>2. {i \in DOMAIN s : s[i] = m} = {j} BY <2>1 DEF Once
  <2>. QED BY <1>1, <2>2, FS_Singleton
<1>2. CASE m \notin El(s)
  <2>1. {i \in DOMAIN s : s[i] = m} = {} BY <1>2 DEF El
  <2>. QED BY <1>2, <2>1, FS_EmptySet
<1>. QED BY <1>1, <1>2

(* A message send() accepted is in one place, and once: on the bus, in its *)
(* backlog or under retry, in the queue of one callback, taken by one      *)
(* drain(), or done - whatever raises, whoever wants it or not, and        *)
(* however the drains of any number of threads overlap.                    *)
THEOREM PyNothingLostTheorem == Spec => []NothingLost
<1>1. TypeInv /\ OncePlaced => NothingLost
  <2> SUFFICES ASSUME TypeInv, OncePlaced, NEW m \in 1..sent
               PROVE
                 LET In(s) == Cardinality({i \in DOMAIN s : s[i] = m})
                     Held(f) == {x \in DOMAIN f : In(f[x]) > 0}
                 IN /\ \A f \in {pending, done, msgs} : \A x \in DOMAIN f : In(f[x]) <= 1
                    /\ In(chan) + In(backlog) + In(batch) + Cardinality(Held(pending))
                         + Cardinality(Held(done)) + Cardinality(Held(msgs)) = 1
    BY DEF NothingLost
  <2> DEFINE In(s) == Cardinality({i \in DOMAIN s : s[i] = m})
             Held(f) == {x \in DOMAIN f : In(f[x]) > 0}
             Has(k) == {x \in DOMAIN Places[k] : m \in El(Places[k][x])}
  <2>1. /\ DOMAIN Places = {"chan", "backlog", "batch", "pending", "done", "msgs"}
        /\ Places["chan"] = [x \in {Nobody} |-> chan]
        /\ Places["backlog"] = [x \in {Nobody} |-> backlog]
        /\ Places["batch"] = [x \in {Nobody} |-> batch]
        /\ Places["pending"] = pending /\ Places["done"] = done /\ Places["msgs"] = msgs
    BY DEF Places
  <2>2. \A k \in DOMAIN Places : \A x \in DOMAIN Places[k] :
          In(Places[k][x]) = IF m \in El(Places[k][x]) THEN 1 ELSE 0
    <3>1. \A k \in DOMAIN Places : \A x \in DOMAIN Places[k] :
            Once(Places[k][x]) /\ Places[k][x] \in Seq(Nat)
      BY PlacesAre DEF OncePlaced, Placed
    <3>. QED BY <3>1, Counted
  <2> HIDE DEF In
  <2>3. \A k \in DOMAIN Places : Held(Places[k]) = Has(k)
    BY <2>2
  <2>4. PICK k \in DOMAIN Places : \E x \in DOMAIN Places[k] : m \in El(Places[k][x])
    BY DEF OncePlaced, Placed
  <2>5. PICK x \in DOMAIN Places[k] : m \in El(Places[k][x])
    BY <2>4
  <2>6. \A l \in DOMAIN Places : Has(l) = IF l = k THEN {x} ELSE {}
    <3>1. \A l \in DOMAIN Places : \A y \in DOMAIN Places[l] :
            m \in El(Places[l][y]) => l = k /\ y = x
      BY <2>5 DEF OncePlaced, Placed
    <3>. QED BY <2>5, <3>1
  <2>7. \A l \in DOMAIN Places : Cardinality(Held(Places[l])) = IF l = k THEN 1 ELSE 0
    BY <2>3, <2>6, FS_EmptySet, FS_Singleton
  <2>8. /\ In(chan) = IF "chan" = k THEN 1 ELSE 0
        /\ In(backlog) = IF "backlog" = k THEN 1 ELSE 0
        /\ In(batch) = IF "batch" = k THEN 1 ELSE 0
    <3>1. /\ In(chan) = IF m \in El(chan) THEN 1 ELSE 0
          /\ In(backlog) = IF m \in El(backlog) THEN 1 ELSE 0
          /\ In(batch) = IF m \in El(batch) THEN 1 ELSE 0
      BY <2>1, <2>2
    <3>2. /\ m \in El(chan) <=> Has("chan") # {}
          /\ m \in El(backlog) <=> Has("backlog") # {}
          /\ m \in El(batch) <=> Has("batch") # {}
      BY <2>1
    <3>. QED BY <2>1, <2>6, <3>1, <3>2
  <2>9. /\ Cardinality(Held(pending)) = IF "pending" = k THEN 1 ELSE 0
        /\ Cardinality(Held(done)) = IF "done" = k THEN 1 ELSE 0
        /\ Cardinality(Held(msgs)) = IF "msgs" = k THEN 1 ELSE 0
    BY <2>1, <2>7
  <2>10. In(chan) + In(backlog) + In(batch) + Cardinality(Held(pending))
           + Cardinality(Held(done)) + Cardinality(Held(msgs)) = 1
    <3> HIDE DEF Held
    <3>. QED BY <2>1, <2>4, <2>8, <2>9
  <2>11. \A f \in {pending, done, msgs} : \A y \in DOMAIN f : In(f[y]) <= 1
    BY <2>1, <2>2
  <2>. QED BY <2>10, <2>11 DEF In
<1>. QED BY TypeInit, TypeStep, OnceInit, OnceStep, <1>1, PTL DEF Spec
==============================================================================
