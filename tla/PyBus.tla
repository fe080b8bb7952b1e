-------------------------------- MODULE PyBus --------------------------------
(***************************************************************************)
(* The Python MessageBus of src/integrations/python/integration.rs, shared *)
(* by Python threads.  A call holds the interpreter lock (the GIL), except *)
(* for the part of drain() that runs the bus; the bus has a mutex, which   *)
(* drain() holds without the GIL and send() and is_empty() wait for with   *)
(* it.  What the bus hands over waits in a queue per callback until a      *)
(* drain() calls the callback, during which other threads, or the callback *)
(* itself, may use the bus.                                                *)
(*                                                                         *)
(* The handles and the queues have mutexes too.  Nobody ever waits for     *)
(* them: the first is taken with the GIL, which is kept until it is given  *)
(* back, the others for a step that cannot wait.  Which callback gets a    *)
(* message is Router.tla's subject; here it is any whose requirements the  *)
(* message meets.  A message that meets none goes to the backlog and is    *)
(* routed again by the next drain.  The backlog holds 1024 messages; no    *)
(* more than these are sent, so that none is evicted.                      *)
(***************************************************************************)
EXTENDS Naturals, Sequences, FiniteSets

CONSTANTS Threads, Callbacks,
          Names,      \* the producer names send() is called with
          Nobody,     \* holds a lock when no thread does
          Accepts,    \* <<c, m>>: c requires nothing that the m-th message lacks
          ChanRoom,   \* capacity of the bus' channel
          MaxSent,    \* bound: messages accepted
          MaxDrains   \* bound: calls of drain()

ASSUME PyAssumption == Nobody \notin Threads /\ ChanRoom \in Nat \ {0}
ASSUME PyBounds == MaxSent \in 0..1024 /\ MaxDrains \in Nat

VARIABLES gil,        \* the thread that waits with the GIL; the others switch freely
          busLock,    \* the thread that holds the mutex of the bus
          pc,         \* where the call of each thread stands
          named,      \* the names a handle was made for
          chan, backlog,  \* the messages on the bus
          batch,      \* what a drain took out of the backlog to route again
          queues,     \* consumer_queues: the callbacks as they registered
          pending,    \* the messages in each one's queue
          turn,       \* the queue each drain() works on
          msgs,       \* what it took from there and has still to call with
          done,       \* history: what each callback took without raising
          raisers,    \* history: the callbacks that raised
          sent, drains

locks   == <<gil, busLock>>
bus     == <<chan, backlog, batch>>
deliver == <<pending, turn, msgs, done, raisers>>
vars    == <<locks, pc, named, bus, queues, deliver, sent, drains>>

Set(f, x, v) == [f EXCEPT ![x] = v]
Goto(t, state) == pc' = Set(pc, t, state)

Init == /\ gil = Nobody /\ busLock = Nobody
        /\ pc = [t \in Threads |-> "python"]
        /\ named = {}
        /\ chan = <<>> /\ backlog = <<>> /\ batch = <<>> /\ queues = <<>>
        /\ pending = [c \in Callbacks |-> <<>>]
        /\ turn = [t \in Threads |-> 0]
        /\ msgs = [t \in Threads |-> <<>>]
        /\ done = [c \in Callbacks |-> <<>>]
        /\ raisers = {} /\ sent = 0 /\ drains = 0

\* A call may begin, or a callback go on, when no thread waits with the GIL.
Running(t, state) == gil = Nobody /\ pc[t] = state

Registered == {queues[i] : i \in DOMAIN queues}

\* register_consumer() borrows the bus alone: it raises during other calls.
RegisterConsumer(c) == /\ gil = Nobody /\ c \notin Registered
                       /\ \A t \in Threads : pc[t] = "python"
                       /\ queues' = Append(queues, c)
                       /\ UNCHANGED <<locks, pc, named, bus, deliver, sent, drains>>

-----------------------------------------------------------------------------
(* send(): raises when the channel is full; needs the bus for a new name    *)

Bug_Put == chan' = Append(chan, sent + 1) /\ sent' = sent + 1
Put == IF Len(chan) < ChanRoom
       THEN chan' = Append(chan, sent + 1) /\ sent' = sent + 1
       ELSE UNCHANGED <<chan, sent>>

Send(t) == /\ Running(t, "python") /\ sent < MaxSent /\ named # {}
           /\ Put
           /\ UNCHANGED <<locks, pc, named, backlog, batch, queues, deliver, drains>>

SendNew(t) == /\ Running(t, "python") /\ sent < MaxSent /\ named # Names
              /\ gil' = t
              /\ Goto(t, "send")
              /\ UNCHANGED <<busLock, named, bus, queues, deliver, sent, drains>>

MakeHandle(t) == /\ pc[t] = "send" /\ busLock = Nobody
                 /\ \E p \in Names \ named : named' = named \cup {p}
                 /\ Put
                 /\ gil' = Nobody
                 /\ Goto(t, "python")
                 /\ UNCHANGED <<busLock, backlog, batch, queues, deliver, drains>>

(* is_empty()                                                               *)

CallIsEmpty(t) == /\ Running(t, "python")
                  /\ gil' = t
                  /\ Goto(t, "ask")
                  /\ UNCHANGED <<busLock, named, bus, queues, deliver, sent, drains>>

IsEmpty(t) == /\ pc[t] = "ask" /\ busLock = Nobody
              /\ gil' = Nobody
              /\ Goto(t, "python")
              /\ UNCHANGED <<busLock, named, bus, queues, deliver, sent, drains>>

(* drain(): first the bus, without the GIL                                  *)

CallDrain(t) == /\ Running(t, "python") /\ drains < MaxDrains
                /\ drains' = drains + 1
                /\ Goto(t, "lock")
                /\ UNCHANGED <<locks, named, bus, queues, deliver, sent>>

LockBus(t) == /\ pc[t] = "lock" /\ busLock = Nobody
              /\ busLock' = t
              /\ batch' = backlog /\ backlog' = <<>>
              /\ Goto(t, "bus")
              /\ UNCHANGED <<gil, named, chan, queues, deliver, sent, drains>>

\* Wrapped callbacks are always available() and never veto.
Takers(m) == {c \in Registered : <<c, m>> \in Accepts}

HandOver(m) == /\ \E c \in Takers(m) : pending' = [pending EXCEPT ![c] = Append(@, m)]
               /\ UNCHANGED backlog
PutBack(m)  == /\ Takers(m) = {}
               /\ backlog' = Append(backlog, m)
               /\ UNCHANGED pending
Offer(m)    == HandOver(m) \/ PutBack(m)

\* the batch first, then the channel
Route(t) ==
  /\ pc[t] = "bus"
  /\ \/ /\ batch # <<>>
        /\ Offer(Head(batch)) /\ batch' = Tail(batch)
        /\ UNCHANGED chan
     \/ /\ batch = <<>> /\ chan # <<>>
        /\ Offer(Head(chan)) /\ chan' = Tail(chan)
        /\ UNCHANGED batch
  /\ UNCHANGED <<locks, pc, named, queues, turn, msgs, done, raisers, sent, drains>>

BusDrained == batch = <<>> /\ chan = <<>>

\* The guard is dropped before the GIL is taken again.
Bug_GuardOutlivesGil(t) == /\ pc[t] = "bus" /\ BusDrained
                           /\ gil = Nobody
                           /\ busLock' = Nobody
                           /\ Goto(t, "back")
                           /\ UNCHANGED <<gil, named, bus, queues, deliver, sent, drains>>

UnlockBus(t) == /\ pc[t] = "bus" /\ BusDrained
                /\ busLock' = Nobody
                /\ Goto(t, "back")
                /\ UNCHANGED <<gil, named, bus, queues, deliver, sent, drains>>

(* then, with the GIL again, the callbacks, one queue after the other; one  *)
(* that raises gets the rest of its messages back, behind newer ones        *)

NextQueue(t) == /\ pc[t] \in {"back", "call"} /\ gil = Nobody
                /\ msgs[t] = <<>> /\ turn[t] < Len(queues)
                /\ LET c == queues[turn[t] + 1]
                   IN /\ msgs' = Set(msgs, t, pending[c])
                      /\ pending' = Set(pending, c, <<>>)
                /\ turn' = Set(turn, t, turn[t] + 1)
                /\ Goto(t, "call")
                /\ UNCHANGED <<locks, named, bus, queues, done, raisers, sent, drains>>

Called(t) == /\ Running(t, "call") /\ msgs[t] # <<>>
             /\ done' = [done EXCEPT ![queues[turn[t]]] = Append(@, Head(msgs[t]))]
             /\ msgs' = Set(msgs, t, Tail(msgs[t]))
             /\ UNCHANGED <<locks, pc, named, bus, queues, pending, turn, raisers, sent, drains>>

Bug_AfterFailed(t) == Tail(msgs[t])
FromFailed(t) == msgs[t]

Bug_RaisedAtOnce(t) ==
  /\ Running(t, "call") /\ msgs[t] # <<>>
  /\ LET c == queues[turn[t]]
     IN /\ pending' = [pending EXCEPT ![c] = @ \o FromFailed(t)]
        /\ raisers' = raisers \cup {c}
  /\ msgs' = Set(msgs, t, <<>>)
  /\ turn' = Set(turn, t, Len(queues))
  /\ UNCHANGED <<locks, pc, named, bus, queues, done, sent, drains>>

Raised(t) == /\ Running(t, "call") /\ msgs[t] # <<>>
             /\ LET c == queues[turn[t]]
                IN /\ pending' = [pending EXCEPT ![c] = @ \o FromFailed(t)]
                   /\ raisers' = raisers \cup {c}
             /\ msgs' = Set(msgs, t, <<>>)
             /\ UNCHANGED <<locks, pc, named, bus, queues, turn, done, sent, drains>>

Return(t) == /\ pc[t] \in {"back", "call"} /\ gil = Nobody
             /\ msgs[t] = <<>> /\ turn[t] = Len(queues)
             /\ turn' = Set(turn, t, 0)
             /\ Goto(t, "python")
             /\ UNCHANGED <<locks, named, bus, queues, pending, msgs, done, raisers, sent, drains>>

Call(t) == Send(t) \/ SendNew(t) \/ CallIsEmpty(t) \/ CallDrain(t)
GoOn(t) == \/ MakeHandle(t) \/ IsEmpty(t)
           \/ LockBus(t) \/ Route(t) \/ UnlockBus(t)
           \/ NextQueue(t) \/ Called(t) \/ Raised(t) \/ Return(t)

Next == \/ \E c \in Callbacks : RegisterConsumer(c)
        \/ \E t \in Threads : Call(t) \/ GoOn(t)

Spec == Init /\ [][Next]_vars

(* A thread that waits for the GIL makes its holder switch, and callbacks   *)
(* return.  A std mutex is not fair, but drains are finitely many.          *)
LiveSpec == Spec /\ \A t \in Threads : SF_vars(GoOn(t))

-----------------------------------------------------------------------------
TypeOK ==
  /\ \A t \in Threads :
       /\ pc[t] \in {"python", "send", "ask", "lock", "bus", "back", "call"}
       /\ (gil = t) = (pc[t] \in {"send", "ask"})
       /\ (busLock = t) = (pc[t] = "bus")
       /\ turn[t] \in 0..Len(queues)
       /\ msgs[t] # <<>> => pc[t] = "call"
  /\ Registered \subseteq Callbacks /\ named \subseteq Names
  /\ Len(chan) <= ChanRoom /\ sent \in 0..MaxSent
  /\ batch # <<>> => busLock # Nobody

(* A message send() accepted is in one place, and once: on the bus, in its  *)
(* backlog or under retry, in the queue of one callback, taken by one       *)
(* drain(), or done - whatever raises, whoever wants it or not, and however *)
(* drains overlap.                                                          *)
NothingLost ==
  \A m \in 1..sent :
    LET In(s) == Cardinality({i \in DOMAIN s : s[i] = m})
        Held(f) == {x \in DOMAIN f : In(f[x]) > 0}
    IN /\ \A f \in {pending, done, msgs} : \A x \in DOMAIN f : In(f[x]) <= 1
       /\ In(chan) + In(backlog) + In(batch) + Cardinality(Held(pending))
            + Cardinality(Held(done)) + Cardinality(Held(msgs)) = 1

(* Once no call is under way only callbacks that raised have messages       *)
(* waiting in their queues.  A callback that raises keeps no other from its *)
(* own, and a message handed over during another thread's callbacks is not  *)
(* left.                                                                    *)
OnlyRaisersWait ==
  (\A t \in Threads : pc[t] = "python") => \A c \in Callbacks \ raisers : pending[c] = <<>>

(* Every call returns: the mutex of the bus and the GIL, which calls take   *)
(* in either order, never block each other.                                 *)
CallsReturn == \A t \in Threads : pc[t] # "python" ~> pc[t] = "python"
=============================================================================
