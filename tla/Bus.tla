-------------------------------- MODULE Bus --------------------------------
(***************************************************************************)
(* The message bus of src/components/bus/bus.rs: a bounded channel of      *)
(* envelopes, a bounded channel of commands, the registry of consumers, a  *)
(* backlog of unhandled envelopes, and the two loops that serve them:      *)
(* drain(), which empties everything once, and dispatch(), which waits.    *)
(* Producers and the owners of registrations are tasks of their own that   *)
(* interleave with the loop at every step; the loop itself is suspended    *)
(* only while a consumer's consume() is awaited, and there it may be       *)
(* cancelled (its future dropped).                                         *)
(*                                                                         *)
(* Which of the qualified consumers wins is the router's affair: here any  *)
(* one may, and available() and validate() may answer anything for a       *)
(* consumer that is not Willing.                                           *)
(***************************************************************************)
EXTENDS Naturals, Sequences, SequencesExt

CONSTANTS Messages,    \* the messages producers may send, each of them once
          Consumers,   \* the consumers, each of them registered at most once
          Accepts,     \* <<m, c>>: no required dimension of c rejects m
          Willing,     \* consumers always available() that never veto
          Relays,      \* consumers whose consume() may send on this bus
          Capacity,    \* slots of the envelope channel
          CmdCapacity, \* slots of the command channel (64 in the code)
          MaxPending,  \* the cap given to max_pending()
          MaxLeaves,   \* how often the owner of one id may ask for its removal
          Loops,       \* which of "drain" and "dispatch" the application runs
          MayCancel,   \* whether a suspended future may be dropped
          None

ASSUME MessagesAssumption == None \notin Messages
ASSUME AcceptsAssumption ==
    Accepts \subseteq Messages \X Consumers /\ Willing \subseteq Consumers
ASSUME CapacityAssumption ==
    /\ Capacity \in Nat \ {0}      \* mpsc::channel(0) panics
    /\ CmdCapacity \in Nat \ {0}
    /\ MaxPending \in Nat
    /\ MaxLeaves \in Nat
    /\ MayCancel \in BOOLEAN

VARIABLES
  chan,      \* tx/rx: the envelopes sent and not yet received
  cmds,      \* cmd_tx/cmd_rx: the commands sent and not yet applied
  registry,  \* the entries; ids grow, so their order is that of the ids
  nextId,    \* Registry::next_id
  pending,   \* the backlog of unhandled envelopes
  batch,     \* what is left of the backlog drain() took out to retry
  pc,        \* where the loop stands
  inHand,    \* the message whose consume() is being awaited, or None
  relay,     \* the message that consume() is itself sending, or None
  status,    \* what became of each message
  arrival,   \* history: rank of m among the messages the channel took, or 0
  clock,     \* history: how many messages the channel has taken
  handed,    \* history: the consumers m was handed to, in order
  caller,    \* where the owner of each registration stands
  idOf,      \* the id it was told
  leaves     \* how often it has asked for the removal

traffic == <<status, arrival, clock>>
owners  == <<caller, idOf, leaves>>
vars    == <<chan, cmds, registry, nextId, pending, batch, pc, inHand, relay,
             traffic, handed, owners>>

Stages   == {"idle", "commands", "retry", "receive", "select", "dropped"}
Statuses == {"new", "sending", "accepted", "refused", "evicted", "lost"}
Places   == {"out", "registering", "awaiting", "in", "leaving", "gone",
             "abandoned", "failed"}
Entries  == [id : Nat, consumer : Consumers]
Commands == [op : {"register"}, consumer : Consumers]
              \cup [op : {"deregister"}, id : Nat]

Registered == {e.consumer : e \in registry}
Queued(m)  == m \in ToSet(pending) \cup ToSet(batch) \cup ToSet(chan)
Open       == {m \in Messages : Queued(m)}

\* status' when the messages of S come to s
Mark(S, s) == [m \in Messages |-> IF m \in S THEN s ELSE status[m]]

Init == /\ chan = <<>> /\ cmds = <<>>
        /\ registry = {} /\ nextId = 0
        /\ pending = <<>> /\ batch = <<>>
        /\ pc = "idle" /\ inHand = None /\ relay = None
        /\ status = [m \in Messages |-> "new"]
        /\ arrival = [m \in Messages |-> 0] /\ clock = 0
        /\ handed = [m \in Messages |-> <<>>]
        /\ caller = [c \in Consumers |-> "out"]
        /\ idOf = [c \in Consumers |-> 0]
        /\ leaves = [c \in Consumers |-> 0]

-----------------------------------------------------------------------------
(* Producers: ProducerHandle over the envelope channel.  send() waits for  *)
(* a slot, try_send() does not; both fail once the receiver is gone.  Who  *)
(* of several waiting senders gets a slot is left open.                    *)

loopState == <<cmds, registry, nextId, pending, batch, pc, inHand, handed>>
Waiting   == {m \in Messages : status[m] = "sending"}

Bug_HasRoomForOneMore == Len(chan) <= Capacity
Bug_HasRoomKeepsOneFree == Len(chan) + 1 < Capacity
HasRoom == Len(chan) < Capacity

Enqueue(m) == /\ pc # "dropped"
              /\ HasRoom
              /\ chan' = Append(chan, m)
              /\ status' = Mark({m}, "accepted")
              /\ clock' = clock + 1
              /\ arrival' = [arrival EXCEPT ![m] = clock + 1]
              /\ UNCHANGED <<loopState, relay, owners>>

Refuse(m) == /\ status' = Mark({m}, "refused")
             /\ UNCHANGED <<loopState, relay, owners, chan, arrival, clock>>

\* try_make_send(): a slot may be free and still promised to a waiting sender.
TrySend(m) == /\ status[m] = "new"
              /\ \/ Enqueue(m)
                 \/ /\ \/ pc = "dropped"
                       \/ Len(chan) + Cardinality(Waiting) >= Capacity
                    /\ Refuse(m)

\* make_send(), called from outside the bus.
SendCall(m) == /\ status[m] = "new"
               /\ status' = Mark({m}, "sending")
               /\ UNCHANGED <<loopState, relay, owners, chan, arrival, clock>>

SendEnqueue(m) == status[m] = "sending" /\ Enqueue(m)

SendFail(m) == status[m] = "sending" /\ pc = "dropped" /\ Refuse(m)

-----------------------------------------------------------------------------
(* Owners of registrations: BusCmdHandle over the command channel, or the  *)
(* bus itself while no loop borrows it.                                    *)

busState == <<chan, pending, batch, pc, inHand, relay, traffic, handed>>

CmdRoom == Len(cmds) < CmdCapacity

RegisterCall(c) == /\ caller[c] = "out"
                   /\ caller' = [caller EXCEPT ![c] = "registering"]
                   /\ UNCHANGED <<busState, cmds, registry, nextId, idOf, leaves>>

RegisterEnqueue(c) ==
  /\ caller[c] = "registering" /\ pc # "dropped" /\ CmdRoom
  /\ cmds' = Append(cmds, [op |-> "register", consumer |-> c])
  /\ caller' = [caller EXCEPT ![c] = "awaiting"]
  /\ UNCHANGED <<busState, registry, nextId, idOf, leaves>>

\* The channel, or the reply's sender, went away with the bus.
RegisterFail(c) ==
  /\ caller[c] \in {"registering", "awaiting"} /\ pc = "dropped"
  /\ caller' = [caller EXCEPT ![c] = "failed"]
  /\ UNCHANGED <<busState, cmds, registry, nextId, idOf, leaves>>

\* The future of register() is dropped while it awaits the reply.
RegisterAbandon(c) ==
  /\ MayCancel
  /\ caller[c] = "awaiting"
  /\ caller' = [caller EXCEPT ![c] = "abandoned"]
  /\ UNCHANGED <<busState, cmds, registry, nextId, idOf, leaves>>

\* deregister(): nothing stops an owner from asking again.
DeregisterCall(c) ==
  /\ caller[c] \in {"in", "gone"} /\ leaves[c] < MaxLeaves
  /\ caller' = [caller EXCEPT ![c] = "leaving"]
  /\ leaves' = [leaves EXCEPT ![c] = @ + 1]
  /\ UNCHANGED <<busState, cmds, registry, nextId, idOf>>

\* A send that fails is ignored: the bus and its registry are gone then.
DeregisterEnqueue(c) ==
  /\ caller[c] = "leaving"
  /\ \/ pc = "dropped" /\ UNCHANGED cmds
     \/ /\ pc # "dropped" /\ CmdRoom
        /\ cmds' = Append(cmds, [op |-> "deregister", id |-> idOf[c]])
  /\ caller' = [caller EXCEPT ![c] = "gone"]
  /\ UNCHANGED <<busState, registry, nextId, idOf, leaves>>

-----------------------------------------------------------------------------
(* The registry: an id is never used twice; removal is by id.              *)

Bug_FreshIdIsIndex == Cardinality(registry)
FreshId     == nextId
NewEntry(c) == [id |-> FreshId, consumer |-> c]
Without(n)  == {e \in registry : e.id # n}

\* The reply to an owner that stopped waiting is dropped: let _ = reply.send().
ApplyRegister(c) ==
  /\ registry' = registry \cup {NewEntry(c)}
  /\ nextId' = nextId + 1
  /\ IF caller[c] = "awaiting"
     THEN /\ caller' = [caller EXCEPT ![c] = "in"]
          /\ idOf' = [idOf EXCEPT ![c] = FreshId]
     ELSE UNCHANGED <<caller, idOf>>
  /\ UNCHANGED leaves

ApplyDeregister(n) == registry' = Without(n) /\ UNCHANGED <<nextId, owners>>

ApplyCmd == /\ cmds # <<>>
            /\ IF Head(cmds).op = "register"
               THEN ApplyRegister(Head(cmds).consumer)
               ELSE ApplyDeregister(Head(cmds).id)
            /\ cmds' = Tail(cmds)
            /\ UNCHANGED busState

\* register_consumer() and deregister_consumer() need the bus to themselves.
RegisterDirect(c) ==
  /\ pc = "idle" /\ caller[c] = "out"
  /\ registry' = registry \cup {NewEntry(c)}
  /\ nextId' = nextId + 1
  /\ caller' = [caller EXCEPT ![c] = "in"]
  /\ idOf' = [idOf EXCEPT ![c] = FreshId]
  /\ UNCHANGED <<busState, cmds, leaves>>

DeregisterDirect(c) ==
  /\ pc = "idle" /\ caller[c] \in {"in", "gone"} /\ leaves[c] < MaxLeaves
  /\ registry' = Without(idOf[c])
  /\ caller' = [caller EXCEPT ![c] = "gone"]
  /\ leaves' = [leaves EXCEPT ![c] = @ + 1]
  /\ UNCHANGED <<busState, cmds, nextId, idOf>>

-----------------------------------------------------------------------------
(* Routing one message, and keeping the one nobody takes.                  *)

Qualified(m) == {c \in Registered : <<m, c>> \in Accepts}

Bug_FullTooLate  == Len(pending) > MaxPending /\ pending # <<>>
Bug_FullTooEarly == Len(pending) + 1 >= MaxPending /\ pending # <<>>
Full    == Len(pending) >= MaxPending /\ pending # <<>>
Evicted == IF Full THEN {Head(pending)} ELSE {}
Kept    == IF Full THEN Tail(pending) ELSE pending

Bug_PushPendingInFront(m) == /\ pending' = <<m>> \o Kept
                             /\ status' = Mark(Evicted, "evicted")

\* push_pending(): the oldest makes way.
PushPending(m) == /\ pending' = Append(Kept, m)
                  /\ status' = Mark(Evicted, "evicted")

Bug_HandAndHold(m) == /\ \E c \in Qualified(m) :
                           handed' = [handed EXCEPT ![m] = Append(@, c)]
                      /\ inHand' = m
                      /\ PushPending(m)

Hand(m) == /\ \E c \in Qualified(m) :
                handed' = [handed EXCEPT ![m] = Append(@, c)]
           /\ inHand' = m
           /\ UNCHANGED <<pending, status>>

Hold(m) == /\ Qualified(m) \cap Willing = {}
           /\ PushPending(m)
           /\ UNCHANGED <<handed, inHand>>

Route(m) == /\ (Hand(m) \/ Hold(m))
            /\ UNCHANGED <<cmds, registry, nextId, pc, relay, arrival, clock,
                           owners>>

-----------------------------------------------------------------------------
(* drain(): all commands, then the backlog once, then the channel.         *)

Goto(p) == /\ pc' = p
           /\ UNCHANGED <<chan, cmds, registry, nextId, inHand, relay, traffic,
                          handed, owners>>

StartDrain == /\ pc = "idle" /\ "drain" \in Loops
              /\ Goto("commands") /\ UNCHANGED <<pending, batch>>

DrainCmd == pc = "commands" /\ ApplyCmd

Bug_TakePendingCopies == batch' = pending /\ UNCHANGED pending
Bug_TakePendingSkips  == batch' = <<>> /\ UNCHANGED pending

TakePending == batch' = pending /\ pending' = <<>>

Bug_CommandsDoneAnyTime == TRUE
CommandsDone == cmds = <<>>

DrainTakePending == /\ pc = "commands" /\ CommandsDone
                    /\ TakePending
                    /\ Goto("retry")

\* Popping from the queue that unhandled messages are pushed back on.
Bug_RetryNextForEver ==
  /\ pc = "retry" /\ inHand = None /\ batch # <<>>
  /\ \/ batch' = Tail(batch) /\ Hand(Head(batch))
     \/ batch' = Append(Tail(batch), Head(batch))
          /\ UNCHANGED <<pending, status, handed, inHand>>
  /\ UNCHANGED <<chan, cmds, registry, nextId, pc, relay, arrival, clock, owners>>

RetryNext == /\ pc = "retry" /\ inHand = None /\ batch # <<>>
             /\ batch' = Tail(batch)
             /\ UNCHANGED chan
             /\ Route(Head(batch))

RetryDone == /\ pc = "retry" /\ inHand = None /\ batch = <<>>
             /\ Goto("receive") /\ UNCHANGED <<pending, batch>>

Bug_ReceiveWhileConsuming == /\ chan # <<>>
                             /\ chan' = Tail(chan)
                             /\ UNCHANGED batch
                             /\ Route(Head(chan))

Receive == /\ inHand = None /\ chan # <<>>
           /\ chan' = Tail(chan)
           /\ UNCHANGED batch
           /\ Route(Head(chan))

DrainReceive == pc = "receive" /\ Receive

DrainDone == /\ pc = "receive" /\ inHand = None /\ chan = <<>>
             /\ Goto("idle") /\ UNCHANGED <<pending, batch>>

(* dispatch(): select! between the channel and the commands, for ever.     *)

StartDispatch == /\ pc = "idle" /\ "dispatch" \in Loops
                 /\ Goto("select") /\ UNCHANGED <<pending, batch>>

DispatchReceive == pc = "select" /\ Receive

DispatchCmd == pc = "select" /\ inHand = None /\ ApplyCmd

-----------------------------------------------------------------------------
(* The awaited consume(), and the ways a loop or the bus goes away.        *)

Taker == Last(handed[inHand])

Untouched == <<chan, cmds, registry, nextId, pending, handed, arrival, clock,
               owners>>

\* consume() sends a message on the bus whose loop is waiting for it.
RelayCall(m) == /\ inHand # None /\ relay = None /\ Taker \in Relays
                /\ status[m] = "new"
                /\ status' = Mark({m}, "sending")
                /\ relay' = m
                /\ UNCHANGED <<Untouched, batch, pc, inHand>>

RelayBlocked == relay # None /\ status[relay] = "sending"

ConsumeDone == /\ inHand # None /\ ~RelayBlocked
               /\ inHand' = None /\ relay' = None
               /\ UNCHANGED <<Untouched, batch, pc, status>>

\* Dropping the future drops the batch drain() took out, and the relay's send.
Cancel == /\ MayCancel
          /\ inHand # None \/ pc = "select"
          /\ status' = [m \in Messages |->
                          IF m \in ToSet(batch) THEN "lost"
                          ELSE IF RelayBlocked /\ m = relay THEN "refused"
                          ELSE status[m]]
          /\ batch' = <<>> /\ inHand' = None /\ relay' = None /\ pc' = "idle"
          /\ UNCHANGED Untouched

\* Requests in flight fail: see SendFail and RegisterFail.
DropBus == /\ pc = "idle"
           /\ status' = Mark(Open, "lost")
           /\ chan' = <<>> /\ cmds' = <<>> /\ pending' = <<>> /\ registry' = {}
           /\ pc' = "dropped"
           /\ UNCHANGED <<nextId, batch, inHand, relay, arrival, clock, handed,
                          owners>>

-----------------------------------------------------------------------------
Drain    == DrainCmd \/ DrainTakePending \/ RetryNext \/ RetryDone
              \/ DrainReceive \/ DrainDone
Dispatch == DispatchReceive \/ DispatchCmd
Producer(m) == TrySend(m) \/ SendCall(m) \/ SendEnqueue(m) \/ SendFail(m)
Owner(c) == \/ RegisterCall(c) \/ RegisterEnqueue(c) \/ RegisterFail(c)
            \/ RegisterAbandon(c) \/ RegisterDirect(c)
            \/ DeregisterCall(c) \/ DeregisterEnqueue(c) \/ DeregisterDirect(c)

Next == \/ \E m \in Messages : Producer(m) \/ RelayCall(m)
        \/ \E c \in Consumers : Owner(c)
        \/ StartDrain \/ Drain \/ StartDispatch \/ Dispatch
        \/ ConsumeDone \/ Cancel \/ DropBus

Spec == Init /\ [][Next]_vars

(* A loop makes progress and a consume() that is not blocked returns; the  *)
(* tasks that wait on a channel are woken when it has room.  The fairness  *)
(* of tokio's queue of waiters is not needed: the others in the queue are  *)
(* finitely many.  Starting the next drain() is up to the application,     *)
(* which the README shows doing it after each round of sends.              *)
Fairness ==
  /\ WF_vars(Drain) /\ WF_vars(ConsumeDone)
  /\ \A m \in Messages : WF_vars(SendEnqueue(m)) /\ WF_vars(SendFail(m))
  /\ \A c \in Consumers : /\ WF_vars(RegisterEnqueue(c))
                          /\ WF_vars(RegisterFail(c))

DrainSpec == Spec /\ Fairness /\ WF_vars(StartDrain)

\* select! picks a ready branch at random: neither can starve the other.
DispatchSpec == /\ Spec /\ Fairness /\ WF_vars(StartDispatch)
                /\ SF_vars(DispatchReceive) /\ SF_vars(DispatchCmd)

-----------------------------------------------------------------------------
TypeOK ==
  /\ chan \in Seq(Messages) /\ pending \in Seq(Messages) /\ batch \in Seq(Messages)
  /\ Len(chan) <= Capacity
  /\ cmds \in Seq(Commands) /\ Len(cmds) <= CmdCapacity
  /\ registry \subseteq Entries /\ nextId \in Nat
  /\ pc \in Stages
  /\ inHand \in Messages \cup {None} /\ relay \in Messages \cup {None}
  /\ status \in [Messages -> Statuses]
  /\ arrival \in [Messages -> Nat] /\ clock \in Nat
  /\ handed \in [Messages -> Seq(Consumers)]
  /\ caller \in [Consumers -> Places]
  /\ idOf \in [Consumers -> Nat] /\ leaves \in [Consumers -> 0..MaxLeaves]

(* Every message the channel took is in one queue, or was handed to one    *)
(* consumer, or was evicted or lost; it never has two of these fates, nor  *)
(* is it handed over twice, whatever the loop is doing when it is          *)
(* cancelled, dropped or retrying its backlog.                             *)
OneFate ==
  \A m \in Messages :
    /\ Queued(m) => status[m] = "accepted" /\ handed[m] = <<>>
    /\ handed[m] # <<>> => status[m] = "accepted" /\ Len(handed[m]) = 1
    /\ status[m] = "accepted" => Queued(m) \/ handed[m] # <<>>

Ordered(s)   == \A i, j \in DOMAIN s : i < j => arrival[s[i]] < arrival[s[j]]
Before(s, t) == \A i \in DOMAIN s, j \in DOMAIN t : arrival[s[i]] < arrival[t[j]]

InHand == IF inHand = None THEN <<>> ELSE <<inHand>>

(* The backlog, the message in a consumer's hands, the rest of the backlog *)
(* under retry and the channel are one line in the order of arrival: no    *)
(* drain hands over a message while it still holds an older one to try.    *)
ArrivalOrder ==
  /\ Ordered(pending) /\ Ordered(batch) /\ Ordered(chan)
  /\ Before(pending, InHand) /\ Before(pending, batch) /\ Before(pending, chan)
  /\ Before(InHand, batch) /\ Before(InHand, chan)
  /\ Before(batch, chan)

\* max_pending(0) still keeps one: push_pending() pushes after it pops.
Limit == IF MaxPending = 0 THEN 1 ELSE MaxPending

(* The bus never holds back more than its limit, the backlog under retry   *)
(* included: retrying neither grows it nor makes room by evicting.         *)
BacklogBound == Len(pending) + Len(batch) <= Limit

(* drain() leaves nothing behind that it could have handed over: what it   *)
(* put back is wanted by no consumer sure to take it, among all those      *)
(* registered once it began to hand over.                                  *)
DrainLeavesNothing ==
  pc \in {"retry", "receive"} =>
    \A m \in ToSet(pending) : Qualified(m) \cap Willing = {}

(* The registry is what the owners believe it is: ids are never shared;    *)
(* nobody is removed by somebody else's request, late or repeated; and a   *)
(* removal that was asked for is done or still queued.                     *)
RegistrationView ==
  /\ \A e \in registry : e.id < nextId
  /\ \A e, f \in registry : e.id = f.id \/ e.consumer = f.consumer => e = f
  /\ pc # "dropped" =>
       \A c \in Consumers :
         /\ caller[c] = "in" => [id |-> idOf[c], consumer |-> c] \in registry
         /\ caller[c] = "gone" /\ c \in Registered =>
              \E i \in DOMAIN cmds :
                cmds[i] = [op |-> "deregister", id |-> idOf[c]]

(* A message is evicted only by a message fresh from the channel, only     *)
(* when the backlog is full, and only if it is the oldest the bus holds.   *)
EvictsOldest ==
  [][\A m \in Messages :
       status[m] # "evicted" /\ status'[m] = "evicted" =>
         /\ pc \in {"receive", "select"} /\ Len(pending) = Limit
         /\ m = Head(pending)
         /\ \A n \in Messages : Queued(n)' => arrival[m] < arrival'[n]]_vars

(* The bus does what Delivery promises of it.                              *)
Abstract == INSTANCE Delivery
              WITH open <- Open,
                   discarded <- {m \in Messages : status[m] \in {"evicted", "lost"}},
                   members <- Registered

DeliversAtMostOnce == Abstract!Spec

-----------------------------------------------------------------------------
\* A relay waits for a slot that only the loop waiting for it could free.
Wedged == RelayBlocked /\ ~HasRoom

(* Once a relay waits for a slot in a full channel, nothing but dropping   *)
(* the drain or dispatch future ever ends the wait.                        *)
WedgedForGood == [][Wedged => Wedged']_vars

(* A drain comes to its end, the producers' messages being finitely many.  *)
DrainReturns == pc = "commands" ~> (pc = "idle" \/ Wedged)

(* Backpressure is not for ever: a send that waits for a slot gets one.    *)
SendReturns ==
  \A m \in Messages : status[m] = "sending" ~> (status[m] # "sending" \/ Wedged)

(* register() gets its reply.                                              *)
RegisterReturns ==
  \A c \in Consumers : caller[c] \in {"registering", "awaiting"} ~>
                         (caller[c] \in {"in", "failed"} \/ Wedged)

\* The bus holds m back although a consumer is registered that would take it.
Withheld(m) == /\ m \in ToSet(pending) \cup ToSet(batch)
               /\ Qualified(m) \cap Willing # {}

(* A message held back does not stay so once a consumer that is sure to    *)
(* take it has registered.                                                 *)
HeldIsRetried == \A m \in Messages : Withheld(m) ~> (~Withheld(m) \/ Wedged)

(* README.md:51: max_pending caps the backlog.                             *)
CapHolds == Len(pending) <= MaxPending

(* README.md:51: an unhandled message is held and retried on the next      *)
(* drain; it does not vanish without the bus being dropped.                *)
BacklogKept ==
  [][\A m \in Messages :
       status[m] # "lost" /\ status'[m] = "lost" => pc' = "dropped"]_vars
=============================================================================
