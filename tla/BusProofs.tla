----------------------------- MODULE BusProofs -----------------------------
(* Theorems about Bus for every value of its constants. *)
EXTENDS Bus, TLAPS

\* What is left of a queue when its first element is taken.
LEMMA HeadTailType ==
  ASSUME NEW S, NEW s \in Seq(S), s # <<>>
  PROVE  Head(s) \in S /\ Tail(s) \in Seq(S) /\ Len(Tail(s)) = Len(s) - 1
  OBVIOUS

\* A command, whichever it is, leaves the registry and its owners well typed.
LEMMA ApplyCmdType ==
  ASSUME TypeOK, ApplyCmd PROVE TypeOK'
<1>1. Head(cmds) \in Commands /\ Tail(cmds) \in Seq(Commands)
      /\ Len(Tail(cmds)) <= CmdCapacity
  BY HeadTailType, CapacityAssumption DEF TypeOK, ApplyCmd
<1>2. UNCHANGED busState /\ cmds' = Tail(cmds)
  BY DEF ApplyCmd
<1>3. CASE Head(cmds).op = "register"
  <2>1. PICK c \in Consumers : ApplyRegister(c)
    BY <1>1, <1>3 DEF Commands, ApplyCmd
  <2>2. NewEntry(c) \in Entries /\ nextId \in Nat /\ nextId + 1 \in Nat
    BY DEF NewEntry, FreshId, Entries, TypeOK
  <2>3. registry' \subseteq Entries /\ nextId' \in Nat
    BY <2>1, <2>2 DEF ApplyRegister, TypeOK
  <2>4. caller' \in [Consumers -> Places] /\ idOf' \in [Consumers -> Nat]
    BY <2>1, <2>2 DEF ApplyRegister, FreshId, Places, TypeOK
  <2>5. UNCHANGED leaves
    BY <2>1 DEF ApplyRegister
  <2>. QED BY <1>1, <1>2, <2>3, <2>4, <2>5 DEF TypeOK, busState, traffic
<1>4. CASE Head(cmds).op # "register"
  <2>1. /\ registry' \subseteq Entries
        /\ UNCHANGED <<nextId, owners>>
    BY <1>4 DEF ApplyCmd, ApplyDeregister, Without, TypeOK
  <2>. QED BY <1>1, <1>2, <2>1 DEF TypeOK, busState, traffic, owners
<1>. QED BY <1>3, <1>4

\* Routing changes the backlog, the message in hand and the histories only.
LEMMA RouteType ==
  ASSUME TypeOK, NEW m \in Messages, Route(m)
  PROVE  /\ pending' \in Seq(Messages)
         /\ status' \in [Messages -> Statuses]
         /\ handed' \in [Messages -> Seq(Consumers)]
         /\ inHand' \in Messages \cup {None}
         /\ UNCHANGED <<cmds, registry, nextId, pc, relay, arrival, clock, owners>>
<1>1. CASE Hand(m)
  BY <1>1 DEF Route, Hand, TypeOK, Qualified, Registered, Entries
<1>2. CASE Hold(m)
  <2>1. Kept \in Seq(Messages)
    BY HeadTailType DEF TypeOK, Kept, Full
  <2>2. status' \in [Messages -> Statuses]
    BY <1>2 DEF Hold, PushPending, Mark, Statuses, TypeOK
  <2>. QED BY <1>2, <2>1, <2>2 DEF Route, Hold, PushPending, TypeOK
<1>. QED BY <1>1, <1>2 DEF Route

\* No step of a producer, an owner, a loop or a cancellation breaks the types.
LEMMA TypeStep == TypeOK /\ [Next]_vars => TypeOK'
<1> SUFFICES ASSUME TypeOK, [Next]_vars PROVE TypeOK'
  OBVIOUS
<1> USE DEF TypeOK
<1>1. ASSUME NEW m \in Messages, Producer(m) PROVE TypeOK'
  <2>1. CASE Enqueue(m)
    <3>1. chan' \in Seq(Messages) /\ Len(chan') <= Capacity
      BY <2>1, CapacityAssumption DEF Enqueue, HasRoom
    <3>2. status' \in [Messages -> Statuses]
      BY <2>1 DEF Enqueue, Mark, Statuses
    <3>3. arrival' \in [Messages -> Nat] /\ clock' \in Nat
      BY <2>1 DEF Enqueue
    <3>. QED BY <2>1, <3>1, <3>2, <3>3 DEF Enqueue, loopState, owners
  <2>2. CASE Refuse(m)
    BY <2>2 DEF Refuse, Mark, Statuses, loopState, owners
  <2>3. CASE SendCall(m)
    BY <2>3 DEF SendCall, Mark, Statuses, loopState, owners
  <2>. QED BY <1>1, <2>1, <2>2, <2>3 DEF Producer, TrySend, SendEnqueue, SendFail
<1>2. ASSUME NEW m \in Messages, RelayCall(m) PROVE TypeOK'
  BY <1>2 DEF RelayCall, Mark, Statuses, Untouched, owners
<1>3. ASSUME NEW c \in Consumers, Owner(c) PROVE TypeOK'
  <2>1. CASE RegisterCall(c) \/ RegisterFail(c) \/ RegisterAbandon(c)
    BY <2>1 DEF RegisterCall, RegisterFail, RegisterAbandon, Places,
                busState, traffic
  <2>2. CASE RegisterEnqueue(c)
    <3>1. cmds' \in Seq(Commands) /\ Len(cmds') <= CmdCapacity
      BY <2>2, CapacityAssumption DEF RegisterEnqueue, CmdRoom, Commands
    <3>. QED BY <2>2, <3>1 DEF RegisterEnqueue, Places, busState, traffic
  <2>3. CASE RegisterDirect(c)
    <3>1. NewEntry(c) \in Entries /\ nextId + 1 \in Nat
      BY DEF NewEntry, FreshId, Entries
    <3>. QED BY <2>3, <3>1 DEF RegisterDirect, FreshId, Places, busState, traffic
  <2>4. CASE DeregisterCall(c) \/ DeregisterDirect(c)
    <3>1. leaves' \in [Consumers -> 0..MaxLeaves]
      <4>1. leaves' = [leaves EXCEPT ![c] = @ + 1] /\ leaves[c] < MaxLeaves
        BY <2>4 DEF DeregisterCall, DeregisterDirect
      <4>2. leaves[c] + 1 \in 0..MaxLeaves
        BY <4>1, CapacityAssumption
      <4>. QED BY <4>1, <4>2
    <3>2. registry' \subseteq Entries /\ caller' \in [Consumers -> Places]
      BY <2>4 DEF DeregisterCall, DeregisterDirect, Without, Places
    <3>. QED BY <2>4, <3>1, <3>2
             DEF DeregisterCall, DeregisterDirect, busState, traffic
  <2>5. CASE DeregisterEnqueue(c)
    <3>1. cmds' \in Seq(Commands) /\ Len(cmds') <= CmdCapacity
      <4>1. [op |-> "deregister", id |-> idOf[c]] \in Commands
        BY DEF Commands
      <4>2. CASE UNCHANGED cmds
        BY <4>2
      <4>3. CASE /\ Len(cmds) < CmdCapacity
                 /\ cmds' = Append(cmds, [op |-> "deregister", id |-> idOf[c]])
        BY <4>1, <4>3, CapacityAssumption
      <4>. QED BY <2>5, <4>2, <4>3 DEF DeregisterEnqueue, CmdRoom
    <3>. QED BY <2>5, <3>1 DEF DeregisterEnqueue, Places, busState, traffic
  <2>. QED BY <1>3, <2>1, <2>2, <2>3, <2>4, <2>5 DEF Owner
<1>4. CASE StartDrain \/ RetryDone \/ DrainDone \/ StartDispatch
  BY <1>4 DEF StartDrain, RetryDone, DrainDone, StartDispatch, Goto, Stages,
              traffic, owners
<1>5. CASE DrainTakePending
  BY <1>5 DEF DrainTakePending, TakePending, Goto, Stages, traffic, owners
<1>6. CASE DrainCmd \/ DispatchCmd
  BY <1>6, ApplyCmdType DEF DrainCmd, DispatchCmd
<1>7. CASE RetryNext
  <2>1. Head(batch) \in Messages /\ batch' \in Seq(Messages) /\ UNCHANGED chan
    BY <1>7, HeadTailType DEF RetryNext
  <2>. QED BY <1>7, <2>1, RouteType DEF RetryNext, owners
<1>8. CASE DrainReceive \/ DispatchReceive
  <2>1. Receive
    BY <1>8 DEF DrainReceive, DispatchReceive
  <2>2. /\ Head(chan) \in Messages
        /\ chan' \in Seq(Messages) /\ Len(chan') <= Capacity
        /\ UNCHANGED batch
    BY <2>1, HeadTailType, CapacityAssumption DEF Receive
  <2>. QED BY <2>1, <2>2, RouteType DEF Receive, owners
<1>9. CASE ConsumeDone
  BY <1>9 DEF ConsumeDone, Untouched, owners
<1>10. CASE Cancel
  BY <1>10 DEF Cancel, Statuses, Stages, Untouched, owners
<1>11. CASE DropBus
  BY <1>11, CapacityAssumption DEF DropBus, Mark, Statuses, Stages, owners
<1>12. CASE UNCHANGED vars
  BY <1>12 DEF vars, traffic, owners
<1>. QED BY <1>1, <1>2, <1>3, <1>4, <1>5, <1>6, <1>7, <1>8, <1>9, <1>10,
            <1>11, <1>12 DEF Next, Drain, Dispatch

(* The bus is well typed: neither channel ever exceeds its capacity,       *)
(* whoever sends and whenever a loop is cancelled.                         *)
THEOREM TypeInvariant == Spec => []TypeOK
<1>1. Init => TypeOK
  BY CapacityAssumption
  DEF Init, TypeOK, Stages, Statuses, Places, Entries, Commands
<1>. QED BY <1>1, TypeStep, PTL DEF Spec

-----------------------------------------------------------------------------
(* The backlog is bounded because only drain()'s retry has a batch, and a  *)
(* retry takes one message out of the batch for each it puts back.         *)
BatchUnderRetry == batch # <<>> => pc = "retry"
Bounded == TypeOK /\ BatchUnderRetry /\ BacklogBound

(* push_pending() adds one unless the backlog is full.                     *)
LEMMA RouteLength ==
  ASSUME TypeOK, NEW m \in Messages, Route(m)
  PROVE  /\ Len(pending') \in Nat
         /\ Len(pending') <= Len(pending) + 1
         /\ Len(pending') <= Limit \/ Len(pending') <= Len(pending)
<1>0. pending \in Seq(Messages) /\ Len(pending) \in Nat /\ MaxPending \in Nat
  BY CapacityAssumption DEF TypeOK
<1>1. CASE Hand(m)
  BY <1>0, <1>1 DEF Hand
<1>2. CASE Hold(m)
  <2>1. pending' = Append(Kept, m)
    BY <1>2 DEF Hold, PushPending
  <2>2. CASE Full
    <3>1. Kept \in Seq(Messages) /\ Len(Kept) = Len(pending) - 1
      BY <1>0, <2>2, HeadTailType DEF Kept, Full
    <3>. QED BY <1>0, <2>1, <3>1
  <2>3. CASE ~Full
    <3>1. pending' \in Seq(Messages) /\ Len(pending') = Len(pending) + 1
      BY <1>0, <2>1, <2>3 DEF Kept
    <3>2. Len(pending) < MaxPending \/ Len(pending) = 0
      BY <1>0, <2>3 DEF Full
    <3>. QED BY <1>0, <3>1, <3>2 DEF Limit
  <2>. QED BY <2>2, <2>3
<1>. QED BY <1>1, <1>2 DEF Route

(* A drain takes the whole backlog as its batch; then each retry moves one *)
(* message back at most; what is received meets an empty batch.            *)
LEMMA BoundedStep == Bounded /\ [Next]_vars => Bounded'
<1> SUFFICES ASSUME Bounded, [Next]_vars PROVE Bounded'
  OBVIOUS
<1>0. /\ TypeOK /\ TypeOK' /\ BatchUnderRetry /\ BacklogBound
      /\ Len(pending) \in Nat /\ Len(batch) \in Nat /\ Limit \in Nat
  <2>1. TypeOK /\ TypeOK' /\ BatchUnderRetry /\ BacklogBound
    BY TypeStep DEF Bounded
  <2>2. pending \in Seq(Messages) /\ batch \in Seq(Messages)
    BY <2>1 DEF TypeOK
  <2>3. Limit \in Nat
    BY CapacityAssumption DEF Limit
  <2>. QED BY <2>1, <2>2, <2>3
<1>1. CASE UNCHANGED <<pending, batch, pc>>
  BY <1>0, <1>1 DEF Bounded, BatchUnderRetry, BacklogBound, Limit
<1>2. CASE StartDrain \/ RetryDone \/ DrainDone \/ StartDispatch
  BY <1>0, <1>2 DEF StartDrain, RetryDone, DrainDone, StartDispatch, Goto,
                    Bounded, BatchUnderRetry, BacklogBound, Limit
<1>3. CASE DrainTakePending
  <2>1. batch = <<>> /\ batch' = pending /\ pending' = <<>> /\ pc' = "retry"
    BY <1>0, <1>3 DEF DrainTakePending, TakePending, Goto, BatchUnderRetry
  <2>. QED BY <1>0, <2>1 DEF Bounded, BatchUnderRetry, BacklogBound, Limit
<1>4. CASE RetryNext
  <2>1. /\ Head(batch) \in Messages /\ Len(batch') = Len(batch) - 1
        /\ pc = "retry" /\ Route(Head(batch))
    BY <1>0, <1>4, HeadTailType DEF RetryNext, TypeOK
  <2>2. UNCHANGED pc
    BY <2>1 DEF Route
  <2>. QED BY <1>0, <2>1, <2>2, RouteLength
           DEF Bounded, BatchUnderRetry, BacklogBound, Limit
<1>5. CASE DrainReceive \/ DispatchReceive
  <2>1. Head(chan) \in Messages /\ Route(Head(chan)) /\ UNCHANGED batch
    BY <1>0, <1>5, HeadTailType DEF DrainReceive, DispatchReceive, Receive, TypeOK
  <2>2. batch = <<>> /\ UNCHANGED pc
    BY <1>0, <1>5, <2>1 DEF DrainReceive, DispatchReceive, BatchUnderRetry, Route
  <2>3. Len(pending') <= Limit
    BY <1>0, <2>1, <2>2, RouteLength DEF BacklogBound
  <2>. QED BY <1>0, <2>1, <2>2, <2>3
           DEF Bounded, BatchUnderRetry, BacklogBound, Limit
<1>6. CASE Cancel \/ DropBus
  BY <1>0, <1>6, CapacityAssumption
  DEF Cancel, DropBus, Untouched, Bounded, BatchUnderRetry, BacklogBound, Limit
<1>7. ASSUME NEW m \in Messages, Producer(m) \/ RelayCall(m)
      PROVE  UNCHANGED <<pending, batch, pc>>
  BY <1>7 DEF Producer, TrySend, SendCall, SendEnqueue, SendFail, Enqueue, Refuse,
              RelayCall, Untouched, loopState
<1>8. ASSUME NEW c \in Consumers, Owner(c)
      PROVE  UNCHANGED <<pending, batch, pc>>
  BY <1>8 DEF Owner, RegisterCall, RegisterEnqueue, RegisterFail,
              RegisterAbandon, RegisterDirect, DeregisterCall,
              DeregisterEnqueue, DeregisterDirect, busState
<1>9. DrainCmd \/ DispatchCmd \/ ConsumeDone => UNCHANGED <<pending, batch, pc>>
  BY DEF DrainCmd, DispatchCmd, ApplyCmd, ConsumeDone, busState, Untouched
<1>. QED BY <1>1, <1>2, <1>3, <1>4, <1>5, <1>6, <1>7, <1>8, <1>9
         DEF Next, Drain, Dispatch, vars

(* The bus never holds back more than its limit, the backlog under retry   *)
(* included, for every cap, every loop and every moment of a cancellation. *)
THEOREM BacklogInvariant == Spec => []BacklogBound
<1>1. Init => Bounded
  <2>1. Init => TypeOK
    BY CapacityAssumption
    DEF Init, TypeOK, Stages, Statuses, Places, Entries, Commands
  <2>. QED BY <2>1, CapacityAssumption
           DEF Init, Bounded, BatchUnderRetry, BacklogBound, Limit
<1>2. Bounded => BacklogBound
  BY DEF Bounded
<1>. QED BY <1>1, <1>2, BoundedStep, PTL DEF Spec

-----------------------------------------------------------------------------
(* While drain() works, who is registered does not change: what it puts    *)
(* back was refused by all it could be given to, and stays so.             *)
LEMMA LeavesNothingStep ==
  ASSUME TypeOK, DrainLeavesNothing, [Next]_vars
  PROVE  DrainLeavesNothing'
<1>1. CASE pc' \notin {"retry", "receive"}
  BY <1>1 DEF DrainLeavesNothing
<1>2. ASSUME ToSet(pending') \subseteq ToSet(pending), UNCHANGED <<pc, registry>>
      PROVE  DrainLeavesNothing'
  BY <1>2 DEF DrainLeavesNothing, Qualified, Registered
<1>3. ASSUME NEW m \in Messages, Producer(m) \/ RelayCall(m) PROVE DrainLeavesNothing'
  <2>1. UNCHANGED <<pending, pc, registry>>
    BY <1>3 DEF Producer, TrySend, SendCall, SendEnqueue, SendFail, Enqueue, Refuse,
                RelayCall, loopState, Untouched
  <2>. QED BY <1>2, <2>1
<1>4. ASSUME NEW c \in Consumers, Owner(c), pc' \in {"retry", "receive"}
      PROVE  DrainLeavesNothing'
  <2>1. UNCHANGED <<pending, pc, registry>>
    BY <1>4 DEF Owner, RegisterCall, RegisterEnqueue, RegisterFail, RegisterAbandon,
                RegisterDirect, DeregisterCall, DeregisterEnqueue, DeregisterDirect, busState
  <2>. QED BY <1>2, <2>1
<1>5. CASE ConsumeDone
  BY <1>2, <1>5 DEF ConsumeDone, Untouched
<1>6. CASE RetryDone
  <2>1. UNCHANGED <<pending, registry>> /\ pc = "retry"
    BY <1>6 DEF RetryDone, Goto
  <2>. QED BY <2>1 DEF DrainLeavesNothing, Qualified, Registered
<1>7. CASE DrainTakePending
  <2>1. pending' = <<>>
    BY <1>7 DEF DrainTakePending, TakePending
  <2>. QED BY <2>1 DEF DrainLeavesNothing, ToSet
<1>8. ASSUME NEW m, Route(m) PROVE DrainLeavesNothing'
  <2>1. UNCHANGED <<pc, registry>> /\ (Hand(m) \/ Hold(m))
    BY <1>8 DEF Route
  <2>2. CASE Hand(m)
    BY <1>2, <2>1, <2>2 DEF Hand
  <2>3. CASE Hold(m)
    <3>1. Qualified(m) \cap Willing = {} /\ pending' = Append(Kept, m)
      BY <2>3 DEF Hold, PushPending
    <3>2. pending \in Seq(Messages) /\ Kept \in Seq(Messages)
      BY DEF TypeOK, Kept, Full
    <3>3. ToSet(Kept) \subseteq ToSet(pending)
      BY <3>2 DEF Kept, Full, ToSet
    <3>4. ToSet(pending') \subseteq ToSet(Kept) \cup {m}
      BY <3>1, <3>2 DEF ToSet
    <3>5. UNCHANGED Registered
      BY <2>1 DEF Registered
    <3>. QED BY <2>1, <3>1, <3>3, <3>4, <3>5 DEF DrainLeavesNothing, Qualified
  <2>. QED BY <2>1, <2>2, <2>3
<1>9. CASE RetryNext \/ DrainReceive
  BY <1>8, <1>9 DEF RetryNext, DrainReceive, Receive
<1>10. CASE UNCHANGED vars
  BY <1>2, <1>10 DEF vars
<1>11. CASE StartDrain \/ StartDispatch \/ DrainDone \/ DrainCmd \/ Dispatch \/ Cancel \/ DropBus
  <2>1. pc' \notin {"retry", "receive"}
    BY <1>11 DEF StartDrain, StartDispatch, DrainDone, DrainCmd, Dispatch, DispatchReceive,
                 DispatchCmd, Receive, Route, ApplyCmd, busState, Cancel, DropBus, Goto
  <2>. QED BY <1>1, <2>1
<1>. QED BY <1>1, <1>3, <1>4, <1>5, <1>6, <1>7, <1>9, <1>10, <1>11 DEF Next, Drain

(* What drain() has put back is wanted by no consumer sure to take it,     *)
(* however many commands, cancellations and sends come between.            *)
THEOREM DrainLeavesNothingTheorem == Spec => []DrainLeavesNothing
<1>1. Init => DrainLeavesNothing
  BY DEF Init, DrainLeavesNothing
<1>2. TypeOK /\ DrainLeavesNothing /\ [Next]_vars => DrainLeavesNothing'
  BY LeavesNothingStep
<1>. QED BY <1>1, <1>2, TypeInvariant, PTL DEF Spec

-----------------------------------------------------------------------------
(***************************************************************************)
(* No message of Bus has two fates, and the queues are one line in the     *)
(* order of arrival, for every value of the constants.  The two hold only  *)
(* together: a message taken off a queue is on no other one because its    *)
(* neighbours arrived strictly before or after it.                         *)
(***************************************************************************)

(* The order on sequences, in terms of the sets of their elements.         *)

Asc(r, s)     == \A i, j \in DOMAIN s : i < j => r[s[i]] < r[s[j]]
Prec(r, S, T) == \A x \in S, y \in T : r[x] < r[y]

\* The elements of a sequence are those of its type.
LEMMA ToSetType ==
  ASSUME NEW S, NEW s \in Seq(S)
  PROVE  ToSet(s) \subseteq S
  BY DEF ToSet

\* The empty sequence has none.
LEMMA ToSetEmpty == ToSet(<<>>) = {}
  BY DEF ToSet

\* Nothing precedes itself.
LEMMA PrecApart ==
  ASSUME NEW r \in [Messages -> Nat], NEW S \in SUBSET Messages,
         NEW T \in SUBSET Messages, Prec(r, S, T)
  PROVE  S \cap T = {}
<1> SUFFICES ASSUME NEW x \in S, x \in T PROVE FALSE
  OBVIOUS
<1>. QED BY r[x] \in Nat, r[x] < r[x] DEF Prec

\* Taking the first element off an ascending sequence.
LEMMA TakeFirst ==
  ASSUME NEW r \in [Messages -> Nat], NEW s \in Seq(Messages), s # <<>>,
         Asc(r, s)
  PROVE  /\ Head(s) \in Messages /\ Tail(s) \in Seq(Messages)
         /\ ToSet(s) = {Head(s)} \cup ToSet(Tail(s))
         /\ Asc(r, Tail(s))
         /\ Prec(r, {Head(s)}, ToSet(Tail(s)))
<1>1. /\ Head(s) \in Messages /\ Tail(s) \in Seq(Messages)
      /\ Len(s) \in Nat /\ Len(s) # 0 /\ DOMAIN s = 1..Len(s)
      /\ DOMAIN Tail(s) = 1..(Len(s) - 1)
      /\ Head(s) = s[1]
      /\ \A i \in 1..(Len(s) - 1) : Tail(s)[i] = s[i + 1]
  OBVIOUS
<1>2. ToSet(s) \subseteq {Head(s)} \cup ToSet(Tail(s))
  <2> SUFFICES ASSUME NEW i \in DOMAIN s, i # 1 PROVE s[i] \in ToSet(Tail(s))
    BY <1>1 DEF ToSet
  <2>1. i - 1 \in 1..(Len(s) - 1) /\ Tail(s)[i - 1] = s[i]
    BY <1>1
  <2>. QED BY <1>1, <2>1 DEF ToSet
<1>3. {Head(s)} \cup ToSet(Tail(s)) \subseteq ToSet(s)
  BY <1>1 DEF ToSet
<1>4. Asc(r, Tail(s))
  <2> SUFFICES ASSUME NEW i \in 1..(Len(s) - 1), NEW j \in 1..(Len(s) - 1), i < j
               PROVE  r[Tail(s)[i]] < r[Tail(s)[j]]
    BY <1>1 DEF Asc
  <2>1. i + 1 \in 1..Len(s) /\ j + 1 \in 1..Len(s) /\ i + 1 < j + 1
    BY <1>1
  <2>2. r[s[i + 1]] < r[s[j + 1]]
    BY <1>1, <2>1 DEF Asc
  <2>. QED BY <1>1, <2>2
<1>5. Prec(r, {Head(s)}, ToSet(Tail(s)))
  <2> SUFFICES ASSUME NEW i \in 1..(Len(s) - 1)
               PROVE  r[Head(s)] < r[Tail(s)[i]]
    BY <1>1 DEF Prec, ToSet
  <2>1. 1 \in 1..Len(s) /\ i + 1 \in 1..Len(s) /\ 1 < i + 1
    BY <1>1
  <2>2. r[s[1]] < r[s[i + 1]]
    BY <1>1, <2>1 DEF Asc
  <2>. QED BY <1>1, <2>2
<1>. QED BY <1>1, <1>2, <1>3, <1>4, <1>5

\* Putting behind an ascending sequence what comes after all of it.
LEMMA PutLast ==
  ASSUME NEW r \in [Messages -> Nat], NEW s \in Seq(Messages),
         NEW e \in Messages, Asc(r, s), Prec(r, ToSet(s), {e})
  PROVE  /\ ToSet(Append(s, e)) = ToSet(s) \cup {e}
         /\ Asc(r, Append(s, e))
<1>1. /\ Len(s) \in Nat /\ DOMAIN s = 1..Len(s)
      /\ DOMAIN Append(s, e) = 1..(Len(s) + 1)
      /\ Append(s, e)[Len(s) + 1] = e
      /\ \A i \in 1..Len(s) : Append(s, e)[i] = s[i]
  OBVIOUS
<1>2. ToSet(Append(s, e)) = ToSet(s) \cup {e}
  BY <1>1 DEF ToSet
<1>3. Asc(r, Append(s, e))
  BY <1>1 DEF Asc, Prec, ToSet
<1>. QED BY <1>2, <1>3

-----------------------------------------------------------------------------
(* The invariant.                                                          *)

Hands == IF inHand = None THEN {} ELSE {inHand}

Line(r, p, h, b, c) ==
  /\ Asc(r, p) /\ Asc(r, b) /\ Asc(r, c)
  /\ Prec(r, ToSet(p), h) /\ Prec(r, ToSet(p), ToSet(b)) /\ Prec(r, ToSet(p), ToSet(c))
  /\ Prec(r, h, ToSet(b)) /\ Prec(r, h, ToSet(c)) /\ Prec(r, ToSet(b), ToSet(c))

InLine       == Line(arrival, pending, Hands, batch, chan)
AwaitsInLoop == inHand # None => /\ pc \in {"retry", "receive", "select"}
                                 /\ handed[inHand] # <<>>
Ranked       == \A m \in Messages : arrival[m] <= clock

Fate == TypeOK /\ BatchUnderRetry /\ AwaitsInLoop /\ Ranked /\ OneFate /\ InLine

\* InLine says of the sets what ArrivalOrder says of the sequences.
LEMMA LineIsOrder == InLine => ArrivalOrder
<1> SUFFICES ASSUME InLine PROVE ArrivalOrder
  OBVIOUS
<1>1. Ordered(pending) /\ Ordered(batch) /\ Ordered(chan)
  BY DEF InLine, Line, Asc, Ordered
<1>2. ASSUME NEW s, NEW t, Prec(arrival, ToSet(s), ToSet(t))
      PROVE  Before(s, t)
  BY <1>2 DEF Prec, ToSet, Before
<1>3. ToSet(InHand) = Hands
  BY DEF ToSet, InHand, Hands
<1>. QED BY <1>1, <1>2, <1>3 DEF ArrivalOrder, InLine, Line

\* Where each queue stays as it is or is emptied, the line stays one.
LEMMA LineShrinks ==
  ASSUME InLine, UNCHANGED arrival,
         pending' = pending \/ pending' = <<>>, batch' = batch \/ batch' = <<>>,
         chan' = chan \/ chan' = <<>>, Hands' \subseteq Hands
  PROVE  InLine'
<1>1. Asc(arrival, <<>>)
  BY DEF Asc
<1>2. /\ ToSet(pending') \subseteq ToSet(pending)
      /\ ToSet(batch') \subseteq ToSet(batch)
      /\ ToSet(chan') \subseteq ToSet(chan)
  BY ToSetEmpty
<1>3. /\ Asc(arrival, pending') /\ Asc(arrival, batch') /\ Asc(arrival, chan')
  BY <1>1 DEF InLine, Line
<1>. QED BY <1>2, <1>3 DEF InLine, Line, Prec

\* m has been taken off a queue, in line behind pending and before the rest.
TakenOff(m) ==
  /\ Line(arrival, pending, {m}, batch', chan')
  /\ Prec(arrival, {m}, ToSet(batch')) /\ Prec(arrival, {m}, ToSet(chan'))
  /\ Open = ToSet(pending) \cup {m} \cup ToSet(batch') \cup ToSet(chan')

(* Routing a message that was taken off: handed over it is in the hands of *)
(* one consumer and in no queue; put back it is the last of the backlog,   *)
(* and what makes way for it was the first and is nowhere else.            *)
LEMMA RouteFate ==
  ASSUME Fate, TypeOK', NEW m \in Messages, Route(m), TakenOff(m), inHand = None,
         pc \in {"retry", "receive", "select"}, BatchUnderRetry'
  PROVE  Fate'
<1> DEFINE P == ToSet(pending)
           B == ToSet(batch')
           C == ToSet(chan')
<1>1. /\ pending \in Seq(Messages) /\ batch' \in Seq(Messages) /\ chan' \in Seq(Messages)
      /\ arrival \in [Messages -> Nat] /\ status \in [Messages -> Statuses]
      /\ handed \in [Messages -> Seq(Consumers)]
      /\ UNCHANGED <<arrival, clock, pc>>
  BY DEF Fate, TypeOK, Route
<1>2. /\ P \subseteq Messages /\ B \subseteq Messages /\ C \subseteq Messages
  BY <1>1, ToSetType
<1>3. /\ Asc(arrival, pending) /\ Asc(arrival, batch') /\ Asc(arrival, chan')
      /\ Prec(arrival, P, {m}) /\ Prec(arrival, P, B) /\ Prec(arrival, P, C)
      /\ Prec(arrival, {m}, B) /\ Prec(arrival, {m}, C) /\ Prec(arrival, B, C)
      /\ \A x \in Messages : Queued(x) <=> x \in P \cup {m} \cup B \cup C
  BY DEF TakenOff, Line, Open
<1>4. m \notin P /\ m \notin B /\ m \notin C /\ P \cap B = {} /\ P \cap C = {}
  <2>1. arrival \in [Messages -> Nat] /\ {m} \in SUBSET Messages
    BY <1>1
  <2>2. P \in SUBSET Messages /\ B \in SUBSET Messages /\ C \in SUBSET Messages
    BY <1>2
  <2> HIDE DEF P, B, C
  <2>3. P \cap {m} = {} /\ P \cap B = {} /\ P \cap C = {}
    BY <1>3, <2>1, <2>2, PrecApart
  <2>4. {m} \cap B = {} /\ {m} \cap C = {}
    BY <1>3, <2>1, <2>2, PrecApart
  <2>. QED BY <2>3, <2>4
<1>5. Ranked'
  BY <1>1 DEF Fate, Ranked
<1>6. OneFate
  BY DEF Fate
<1>7. CASE Hand(m)
  <2>1. PICK c \in Consumers : handed' = [handed EXCEPT ![m] = Append(@, c)]
    BY <1>7 DEF Hand, Qualified, Registered, Fate, TypeOK, Entries
  <2>2. handed[m] = <<>> /\ status[m] = "accepted"
    BY <1>3, <1>6 DEF OneFate
  <2>3. /\ handed'[m] # <<>> /\ Len(handed'[m]) = 1
        /\ \A x \in Messages : x # m => handed'[x] = handed[x]
    BY <1>1, <2>1, <2>2
  <2>4. inHand' = m /\ UNCHANGED <<pending, status>>
    BY <1>7 DEF Hand
  <2>5. \A x \in Messages : Queued(x)' <=> x \in P \cup B \cup C
    BY <2>4 DEF Queued
  <2>6. OneFate'
    BY <1>3, <1>4, <1>6, <2>2, <2>3, <2>4, <2>5 DEF OneFate
  <2>7. AwaitsInLoop'
    BY <1>1, <2>3, <2>4 DEF AwaitsInLoop
  <2>8. Hands' = {m}
    BY <2>4, MessagesAssumption DEF Hands
  <2>9. InLine'
    BY <1>1, <1>3, <2>4, <2>8 DEF InLine, Line
  <2>. QED BY <1>5, <2>6, <2>7, <2>9 DEF Fate
<1>8. CASE Hold(m)
  <2>1. /\ pending' = Append(Kept, m) /\ status' = Mark(Evicted, "evicted")
        /\ UNCHANGED <<handed, inHand>>
    BY <1>8 DEF Hold, PushPending
  <2>2. /\ Kept \in Seq(Messages) /\ Asc(arrival, Kept)
        /\ Evicted \subseteq P /\ ToSet(Kept) = P \ Evicted
    <3>1. CASE Full
      <4>1. pending # <<>>
        BY <3>1 DEF Full
      <4>2. /\ Tail(pending) \in Seq(Messages) /\ Asc(arrival, Tail(pending))
            /\ P = {Head(pending)} \cup ToSet(Tail(pending))
            /\ Prec(arrival, {Head(pending)}, ToSet(Tail(pending)))
            /\ Head(pending) \in Messages
        BY <1>1, <1>3, <4>1, TakeFirst
      <4>3. Head(pending) \notin ToSet(Tail(pending))
        BY <1>1, <1>2, <4>2, PrecApart
      <4>. QED BY <3>1, <4>2, <4>3 DEF Kept, Evicted
    <3>2. CASE ~Full
      BY <1>1, <1>3, <3>2 DEF Kept, Evicted
    <3>. QED BY <3>1, <3>2
  <2>3. Prec(arrival, ToSet(Kept), {m})
    BY <1>3, <2>2 DEF Prec
  <2>4. /\ ToSet(pending') = (P \ Evicted) \cup {m} /\ Asc(arrival, pending')
    <3>1. Kept \in Seq(Messages) /\ Asc(arrival, Kept)
      BY <2>2
    <3>2. /\ ToSet(Append(Kept, m)) = ToSet(Kept) \cup {m}
          /\ Asc(arrival, Append(Kept, m))
      BY <1>1, <2>3, <3>1, PutLast
    <3>. QED BY <2>1, <2>2, <3>2
  <2>5. \A x \in Messages :
          Queued(x)' <=> x \in ((P \ Evicted) \cup {m}) \cup B \cup C
    BY <2>4 DEF Queued
  <2>6. \A x \in Messages :
          status'[x] = IF x \in Evicted THEN "evicted" ELSE status[x]
    BY <2>1 DEF Mark
  <2>7. OneFate'
    <3> SUFFICES ASSUME NEW x \in Messages
                 PROVE  /\ Queued(x)' => status'[x] = "accepted" /\ handed'[x] = <<>>
                        /\ handed'[x] # <<>> => /\ status'[x] = "accepted"
                                               /\ Len(handed'[x]) = 1
                        /\ status'[x] = "accepted" => Queued(x)' \/ handed'[x] # <<>>
      BY DEF OneFate
    <3>1. /\ Queued(x) => status[x] = "accepted" /\ handed[x] = <<>>
          /\ handed[x] # <<>> => status[x] = "accepted" /\ Len(handed[x]) = 1
          /\ status[x] = "accepted" => Queued(x) \/ handed[x] # <<>>
          /\ Queued(x) <=> x \in P \cup {m} \cup B \cup C
      BY <1>3, <1>6 DEF OneFate
    <3>2. CASE x \in Evicted
      BY <1>4, <2>1, <2>2, <2>5, <2>6, <3>1, <3>2
    <3>3. CASE x \notin Evicted
      BY <2>1, <2>5, <2>6, <3>1, <3>3
    <3>. QED BY <3>2, <3>3
  <2>8. AwaitsInLoop' /\ Hands' = {}
    BY <2>1 DEF AwaitsInLoop, Hands
  <2>9. InLine'
    <3>1. /\ Prec(arrival, ToSet(pending'), B) /\ Prec(arrival, ToSet(pending'), C)
      BY <1>3, <2>4 DEF Prec
    <3>2. /\ Prec(arrival, ToSet(pending'), {})
          /\ Prec(arrival, {}, B) /\ Prec(arrival, {}, C)
      BY DEF Prec
    <3>. QED BY <1>1, <1>3, <2>4, <2>8, <3>1, <3>2 DEF InLine, Line
  <2>. QED BY <1>5, <2>7, <2>8, <2>9 DEF Fate
<1>. QED BY <1>7, <1>8 DEF Route

\* A message the channel takes in is new to every queue and comes last.
LEMMA EnqueueFate ==
  ASSUME Fate, TypeOK', NEW m \in Messages, Enqueue(m),
         status[m] \in {"new", "sending"}
  PROVE  Fate'
<1>1. /\ chan' = Append(chan, m) /\ status' = Mark({m}, "accepted")
      /\ clock' = clock + 1 /\ arrival' = [arrival EXCEPT ![m] = clock + 1]
      /\ UNCHANGED <<pending, batch, pc, inHand, handed>>
  BY DEF Enqueue, loopState
<1>2. /\ pending \in Seq(Messages) /\ batch \in Seq(Messages) /\ chan \in Seq(Messages)
      /\ arrival \in [Messages -> Nat] /\ arrival' \in [Messages -> Nat]
      /\ status \in [Messages -> Statuses] /\ clock \in Nat
      /\ inHand \in Messages \cup {None}
  BY DEF Fate, TypeOK
<1>3. ~Queued(m) /\ handed[m] = <<>>
  BY DEF Fate, OneFate
<1>4. m \notin ToSet(pending) /\ m \notin ToSet(batch) /\ m \notin ToSet(chan)
      /\ m \notin Hands
  BY <1>3 DEF Queued, Fate, AwaitsInLoop, Hands
<1>5. /\ \A x \in Messages : x # m => arrival'[x] = arrival[x] /\ arrival[x] <= clock
      /\ arrival'[m] = clock + 1
  BY <1>1, <1>2 DEF Fate, Ranked
<1>6. Ranked'
  BY <1>1, <1>2, <1>5 DEF Ranked
\* What was in line before is so still: m was not.
<1>7. ASSUME NEW S \in SUBSET Messages, NEW T \in SUBSET Messages,
             m \notin S, m \notin T, Prec(arrival, S, T)
      PROVE  Prec(arrival', S, T)
  BY <1>5, <1>7 DEF Prec
<1>8. ASSUME NEW S \in SUBSET Messages, m \notin S
      PROVE  Prec(arrival', S, {m})
  <2> SUFFICES ASSUME NEW x \in S PROVE arrival'[x] < arrival'[m]
    BY DEF Prec
  <2>1. x \in Messages /\ x # m /\ arrival[x] \in Nat
    BY <1>2, <1>8
  <2>2. arrival'[x] = arrival[x] /\ arrival[x] <= clock /\ arrival'[m] = clock + 1
    BY <1>5, <2>1
  <2>. QED BY <1>2, <2>1, <2>2
<1>9. ASSUME NEW s \in Seq(Messages), m \notin ToSet(s), Asc(arrival, s)
      PROVE  Asc(arrival', s)
  BY <1>5, <1>9 DEF Asc, ToSet
<1>10. /\ ToSet(pending) \in SUBSET Messages /\ ToSet(batch) \in SUBSET Messages
       /\ ToSet(chan) \in SUBSET Messages /\ Hands \in SUBSET Messages
  BY <1>2, ToSetType DEF Hands
<1>11. /\ Asc(arrival, pending) /\ Asc(arrival, batch) /\ Asc(arrival, chan)
       /\ Prec(arrival, ToSet(pending), Hands)
       /\ Prec(arrival, ToSet(pending), ToSet(batch))
       /\ Prec(arrival, ToSet(pending), ToSet(chan))
       /\ Prec(arrival, Hands, ToSet(batch)) /\ Prec(arrival, Hands, ToSet(chan))
       /\ Prec(arrival, ToSet(batch), ToSet(chan))
  BY DEF Fate, InLine, Line
<1>12. /\ Asc(arrival', pending) /\ Asc(arrival', batch) /\ Asc(arrival', chan)
  BY <1>2, <1>4, <1>9, <1>11
<1>13. /\ Prec(arrival', ToSet(pending), Hands)
       /\ Prec(arrival', ToSet(pending), ToSet(batch))
       /\ Prec(arrival', ToSet(pending), ToSet(chan))
       /\ Prec(arrival', Hands, ToSet(batch)) /\ Prec(arrival', Hands, ToSet(chan))
       /\ Prec(arrival', ToSet(batch), ToSet(chan))
  BY <1>4, <1>7, <1>10, <1>11
<1>14. /\ Prec(arrival', ToSet(pending), {m}) /\ Prec(arrival', ToSet(batch), {m})
       /\ Prec(arrival', ToSet(chan), {m}) /\ Prec(arrival', Hands, {m})
  BY <1>4, <1>8, <1>10
<1>15. ToSet(chan') = ToSet(chan) \cup {m} /\ Asc(arrival', chan')
  BY <1>1, <1>2, <1>12, <1>14, PutLast
<1>16. InLine'
  <2>1. Hands' = Hands
    BY <1>1 DEF Hands
  <2>2. /\ Prec(arrival', ToSet(pending), ToSet(chan'))
        /\ Prec(arrival', ToSet(batch), ToSet(chan'))
        /\ Prec(arrival', Hands, ToSet(chan'))
    BY <1>13, <1>14, <1>15 DEF Prec
  <2>. QED BY <1>1, <1>12, <1>13, <1>15, <2>1, <2>2 DEF InLine, Line
<1>17. OneFate'
  <2>1. \A x \in Messages : Queued(x)' <=> Queued(x) \/ x = m
    BY <1>1, <1>15 DEF Queued
  <2>2. \A x \in Messages :
          status'[x] = IF x = m THEN "accepted" ELSE status[x]
    BY <1>1 DEF Mark
  <2>. QED BY <1>1, <1>3, <2>1, <2>2 DEF Fate, OneFate
<1>18. BatchUnderRetry' /\ AwaitsInLoop'
  BY <1>1 DEF Fate, BatchUnderRetry, AwaitsInLoop
<1>. QED BY <1>6, <1>16, <1>17, <1>18 DEF Fate

\* Steps that leave the messages where they are.
LEMMA FateKept ==
  ASSUME Fate, TypeOK', UNCHANGED <<chan, pending, batch, handed, arrival, clock>>,
         UNCHANGED inHand \/ inHand' = None,
         \A m \in Messages :
           status'[m] = status[m] \/ {status[m], status'[m]} \cap {"accepted"} = {},
         BatchUnderRetry', AwaitsInLoop'
  PROVE  Fate'
<1>1. Ranked'
  BY DEF Fate, Ranked
<1>2. \A x \in Messages : Queued(x)' <=> Queued(x)
  BY DEF Queued
<1>3. OneFate'
  BY <1>2 DEF Fate, OneFate
<1>4. Hands' \subseteq Hands
  BY DEF Hands
<1>5. InLine'
  BY <1>4, LineShrinks DEF Fate
<1>. QED BY <1>1, <1>3, <1>5 DEF Fate

(* Every step keeps fates and order: most leave the messages where they    *)
(* are, the others take one off, put one in or empty a queue.              *)
LEMMA FateStep == Fate /\ [Next]_vars => Fate'
<1> SUFFICES ASSUME Fate, [Next]_vars PROVE Fate'
  OBVIOUS
<1>0. TypeOK /\ TypeOK' /\ BatchUnderRetry /\ AwaitsInLoop
  BY TypeStep DEF Fate
<1>1. ASSUME NEW m \in Messages, Producer(m) PROVE Fate'
  <2>1. CASE Enqueue(m)
    BY <1>0, <1>1, <2>1, EnqueueFate
    DEF Producer, TrySend, SendEnqueue, SendFail, SendCall, Refuse
  <2>2. CASE SendCall(m) \/ (Refuse(m) /\ status[m] \in {"new", "sending"})
    <3>1. UNCHANGED <<chan, pending, batch, handed, arrival, clock, pc, inHand>>
      BY <2>2 DEF SendCall, Refuse, loopState
    <3>2. \A x \in Messages : \/ status'[x] = status[x]
                              \/ {status[x], status'[x]} \cap {"accepted"} = {}
      BY <2>2 DEF SendCall, Refuse, Mark
    <3>. QED BY <1>0, <3>1, <3>2, FateKept DEF BatchUnderRetry, AwaitsInLoop
  <2>. QED BY <1>1, <2>1, <2>2 DEF Producer, TrySend, SendEnqueue, SendFail
<1>2. ASSUME NEW m \in Messages, RelayCall(m) PROVE Fate'
  <2>1. UNCHANGED <<chan, pending, batch, handed, arrival, clock, pc, inHand>>
    BY <1>2 DEF RelayCall, Untouched
  <2>2. \A x \in Messages : \/ status'[x] = status[x]
                            \/ {status[x], status'[x]} \cap {"accepted"} = {}
    BY <1>2 DEF RelayCall, Mark
  <2>. QED BY <1>0, <2>1, <2>2, FateKept DEF BatchUnderRetry, AwaitsInLoop
<1>3. ASSUME UNCHANGED <<chan, pending, batch, handed, traffic, pc>>,
             UNCHANGED inHand \/ inHand' = None
      PROVE  Fate'
  BY <1>0, <1>3, FateKept DEF BatchUnderRetry, AwaitsInLoop, traffic
<1>4. ASSUME NEW c \in Consumers, Owner(c) PROVE Fate'
  <2>1. UNCHANGED busState
    BY <1>4 DEF Owner, RegisterCall, RegisterEnqueue, RegisterFail,
                RegisterAbandon, RegisterDirect, DeregisterCall,
                DeregisterEnqueue, DeregisterDirect
  <2>. QED BY <1>3, <2>1 DEF busState
<1>5. CASE DrainCmd \/ DispatchCmd \/ ConsumeDone
  BY <1>3, <1>5 DEF DrainCmd, DispatchCmd, ApplyCmd, busState, ConsumeDone,
                    Untouched, traffic
<1>6. CASE StartDrain \/ RetryDone \/ DrainDone \/ StartDispatch
  <2>1. UNCHANGED <<chan, pending, batch, handed, arrival, clock, status, inHand>>
    BY <1>6 DEF StartDrain, RetryDone, DrainDone, StartDispatch, Goto, traffic
  <2>2. BatchUnderRetry' /\ AwaitsInLoop'
    BY <1>0, <1>6
    DEF StartDrain, RetryDone, DrainDone, StartDispatch, Goto,
        BatchUnderRetry, AwaitsInLoop
  <2>. QED BY <1>0, <2>1, <2>2, FateKept
<1>7. CASE DrainTakePending
  <2>1. /\ batch = <<>> /\ batch' = pending /\ pending' = <<>> /\ inHand = None
        /\ pc' = "retry"
        /\ UNCHANGED <<chan, handed, arrival, clock, status, inHand>>
    BY <1>0, <1>7
    DEF DrainTakePending, TakePending, Goto, traffic, BatchUnderRetry, AwaitsInLoop
  <2>2. \A x \in Messages : Queued(x)' <=> Queued(x)
    BY <2>1, ToSetEmpty DEF Queued
  <2>3. OneFate' /\ Ranked' /\ BatchUnderRetry' /\ AwaitsInLoop'
    BY <2>1, <2>2 DEF Fate, OneFate, Ranked, BatchUnderRetry, AwaitsInLoop
  <2>4. Hands' = {} /\ Hands = {} /\ ToSet(pending') = {}
    BY <2>1, ToSetEmpty DEF Hands
  <2>5. Asc(arrival, pending')
    BY <2>1 DEF Asc
  <2>6. InLine'
    BY <2>1, <2>4, <2>5 DEF Fate, InLine, Line, Prec
  <2>. QED BY <1>0, <2>3, <2>6 DEF Fate
<1>8. CASE RetryNext
  <2>1. /\ pc = "retry" /\ inHand = None /\ batch # <<>> /\ batch' = Tail(batch)
        /\ chan' = chan /\ Route(Head(batch))
    BY <1>8 DEF RetryNext
  <2>2. BatchUnderRetry'
    BY <2>1 DEF Route, BatchUnderRetry
  <2>3. /\ arrival \in [Messages -> Nat] /\ batch \in Seq(Messages)
    BY <1>0 DEF TypeOK
  <2>4. Line(arrival, pending, Hands, batch, chan)
    BY DEF Fate, InLine
  <2>5. /\ Head(batch) \in Messages
        /\ ToSet(batch) = {Head(batch)} \cup ToSet(batch')
        /\ Asc(arrival, batch')
        /\ Prec(arrival, {Head(batch)}, ToSet(batch'))
    BY <2>1, <2>3, <2>4, TakeFirst DEF Line
  <2>6. Prec(arrival, {Head(batch)}, ToSet(chan'))
    BY <2>1, <2>4, <2>5 DEF Line, Prec
  <2>7. Line(arrival, pending, {Head(batch)}, batch', chan')
    BY <2>1, <2>4, <2>5 DEF Line, Prec
  <2>8. /\ ToSet(batch) \subseteq Messages /\ ToSet(pending) \subseteq Messages
        /\ ToSet(chan) \subseteq Messages
    BY <1>0, ToSetType DEF TypeOK
  <2>9. Open = ToSet(pending) \cup {Head(batch)} \cup ToSet(batch') \cup ToSet(chan')
    BY <2>1, <2>5, <2>8 DEF Open, Queued
  <2>10. TakenOff(Head(batch))
    BY <2>5, <2>6, <2>7, <2>9 DEF TakenOff
  <2>. QED BY <1>0, <2>1, <2>2, <2>5, <2>10, RouteFate
<1>9. CASE DrainReceive \/ DispatchReceive
  <2>1. /\ pc \in {"receive", "select"} /\ inHand = None /\ chan # <<>>
        /\ chan' = Tail(chan) /\ batch' = batch /\ batch = <<>> /\ Route(Head(chan))
    BY <1>0, <1>9 DEF DrainReceive, DispatchReceive, Receive, BatchUnderRetry
  <2>2. BatchUnderRetry'
    BY <2>1 DEF Route, BatchUnderRetry
  <2>3. /\ arrival \in [Messages -> Nat] /\ chan \in Seq(Messages)
    BY <1>0 DEF TypeOK
  <2>4. Line(arrival, pending, Hands, batch, chan)
    BY DEF Fate, InLine
  <2>5. /\ Head(chan) \in Messages
        /\ ToSet(chan) = {Head(chan)} \cup ToSet(chan')
        /\ Asc(arrival, chan')
        /\ Prec(arrival, {Head(chan)}, ToSet(chan'))
    BY <2>1, <2>3, <2>4, TakeFirst DEF Line
  <2>6. ToSet(batch') = {}
    BY <2>1, ToSetEmpty
  <2>7. Line(arrival, pending, {Head(chan)}, batch', chan')
    BY <2>1, <2>4, <2>5, <2>6 DEF Line, Prec
  <2>8. /\ ToSet(pending) \subseteq Messages /\ ToSet(chan) \subseteq Messages
    BY <1>0, ToSetType DEF TypeOK
  <2>9. Open = ToSet(pending) \cup {Head(chan)} \cup ToSet(batch') \cup ToSet(chan')
    BY <2>1, <2>5, <2>6, <2>8 DEF Open, Queued
  <2>10. TakenOff(Head(chan))
    BY <2>5, <2>6, <2>7, <2>9 DEF TakenOff, Prec
  <2>. QED BY <1>0, <2>1, <2>2, <2>5, <2>10, RouteFate
<1>10. CASE Cancel
  <2>1. /\ batch' = <<>> /\ inHand' = None /\ pc' = "idle"
        /\ UNCHANGED <<chan, pending, handed, arrival, clock>>
        /\ \A m \in Messages :
             status'[m] = IF m \in ToSet(batch) THEN "lost"
                          ELSE IF RelayBlocked /\ m = relay THEN "refused"
                          ELSE status[m]
    BY <1>10 DEF Cancel, Untouched
  <2>2. /\ BatchUnderRetry' /\ AwaitsInLoop' /\ Ranked' /\ Hands' = {}
    BY <2>1 DEF Fate, BatchUnderRetry, AwaitsInLoop, Ranked, Hands
  <2>3. InLine'
    BY <2>1, <2>2, LineShrinks DEF Fate
  <2>4. /\ ToSet(pending) \cap ToSet(batch) = {} /\ ToSet(batch) \cap ToSet(chan) = {}
    <3>1. /\ ToSet(pending) \in SUBSET Messages /\ ToSet(batch) \in SUBSET Messages
          /\ ToSet(chan) \in SUBSET Messages /\ arrival \in [Messages -> Nat]
      BY <1>0, ToSetType DEF TypeOK
    <3>2. /\ Prec(arrival, ToSet(pending), ToSet(batch))
          /\ Prec(arrival, ToSet(batch), ToSet(chan))
      BY DEF Fate, InLine, Line
    <3>. QED BY <3>1, <3>2, PrecApart
  <2>5. \A x \in Messages : Queued(x)' <=> Queued(x) /\ x \notin ToSet(batch)
    BY <2>1, <2>4, ToSetEmpty DEF Queued
  <2>6. \A x \in Messages : x \in ToSet(batch) => Queued(x)
    BY DEF Queued
  <2>7. \A x \in Messages : RelayBlocked /\ x = relay => status[x] = "sending"
    BY DEF RelayBlocked
  <2>8. OneFate'
    BY <2>1, <2>5, <2>6, <2>7 DEF Fate, OneFate
  <2>. QED BY <1>0, <2>2, <2>3, <2>8 DEF Fate
<1>11. CASE DropBus
  <2>1. /\ batch = <<>> /\ batch' = <<>> /\ chan' = <<>> /\ pending' = <<>>
        /\ inHand = None /\ status' = Mark(Open, "lost")
        /\ UNCHANGED <<handed, arrival, clock, inHand>>
    BY <1>0, <1>11 DEF DropBus, BatchUnderRetry, AwaitsInLoop
  <2>2. /\ BatchUnderRetry' /\ AwaitsInLoop' /\ Ranked' /\ Hands' = Hands
    BY <2>1 DEF Fate, BatchUnderRetry, AwaitsInLoop, Ranked, Hands
  <2>3. InLine'
    BY <2>1, <2>2, LineShrinks DEF Fate
  <2>4. /\ \A x \in Messages : ~Queued(x)'
        /\ \A x \in Messages : status'[x] = IF Queued(x) THEN "lost" ELSE status[x]
    BY <2>1, ToSetEmpty DEF Queued, Mark, Open
  <2>5. OneFate'
    BY <2>1, <2>4 DEF Fate, OneFate
  <2>. QED BY <1>0, <2>2, <2>3, <2>5 DEF Fate
<1>12. CASE UNCHANGED vars
  BY <1>3, <1>12 DEF vars
<1>. QED BY <1>1, <1>2, <1>4, <1>5, <1>6, <1>7, <1>8, <1>9, <1>10, <1>11, <1>12
         DEF Next, Drain, Dispatch

\* The invariant of fates and order holds in every state.
LEMMA FateHolds == Spec => []Fate
<1>1. Init => TypeOK
  BY CapacityAssumption
  DEF Init, TypeOK, Stages, Statuses, Places, Entries, Commands
<1>2. ASSUME Init PROVE Fate
  <2>1. OneFate
    BY <1>2, ToSetEmpty DEF Init, OneFate, Queued
  <2>2. BatchUnderRetry /\ AwaitsInLoop /\ Ranked
    BY <1>2 DEF Init, BatchUnderRetry, AwaitsInLoop, Ranked
  <2>3. InLine
    BY <1>2, ToSetEmpty DEF Init, InLine, Line, Asc, Prec
  <2>. QED BY <1>1, <1>2, <2>1, <2>2, <2>3 DEF Fate
<1>. QED BY <1>2, FateStep, PTL DEF Spec

(* No message has two fates, nor is one handed over twice, whatever the    *)
(* loop is doing when it is cancelled, dropped or retrying its backlog.    *)
THEOREM FateInvariant == Spec => []OneFate
<1>1. Fate => OneFate
  BY DEF Fate
<1>. QED BY <1>1, FateHolds, PTL

(* Backlog, message in hand, batch under retry and channel are one line in *)
(* the order of arrival.                                                   *)
THEOREM OrderInvariant == Spec => []ArrivalOrder
<1>1. Fate => ArrivalOrder
  BY LineIsOrder DEF Fate
<1>. QED BY <1>1, FateHolds, PTL

-----------------------------------------------------------------------------
\* Only what is put back into the backlog evicts.
LEMMA OnlyHoldEvicts ==
  ASSUME [Next]_vars, NEW m \in Messages, status[m] # "evicted", status'[m] = "evicted"
  PROVE  /\ \E x : Hold(x) /\ UNCHANGED arrival
         /\ \/ pc = "retry" /\ batch # <<>>
            \/ pc \in {"receive", "select"}
<1>1. CASE UNCHANGED status
  BY <1>1
<1>2. ASSUME NEW x \in Messages, Producer(x) \/ RelayCall(x) PROVE FALSE
  BY <1>2 DEF Producer, TrySend, SendCall, SendEnqueue, SendFail, Enqueue, Refuse,
              RelayCall, Mark
<1>3. ASSUME NEW c \in Consumers, Owner(c) PROVE UNCHANGED status
  BY <1>3 DEF Owner, RegisterCall, RegisterEnqueue, RegisterFail, RegisterAbandon,
              RegisterDirect, DeregisterCall, DeregisterEnqueue, DeregisterDirect,
              busState, traffic
<1>4. CASE DrainCmd \/ DispatchCmd \/ ConsumeDone \/ StartDrain \/ RetryDone
             \/ DrainDone \/ StartDispatch \/ DrainTakePending
  BY <1>1, <1>4 DEF DrainCmd, DispatchCmd, ApplyCmd, busState, ConsumeDone, Untouched,
                    StartDrain, RetryDone, DrainDone, StartDispatch, DrainTakePending,
                    Goto, traffic
<1>5. CASE Cancel \/ DropBus
  BY <1>5 DEF Cancel, DropBus, Mark
<1>6. ASSUME NEW x, Route(x) PROVE Hold(x) /\ UNCHANGED arrival
  BY <1>6 DEF Route, Hand
<1>7. CASE RetryNext \/ DrainReceive \/ DispatchReceive
  BY <1>6, <1>7 DEF RetryNext, DrainReceive, DispatchReceive, Receive
<1>8. CASE UNCHANGED vars
  BY <1>1, <1>8 DEF vars, traffic
<1>. QED BY <1>1, <1>2, <1>3, <1>4, <1>5, <1>7, <1>8 DEF Next, Drain, Dispatch

\* The backlog is full then, no retry is under way, and its head is the oldest.
LEMMA EvictsStep ==
  ASSUME Fate, Fate', Bounded, [Next]_vars, NEW m \in Messages,
         status[m] # "evicted", status'[m] = "evicted"
  PROVE  /\ pc \in {"receive", "select"} /\ Len(pending) = Limit
         /\ m = Head(pending)
         /\ \A n \in Messages : Queued(n)' => arrival[m] < arrival'[n]
<1>1. PICK x : Hold(x) /\ UNCHANGED arrival
  BY OnlyHoldEvicts
<1>2. \/ pc = "retry" /\ batch # <<>>
      \/ pc \in {"receive", "select"}
  BY OnlyHoldEvicts
<1>3. status' = Mark(Evicted, "evicted") /\ handed' = handed
  BY <1>1 DEF Hold, PushPending
<1>4. Full /\ m = Head(pending)
  BY <1>3 DEF Mark, Evicted
<1>5. /\ pending \in Seq(Messages) /\ batch \in Seq(Messages) /\ chan \in Seq(Messages)
      /\ arrival \in [Messages -> Nat] /\ pending # <<>>
  BY <1>4 DEF Fate, TypeOK, Full
<1>6. pc \in {"receive", "select"} /\ Len(pending) = Limit
  <2>1. /\ Len(pending) >= MaxPending /\ Len(pending) >= 1
        /\ Len(pending) + Len(batch) <= Limit /\ Limit \in Nat
        /\ Limit = IF MaxPending = 0 THEN 1 ELSE MaxPending
    BY <1>4, <1>5, CapacityAssumption DEF Full, Bounded, BacklogBound, Limit
  <2>2. /\ Len(pending) \in Nat /\ Len(batch) \in Nat
        /\ batch # <<>> => Len(batch) >= 1
    BY <1>5
  <2>3. Len(pending) >= Limit
    BY <2>1, <2>2, CapacityAssumption
  <2>4. ASSUME NEW p \in Nat, NEW b \in Nat, NEW l \in Nat, p + b <= l, p >= l
        PROVE  ~(b >= 1) /\ p = l
    BY <2>4
  <2>5. ~(Len(batch) >= 1) /\ Len(pending) = Limit
    BY <2>1, <2>2, <2>3, <2>4
  <2>. QED BY <1>2, <2>2, <2>5
<1>7. batch = <<>>
  BY <1>6 DEF Fate, BatchUnderRetry
<1>8. ASSUME NEW n \in Messages, Queued(n)'
      PROVE  arrival[m] < arrival'[n]
  <2>1. n # m /\ Queued(n)
    <3>1. status'[n] = "accepted" /\ handed'[n] = <<>>
      BY <1>8 DEF Fate, OneFate
    <3>2. n # m /\ status[n] = "accepted" /\ handed[n] = <<>>
      BY <1>3, <3>1 DEF Mark
    <3>. QED BY <3>2 DEF Fate, OneFate
  <2>2. Asc(arrival, pending) /\ Prec(arrival, ToSet(pending), ToSet(chan))
    BY DEF Fate, InLine, Line
  <2>3. /\ ToSet(pending) = {Head(pending)} \cup ToSet(Tail(pending))
        /\ Prec(arrival, {Head(pending)}, ToSet(Tail(pending)))
    BY <1>5, <2>2, TakeFirst
  <2>4. n \in ToSet(Tail(pending)) \/ n \in ToSet(chan)
    BY <1>4, <1>7, <2>1, <2>3, ToSetEmpty DEF Queued
  <2>. QED BY <1>1, <1>4, <2>2, <2>3, <2>4 DEF Prec
<1>. QED BY <1>4, <1>6, <1>8

(* A message is evicted only by one fresh from the channel, only when the  *)
(* backlog is full, and only if it is the oldest the bus holds.            *)
THEOREM EvictsOldestTheorem == Spec => EvictsOldest
<1>1. ASSUME Fate, Fate', Bounded, [Next]_vars
      PROVE  [\A m \in Messages :
                status[m] # "evicted" /\ status'[m] = "evicted" =>
                  /\ pc \in {"receive", "select"} /\ Len(pending) = Limit
                  /\ m = Head(pending)
                  /\ \A n \in Messages : Queued(n)' => arrival[m] < arrival'[n]]_vars
  BY <1>1, EvictsStep
<1>2. Fate /\ BacklogBound => Bounded
  BY DEF Fate, Bounded
<1>. QED BY <1>1, <1>2, FateHolds, BacklogInvariant, PTL DEF Spec, EvictsOldest
=============================================================================
