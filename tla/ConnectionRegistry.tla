------------------------- MODULE ConnectionRegistry -------------------------
(***************************************************************************)
(* The ConnectionRegistry of src/components/endpoint/network/connection.rs:*)
(* a table of senders behind a mutex, and a count of them beside it, which *)
(* is changed after the table and outside its lock.  Tasks connect,        *)
(* disconnect and broadcast at the same time; clients read their channels, *)
(* or do not, and drop them when they like.                                *)
(***************************************************************************)
EXTENDS Naturals, Sequences, FiniteSets

CONSTANTS Clients,       \* the tasks that connect, each with its own channel
          Broadcasters,  \* the tasks that broadcast
          NoTask,        \* holds the lock when no task does
          Room,          \* the capacity of a client's channel
          Wrap           \* what usize counts modulo

ASSUME RegistryAssumption == /\ NoTask \notin Broadcasters
                             /\ Clients \cap Broadcasters = {}
                             /\ Room \in Nat \ {0}
                             /\ Wrap \in Nat \ {0}

VARIABLES connections,   \* id -> the client whose sender is stored under it
          nextId, active,
          lock,          \* of the connections
          task,          \* where the calls of each task stand
          id,            \* the id each client's connect() drew
          queued,        \* the messages in each client's channel
          closed,        \* the clients that dropped their receiver
          senders,       \* the <<id, client>> a broadcast() has still to serve
          dead           \* the ids it found closed

table   == <<connections, nextId, active, lock>>
channel == <<queued, closed>>
local   == <<senders, dead>>
vars    == <<table, task, id, channel, local>>

Without(i) == [j \in DOMAIN connections \ {i} |-> connections[j]]
With(i, c) == [j \in DOMAIN connections \cup {i} |-> IF j = i THEN c ELSE connections[j]]
Bug_HasRoomAlways(c) == queued[c] <= Room
HasRoom(c) == queued[c] < Room

\* Relaxed fetch_add and fetch_sub wrap around.
Bug_Saturate(n) == IF n = 0 THEN 0 ELSE n - 1
Up(n)   == (n + 1) % Wrap
Down(n) == (n + Wrap - 1) % Wrap

Become(t, state) == task' = [task EXCEPT ![t] = state]

Init == /\ connections = [i \in {} |-> NoTask]
        /\ nextId = 0 /\ active = 0 /\ lock = NoTask
        /\ task = [t \in Clients \cup Broadcasters |->
                     IF t \in Clients THEN "out" ELSE "idle"]
        /\ id = [c \in Clients |-> 0]
        /\ queued = [c \in Clients |-> 0] /\ closed = {}
        /\ senders = [b \in Broadcasters |-> <<>>]
        /\ dead = [b \in Broadcasters |-> {}]

-----------------------------------------------------------------------------
(* connect(): an id, then the entry, then the count, each a step of its own *)

Bug_FreeSlot == Cardinality(DOMAIN connections)
FreshId == nextId

DrawId(c) == /\ task[c] = "out"
             /\ id' = [id EXCEPT ![c] = FreshId]
             /\ nextId' = nextId + 1
             /\ Become(c, "drawn")
             /\ UNCHANGED <<connections, active, lock, channel, local>>

Insert(c) == /\ task[c] = "drawn" /\ lock = NoTask
             /\ connections' = With(id[c], c)
             /\ Become(c, "uncounted")
             /\ UNCHANGED <<nextId, active, lock, id, channel, local>>

Count(c) == /\ task[c] = "uncounted"
            /\ active' = Up(active)
            /\ Become(c, "in")
            /\ UNCHANGED <<connections, nextId, lock, id, channel, local>>

(* disconnect(): may be called again, and after a broadcast() was quicker   *)

CallDisconnect(c) == /\ task[c] = "in"
                     /\ Become(c, "leaving")
                     /\ UNCHANGED <<table, id, channel, local>>

Remove(c) == /\ task[c] = "leaving" /\ lock = NoTask
             /\ connections' = Without(id[c])
             /\ Become(c, IF id[c] \in DOMAIN connections THEN "removed" ELSE "in")
             /\ UNCHANGED <<nextId, active, lock, id, channel, local>>

Uncount(c) == /\ task[c] = "removed"
              /\ active' = Down(active)
              /\ Become(c, "in")
              /\ UNCHANGED <<connections, nextId, lock, id, channel, local>>

(* broadcast(): a snapshot under the lock, the sends outside it, one after  *)
(* the other in the order of the map, and the closed ones removed under it  *)

Orders(S) == {s \in [1..Cardinality(S) -> S] : \A x \in S : \E i \in DOMAIN s : s[i] = x}
Stored == {<<i, connections[i]>> : i \in DOMAIN connections}

Bug_SnapshotKeepsLock(b) ==
  /\ task[b] = "idle" /\ lock = NoTask
  /\ lock' = IF Stored = {} THEN NoTask ELSE b
  /\ \E order \in Orders(Stored) : senders' = [senders EXCEPT ![b] = order]
  /\ Become(b, "sending")
  /\ UNCHANGED <<connections, nextId, active, id, channel, dead>>

Snapshot(b) == /\ task[b] = "idle" /\ lock = NoTask
               /\ \E order \in Orders(Stored) : senders' = [senders EXCEPT ![b] = order]
               /\ Become(b, "sending")
               /\ UNCHANGED <<table, id, channel, dead>>

Send(b) == /\ task[b] = "sending" /\ senders[b] # <<>>
           /\ LET i == Head(senders[b])[1]
                  c == Head(senders[b])[2]
              IN \/ /\ c \in closed
                    /\ dead' = [dead EXCEPT ![b] = @ \cup {i}]
                    /\ UNCHANGED queued
                 \/ /\ c \notin closed /\ HasRoom(c)
                    /\ queued' = [queued EXCEPT ![c] = @ + 1]
                    /\ UNCHANGED dead
           /\ senders' = [senders EXCEPT ![b] = Tail(@)]
           /\ UNCHANGED <<table, task, id, closed>>

Return(b) == /\ task[b] = "sending" /\ senders[b] = <<>> /\ dead[b] = {}
             /\ Become(b, "idle")
             /\ UNCHANGED <<table, id, channel, local>>

Relock(b) == /\ task[b] = "sending" /\ senders[b] = <<>> /\ dead[b] # {}
             /\ lock = NoTask /\ lock' = b
             /\ Become(b, "pruning")
             /\ UNCHANGED <<connections, nextId, active, id, channel, local>>

Prune(b) == /\ task[b] = "pruning"
            /\ \E i \in dead[b] :
                 /\ connections' = Without(i)
                 /\ active' = IF i \in DOMAIN connections THEN Down(active) ELSE active
                 /\ dead' = [dead EXCEPT ![b] = @ \ {i}]
            /\ UNCHANGED <<nextId, lock, task, id, channel, senders>>

Unlock(b) == /\ task[b] = "pruning" /\ dead[b] = {}
             /\ lock' = NoTask
             /\ Become(b, "idle")
             /\ UNCHANGED <<connections, nextId, active, id, channel, local>>

(* the clients' ends *)

Receive(c) == /\ c \notin closed /\ queued[c] > 0
              /\ queued' = [queued EXCEPT ![c] = @ - 1]
              /\ UNCHANGED <<table, task, id, closed, local>>

Close(c) == /\ c \notin closed
            /\ closed' = closed \cup {c}
            /\ queued' = [queued EXCEPT ![c] = 0]
            /\ UNCHANGED <<table, task, id, local>>

ClientStep(c) == \/ DrawId(c) \/ Insert(c) \/ Count(c)
                 \/ CallDisconnect(c) \/ Remove(c) \/ Uncount(c)
                 \/ Receive(c) \/ Close(c)
BroadcastStep(b) == \/ Snapshot(b) \/ Send(b) \/ Return(b)
                    \/ Relock(b) \/ Prune(b) \/ Unlock(b)

Next == \/ \E c \in Clients : ClientStep(c)
        \/ \E b \in Broadcasters : BroadcastStep(b)

Spec == Init /\ [][Next]_vars

(* A call that was begun goes on; tokio serves those who wait for a mutex   *)
(* or for room in a channel in turn.  Nobody has to call, read or close.    *)
Fairness ==
  /\ \A c \in Clients : SF_vars(Insert(c) \/ Count(c) \/ Remove(c) \/ Uncount(c))
  /\ \A b \in Broadcasters :
       SF_vars(Send(b) \/ Return(b) \/ Relock(b) \/ Prune(b) \/ Unlock(b))

LiveSpec == Spec /\ Fairness

-----------------------------------------------------------------------------
Drew(c, i) == c \in Clients /\ task[c] # "out" /\ id[c] = i /\ i < nextId

\* An id in the table, in a snapshot or in a list of the dead was drawn, and by
\* the client it is kept with.
TypeOK ==
  /\ nextId \in Nat
  /\ \A i \in DOMAIN connections : Drew(connections[i], i)
  /\ \A b \in Broadcasters :
       /\ \A k \in DOMAIN senders[b] : Drew(senders[b][k][2], senders[b][k][1])
       /\ \A i \in dead[b] : \E c \in closed : Drew(c, i)
  /\ active \in 0..Wrap - 1
  /\ lock \in Broadcasters \cup {NoTask}
  /\ \A c \in Clients : task[c] \in {"out", "drawn", "uncounted", "in", "leaving", "removed"}
  /\ \A b \in Broadcasters : task[b] \in {"idle", "sending", "pruning"}
  /\ id \in [Clients -> Nat]
  /\ queued \in [Clients -> 0..Room] /\ closed \subseteq Clients

(* The count is the size of the table but for the calls that are between    *)
(* the two: whichever of disconnect() and broadcast() removes a connection, *)
(* and even if it does so before connect() has counted it, it is counted    *)
(* once and uncounted once.  When no call is under way available() is true  *)
(* exactly if the table holds somebody.                                     *)
CounterAccounts ==
  (active + Cardinality({c \in Clients : task[c] = "uncounted"})) % Wrap
    = (Cardinality(DOMAIN connections)
         + Cardinality({c \in Clients : task[c] = "removed"})) % Wrap

(* A connection leaves the table only by its own disconnect() or because    *)
(* its receiver is gone: a broadcast() that acts on an old snapshot, with   *)
(* others connecting meanwhile, never removes or replaces a living one.     *)
LivingStay ==
  [][\A i \in DOMAIN connections :
       LET c == connections[i]
       IN \/ i \in DOMAIN connections' /\ connections'[i] = c
          \/ c \in closed
          \/ task[c] = "leaving"]_vars

(* connect() and disconnect() return whatever the clients do, also while a  *)
(* broadcast() waits for a client that does not read; and only a client     *)
(* that stays connected with a full channel can keep a broadcast() waiting. *)
CallsReturn ==
  /\ \A c \in Clients : []<>(task[c] \in {"out", "in"})
  /\ \A b \in Broadcasters :
       []<>(task[b] = "idle") \/ \E c \in Clients : <>[](~HasRoom(c) /\ c \notin closed)
=============================================================================
