---------------------------- MODULE GrpcEndpoint ----------------------------
(***************************************************************************)
(* The gRPC service of src/components/endpoint/network/grpc.rs.  A client  *)
(* calls Register, Stream and Deregister on one connection; the service    *)
(* keeps one entry per remote address to tell which registration a Stream  *)
(* or a Deregister is about.  A Stream with a consumer spawns a forwarder, *)
(* one with a producer an inbound task; both clean up when they end.       *)
(*                                                                         *)
(* Each Register call is named by the uuid it draws, which also names the  *)
(* registration it makes on the bus.  The mutex of the entries is never    *)
(* held across an await: what is done under it is one step.                *)
(***************************************************************************)
EXTENDS Feed

CONSTANTS Addresses,  \* the remote addresses clients call from
          Roles,      \* the roles Register calls declare: call -> set of roles
          OutRoom     \* capacity of a Stream's outbound channel

ASSUME RolesAssumption == Roles \subseteq [Consumers -> SUBSET {"consumer", "producer"}]

ASSUME OutRoomAssumption == OutRoom \in Nat \ {0}

VARIABLES register,   \* where each Register call stands
          addr, role, \* its remote address and the roles it declares
          entry,      \* address -> the Register call whose entry is stored
          parked,     \* the calls whose consumer_rx no Stream has taken
          handles,    \* the calls whose producer_handle no Stream has taken
          forwarder,  \* the task spawned for the consumer of each call
          inbound,    \* the task spawned for its producer
          out,        \* the messages in its outbound channel
          broken,     \* the calls whose Stream the client gave up
          deregister  \* where the Deregister call for each uuid stands

service == <<entry, parked, handles>>
calls   == <<register, addr, role, deregister>>
streams == <<forwarder, inbound, out, broken>>
vars    == <<feed, service, calls, streams>>

Nobody == NoConsumer
Set(f, r, state) == [f EXCEPT ![r] = state]

Init == /\ FeedInit
        /\ register = [r \in Consumers |-> "new"]
        /\ addr \in [Consumers -> Addresses]
        /\ role \in Roles
        /\ entry = [a \in Addresses |-> Nobody]
        /\ parked = {} /\ handles = {}
        /\ forwarder = [r \in Consumers |-> "none"]
        /\ inbound = [r \in Consumers |-> "none"]
        /\ out = [r \in Consumers |-> 0] /\ broken = {}
        /\ deregister = [r \in Consumers |-> "none"]

\* An entry leaves the map with what is still in it.
Bug_RemoveEntryKeepsHandles(a) == /\ entry' = Set(entry, a, Nobody)
                                  /\ parked' = parked \ {entry[a]}
                                  /\ UNCHANGED handles
RemoveEntry(a) == /\ entry' = Set(entry, a, Nobody)
                  /\ parked' = parked \ {entry[a]}
                  /\ handles' = handles \ {entry[a]}

-----------------------------------------------------------------------------
(* Register *)

CallRegister(r) ==
  /\ register[r] = "new"
  /\ IF "consumer" \in role[r]
     THEN OpenRx(r) /\ register' = Set(register, r, "command")
     ELSE UNCHANGED channels /\ register' = Set(register, r, "insert")
  /\ UNCHANGED <<inbox, cmds, applied, members, handing, service, addr, role, deregister, streams>>

SendRegister(r) == /\ register[r] = "command"
                   /\ Command("register", r)
                   /\ register' = Set(register, r, "reply")
                   /\ UNCHANGED <<service, addr, role, deregister, streams>>

GetReply(r) == /\ register[r] = "reply" /\ r \in applied
               /\ register' = Set(register, r, "insert")
               /\ UNCHANGED <<feed, service, addr, role, deregister, streams>>

Insert(r) == /\ register[r] = "insert"
             /\ LET old == entry[addr[r]]
                IN /\ entry' = Set(entry, addr[r], r)
                   /\ DropRx(parked \cap {old})
                   /\ parked' = (parked \ {old}) \cup (open \cap {r})
                   /\ handles' = (handles \ {old})
                                   \cup {x \in {r} : "producer" \in role[x]}
             /\ register' = Set(register, r, "done")
             /\ UNCHANGED <<inbox, cmds, applied, members, handing, addr, role, deregister, streams>>

\* The client gives up the call and tonic drops the handler at an await.
CancelRegister(r) ==
  /\ register[r] \in {"command", "reply", "insert"}
  /\ DropRx({r})
  /\ register' = Set(register, r, "cancelled")
  /\ UNCHANGED <<inbox, cmds, applied, members, handing, service, addr, role, deregister, streams>>

(* Stream: takes what the entry of the address holds; a later Stream finds  *)
(* nothing left and ends at once.                                           *)

Stream(a) == /\ entry[a] \in parked \cup handles
             /\ LET r == entry[a]
                IN /\ parked' = parked \ {r} /\ handles' = handles \ {r}
                   /\ forwarder' = IF r \in parked THEN Set(forwarder, r, "receive") ELSE forwarder
                   /\ inbound' = IF r \in handles THEN Set(inbound, r, "read") ELSE inbound
             /\ UNCHANGED <<feed, entry, calls, out, broken>>

(* the forwarder: from the consumer's channel to the outbound one           *)

Receive(r) == /\ forwarder[r] = "receive"
              /\ TakeFrom(r)
              /\ forwarder' = Set(forwarder, r, "send")
              /\ UNCHANGED <<inbox, cmds, applied, members, handing, open, lost,
                             service, calls, inbound, out, broken>>

Bug_AnyEnd(r) == SenderDropped(r)
AtEnd(r) == SenderDropped(r) /\ queue[r] = 0

ReceiveEnd(r) == /\ forwarder[r] = "receive" /\ AtEnd(r)
                 /\ forwarder' = Set(forwarder, r, "deregister")
                 /\ UNCHANGED <<feed, service, calls, inbound, out, broken>>

Forward(r) == /\ forwarder[r] = "send"
              /\ \/ /\ r \notin broken /\ out[r] < OutRoom
                    /\ out' = [out EXCEPT ![r] = @ + 1]
                    /\ forwarder' = Set(forwarder, r, "receive")
                    /\ UNCHANGED lost
                 \/ /\ r \in broken
                    /\ lost' = lost \cup {r}
                    /\ forwarder' = Set(forwarder, r, "deregister")
                    /\ UNCHANGED out
              /\ UNCHANGED <<inbox, cmds, applied, members, handing, queue, open,
                             service, calls, inbound, broken>>

\* The task owns its receiver to its end, also while it waits for room.
Bug_IdInEntry(r) == IF entry[addr[r]] = Nobody THEN r ELSE entry[addr[r]]
OwnId(r) == r

ForwarderDeregister(r) == /\ forwarder[r] = "deregister"
                          /\ Command("deregister", OwnId(r))
                          /\ forwarder' = Set(forwarder, r, "remove")
                          /\ UNCHANGED <<service, calls, inbound, out, broken>>

Bug_ForwarderAwaitsBus(r) ==
  /\ forwarder[r] = "remove" /\ r \notin members
  /\ RemoveEntry(addr[r])
  /\ DropRx({r} \cup (parked \cap {entry[addr[r]]}))
  /\ forwarder' = Set(forwarder, r, "done")
  /\ UNCHANGED <<inbox, cmds, applied, members, handing, calls, inbound, out, broken>>

ForwarderRemove(r) ==
  /\ forwarder[r] = "remove"
  /\ RemoveEntry(addr[r])
  /\ DropRx({r} \cup (parked \cap {entry[addr[r]]}))
  /\ forwarder' = Set(forwarder, r, "done")
  /\ UNCHANGED <<inbox, cmds, applied, members, handing, calls, inbound, out, broken>>

(* the inbound task: from the client to the bus; it cleans up only when the *)
(* same Stream took no receiver                                             *)

Read(r) == /\ inbound[r] = "read" /\ r \notin broken
           /\ inbound' = Set(inbound, r, "publish")
           /\ UNCHANGED <<feed, service, calls, forwarder, out, broken>>

MakeSend(r) == /\ inbound[r] = "publish"
               /\ Publish
               /\ inbound' = Set(inbound, r, "read")
               /\ UNCHANGED <<service, calls, forwarder, out, broken>>

InboundEnd(r) == /\ inbound[r] = "read"
                 /\ inbound' = Set(inbound, r, IF forwarder[r] = "none" THEN "remove" ELSE "done")
                 /\ UNCHANGED <<feed, service, calls, forwarder, out, broken>>

InboundRemove(r) ==
  /\ inbound[r] = "remove"
  /\ RemoveEntry(addr[r])
  /\ DropRx(parked \cap {entry[addr[r]]})
  /\ inbound' = Set(inbound, r, "done")
  /\ UNCHANGED <<inbox, cmds, applied, members, handing, calls, forwarder, out, broken>>

(* Deregister: with the uuid that Register answered; any other is refused   *)

CallDeregister(r) ==
  /\ register[r] = "done" /\ deregister[r] = "none"
  /\ entry[addr[r]] = r
  /\ RemoveEntry(addr[r])
  /\ DropRx(parked \cap {r})
  /\ deregister' = Set(deregister, r, IF "consumer" \in role[r] THEN "command" ELSE "done")
  /\ UNCHANGED <<inbox, cmds, applied, members, handing, register, addr, role, streams>>

SendDeregister(r) == /\ deregister[r] = "command"
                     /\ Command("deregister", r)
                     /\ deregister' = Set(deregister, r, "done")
                     /\ UNCHANGED <<service, register, addr, role, streams>>

CancelDeregister(r) == /\ deregister[r] = "command"
                       /\ deregister' = Set(deregister, r, "cancelled")
                       /\ UNCHANGED <<feed, service, register, addr, role, streams>>

(* the client's end of a Stream *)

ClientReads(r) == /\ out[r] > 0
                  /\ out' = [out EXCEPT ![r] = @ - 1]
                  /\ UNCHANGED <<feed, service, calls, forwarder, inbound, broken>>

Break(r) == /\ r \notin broken /\ (forwarder[r] # "none" \/ inbound[r] # "none")
            /\ broken' = broken \cup {r}
            /\ out' = [out EXCEPT ![r] = 0]
            /\ UNCHANGED <<feed, service, calls, forwarder, inbound>>

Server(r) == \/ SendRegister(r) \/ GetReply(r) \/ Insert(r)
             \/ SendDeregister(r)
Forwarder(r) == \/ Receive(r) \/ ReceiveEnd(r) \/ Forward(r)
                \/ ForwarderDeregister(r) \/ ForwarderRemove(r)
Inbound(r) == MakeSend(r) \/ InboundRemove(r)
Client(r) == \/ CallRegister(r) \/ CancelRegister(r)
             \/ CallDeregister(r) \/ CancelDeregister(r)
             \/ Read(r) \/ InboundEnd(r) \/ ClientReads(r) \/ Break(r)
Bus == Loop /\ UNCHANGED <<service, calls, streams>>
Others == Publish /\ UNCHANGED <<service, calls, streams>>

Next == \/ \E r \in Consumers : Server(r) \/ Forwarder(r) \/ Inbound(r) \/ Client(r)
        \/ \E a \in Addresses : Stream(a)
        \/ Bus \/ Others

Spec == Init /\ [][Next]_vars

(* The tasks of the server and the loop of the bus run on.  Nothing is      *)
(* asked of clients.                                                        *)
Fairness == /\ WF_vars(Bus)
            /\ \A r \in Consumers : WF_vars(Server(r)) /\ WF_vars(Forwarder(r))

LiveSpec == Spec /\ Fairness

-----------------------------------------------------------------------------
TypeOK ==
  /\ FeedTypeOK
  /\ entry \in [Addresses -> Consumers \cup {Nobody}]
  /\ \A a \in Addresses : entry[a] # Nobody => addr[entry[a]] = a
  /\ parked \cup handles \subseteq {entry[a] : a \in Addresses}
  /\ parked \subseteq open
  /\ out \in [Consumers -> 0..OutRoom] /\ broken \subseteq Consumers
  /\ \A r \in Consumers : forwarder[r] \in {"receive", "send", "deregister", "remove"} => r \in open

(* A client that streams, has not given up and has not called Deregister    *)
(* keeps its place on the bus, whatever other calls and streams, on the     *)
(* same connection or another, end or are deregistered meanwhile.           *)
StreamKeepsPlace ==
  \A r \in Consumers :
    (forwarder[r] # "none" /\ r \notin broken /\ deregister[r] = "none")
      => /\ r \in members
         /\ \A i \in DOMAIN cmds : cmds[i] # [kind |-> "deregister", id |-> r]

(* What the bus hands to a client that streams and has not given up is      *)
(* never lost: also not what was handed between its Deregister and the      *)
(* moment the bus applied it, nor what was queued when the stream was then  *)
(* ended.                                                                   *)
NothingLost == \A r \in lost : r \in broken \/ forwarder[r] = "none"

(* The loop of the bus hands its message over and goes on, unless the       *)
(* receiver lies in an entry no Stream ever takes, or the client neither    *)
(* reads nor gives up, or - the deadlock of the forwarder - its forwarder   *)
(* waits with the receiver in hand for room among the commands that only    *)
(* the loop would make.                                                     *)
LoopGoesOn ==
  \A r \in Consumers :
    \/ []<>(handing # r)
    \/ <>[](r \in parked)
    \/ <>[](r \notin broken /\ out[r] = OutRoom)
    \/ <>[](forwarder[r] = "deregister" /\ Len(cmds) = CmdRoom)

(* "Stream broke before Deregister was called - clean up": the end of a     *)
(* stream removes the entry of that stream and no other's.  It removes      *)
(* whatever entry the address has by then.                                  *)
CleansUpItsOwn ==
  [][\A r \in Consumers :
       forwarder[r] = "remove" /\ forwarder'[r] = "done" => entry[addr[r]] \in {r, Nobody}]_vars
=============================================================================
