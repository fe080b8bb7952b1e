------------------------------ MODULE WsProofs ------------------------------
(***************************************************************************)
(* Nothing is lost on the way to a WebSocket client that stays, for any    *)
(* number of connections, any roles and any capacities.  A message is lost *)
(* when a receiver or a channel goes with something in it or about to come *)
(* in; the invariant says of each that ends that its client has gone, or   *)
(* that the bus has let go of the client for good: it registers once.      *)
(***************************************************************************)
EXTENDS WsEndpoint, SequenceTheorems, TLAPS

CmdType == [kind : {"register", "deregister"}, id : Consumers]
TaskStates == {"first", "command", "reply", "inbound", "publish", "deregister", "done"}
RelayStates == {"none", "receive", "send", "done"}
WriterStates == {"none", "receive", "write", "done"}

Shapes == /\ cmds \in Seq(CmdType)
          /\ applied \subseteq Consumers /\ members \subseteq applied
          /\ handing \in members \cup {NoConsumer}
          /\ task \in [Consumers -> TaskStates]
          /\ relay \in [Consumers -> RelayStates]
          /\ writer \in [Consumers -> WriterStates]

NotYet == {"first", "command"}

RegistersOnce ==
  /\ \A r \in applied : task[r] \notin NotYet
  /\ \A i \in DOMAIN cmds : cmds[i].kind = "register" =>
       /\ cmds[i].id \notin applied
       /\ task[cmds[i].id] \notin NotYet
       /\ \A j \in DOMAIN cmds :
            cmds[j].kind = "register" /\ cmds[j].id = cmds[i].id => i = j

NoRelayYet   == \A r \in Consumers : task[r] \in NotYet \cup {"reply"} => relay[r] = "none"
WriterEnded  == \A r \in Consumers : writer[r] = "done" => r \in gone \/ relay[r] = "done"
RelayEnded   == \A r \in Consumers : relay[r] = "done" => r \in gone \/ r \in applied \ members
ReceiverHeld == /\ \A r \in members : r \in open \cup gone
                /\ \A r \in Consumers : task[r] = "command" => r \in open \cup gone
                /\ \A i \in DOMAIN cmds :
                     cmds[i].kind = "register" => cmds[i].id \in open \cup gone

LossInv == /\ Shapes /\ RegistersOnce /\ NoRelayYet
           /\ WriterEnded /\ RelayEnded /\ ReceiverHeld /\ NothingLost

(* The commands of a channel, and what is left of it when the first is taken. *)
LEMMA CommandIds ==
  ASSUME NEW s \in Seq(CmdType)
  PROVE  \A i \in DOMAIN s : s[i].id \in Consumers
<1> SUFFICES ASSUME NEW i \in DOMAIN s PROVE s[i].id \in Consumers
  OBVIOUS
<1>1. s[i] \in CmdType
  OBVIOUS
<1>. QED BY <1>1 DEF CmdType

\* Taking the first command off keeps the others and their order.
LEMMA FirstCommand ==
  ASSUME NEW s \in Seq(CmdType), s # <<>>
  PROVE  /\ Head(s) \in CmdType /\ Head(s) = s[1] /\ 1 \in DOMAIN s
         /\ Tail(s) \in Seq(CmdType)
         /\ \A i \in DOMAIN Tail(s) : /\ i + 1 \in DOMAIN s /\ i + 1 # 1
                                      /\ Tail(s)[i] = s[i + 1]
         /\ \A i, j \in DOMAIN Tail(s) : i + 1 = j + 1 => i = j
  OBVIOUS

\* A command put at the end leaves the others where they are.
LEMMA LastCommand ==
  ASSUME NEW s \in Seq(CmdType), NEW c \in CmdType
  PROVE  /\ Append(s, c) \in Seq(CmdType)
         /\ \A i \in DOMAIN Append(s, c) :
              \/ i \in DOMAIN s /\ Append(s, c)[i] = s[i]
              \/ i = Len(s) + 1 /\ Append(s, c)[i] = c
         /\ Len(s) + 1 \notin DOMAIN s
  OBVIOUS

(* The loop of the bus loses only what it hands to a receiver that is gone. *)
LEMMA LoopKeeps ==
  ASSUME LossInv, Bus
  PROVE  LossInv'
<1> USE DEF LossInv
<1>0. UNCHANGED <<role, task, frames, relay, bytes, writer, gone>>
  BY DEF Bus, inward, outward
<1>1. CASE ApplyCmd
  <2>1. /\ cmds # <<>> /\ cmds' = Tail(cmds) /\ handing = NoConsumer
        /\ UNCHANGED <<handing, queue, open, lost>>
    BY <1>1 DEF ApplyCmd, channels
  <2> DEFINE r == Head(cmds).id
  <2>2. /\ Head(cmds) \in CmdType /\ Head(cmds) = cmds[1] /\ 1 \in DOMAIN cmds
        /\ cmds' \in Seq(CmdType) /\ r \in Consumers
        /\ \A i \in DOMAIN cmds' : i + 1 \in DOMAIN cmds /\ i + 1 # 1 /\ cmds'[i] = cmds[i + 1]
        /\ \A i, j \in DOMAIN cmds' : i + 1 = j + 1 => i = j
    BY <2>1, FirstCommand DEF Shapes, CmdType
  <2>3. CASE Head(cmds).kind = "register"
    <3>1. members' = members \cup {r} /\ applied' = applied \cup {r}
      BY <1>1, <2>3 DEF ApplyCmd
    <3>2. r \notin applied /\ task[r] \notin NotYet /\ r \in open \cup gone
      BY <2>2, <2>3 DEF RegistersOnce, ReceiverHeld
    <3>3. \A i \in DOMAIN cmds' : cmds'[i].kind = "register" => cmds'[i].id # r
      BY <2>2, <2>3 DEF RegistersOnce
    <3>4. RegistersOnce'
      BY <1>0, <2>2, <3>1, <3>2, <3>3 DEF RegistersOnce
    <3>5. Shapes' /\ RelayEnded' /\ ReceiverHeld'
      BY <1>0, <2>1, <2>2, <3>1, <3>2 DEF Shapes, RelayEnded, ReceiverHeld
    <3>. QED BY <1>0, <2>1, <3>4, <3>5 DEF NoRelayYet, WriterEnded, NothingLost
  <2>4. CASE Head(cmds).kind = "deregister"
    <3>1. members' = members \ {r} /\ applied' = applied
      BY <1>1, <2>4 DEF ApplyCmd
    <3>2. RegistersOnce'
      BY <1>0, <2>2, <3>1 DEF RegistersOnce
    <3>3. Shapes' /\ RelayEnded' /\ ReceiverHeld'
      BY <1>0, <2>1, <2>2, <3>1 DEF Shapes, RelayEnded, ReceiverHeld
    <3>. QED BY <1>0, <2>1, <3>2, <3>3 DEF NoRelayYet, WriterEnded, NothingLost
  <2>. QED BY <2>2, <2>3, <2>4 DEF CmdType
<1>2. CASE Route
  <2>1. /\ UNCHANGED <<cmds, applied, members, open, lost>>
        /\ handing' \in members \cup {NoConsumer}
    BY <1>2 DEF Route, channels
  <2>. QED BY <1>0, <2>1 DEF Shapes, RegistersOnce, NoRelayYet, WriterEnded, RelayEnded,
             ReceiverHeld, NothingLost
<1>3. CASE Consume
  <2>1. /\ UNCHANGED <<cmds, applied, members, open>> /\ handing' = NoConsumer
        /\ handing \in members
        /\ \/ lost' = lost
           \/ handing \notin open /\ lost' = lost \cup {handing}
    BY <1>3 DEF Consume, Shapes
  <2>2. handing \notin open => handing \in gone
    BY <2>1 DEF ReceiverHeld
  <2>. QED BY <1>0, <2>1, <2>2 DEF Shapes, RegistersOnce, NoRelayYet, WriterEnded,
             RelayEnded, ReceiverHeld, NothingLost
<1>. QED BY <1>1, <1>2, <1>3 DEF Bus, Loop

(* The task of a connection sends one registration, after it made the       *)
(* receiver.                                                                *)
LEMMA ConnectionKeeps ==
  ASSUME LossInv, NEW r \in Consumers,
         FirstFrame(r) \/ Reject(r) \/ Connection(r)
  PROVE  LossInv'
<1> USE DEF LossInv
<1>1. CASE SendRegister(r) \/ Deregister(r)
  <2>1. PICK kind \in {"register", "deregister"} :
          /\ cmds' = Append(cmds, [kind |-> kind, id |-> r])
          /\ kind = "register" => task[r] = "command"
          /\ task' = [task EXCEPT ![r] = IF kind = "register" THEN "reply" ELSE "done"]
    BY <1>1 DEF SendRegister, Deregister, Command, Become
  <2>2. UNCHANGED <<applied, members, handing, open, lost, relay, writer, gone>>
    BY <1>1 DEF SendRegister, Deregister, Command, channels, outward
  <2>3. task[r] # "first"
    BY <1>1 DEF SendRegister, Deregister
  <2> DEFINE c == [kind |-> kind, id |-> r]
  <2>4. /\ cmds' \in Seq(CmdType) /\ Len(cmds) + 1 \notin DOMAIN cmds
        /\ \A i \in DOMAIN cmds' : \/ i \in DOMAIN cmds /\ cmds'[i] = cmds[i]
                                   \/ i = Len(cmds) + 1 /\ cmds'[i] = c
    <3>1. c \in CmdType
      BY DEF CmdType
    <3>. QED BY <2>1, <3>1, LastCommand DEF Shapes
  <2>5. kind = "register" => /\ r \notin applied /\ r \in open \cup gone
                             /\ \A i \in DOMAIN cmds : cmds[i].kind = "register" => cmds[i].id # r
    BY <2>1 DEF RegistersOnce, ReceiverHeld, NotYet
  <2>6. \A i \in DOMAIN cmds : cmds[i].id \in Consumers
    BY CommandIds DEF Shapes
  <2>7. RegistersOnce'
    <3>1. \A x \in Consumers : task[x] \notin NotYet => task'[x] \notin NotYet
      BY <2>1 DEF Shapes, NotYet
    <3>2. task'[r] \notin NotYet
      BY <2>1 DEF Shapes, NotYet
    <3>3. \A x \in applied : task'[x] \notin NotYet
      BY <3>1 DEF RegistersOnce, Shapes
    <3>4. ASSUME NEW i \in DOMAIN cmds', cmds'[i].kind = "register"
          PROVE  /\ cmds'[i].id \notin applied /\ task'[cmds'[i].id] \notin NotYet
                 /\ \A j \in DOMAIN cmds' :
                      cmds'[j].kind = "register" /\ cmds'[j].id = cmds'[i].id => i = j
      <4>1. CASE i \in DOMAIN cmds /\ cmds'[i] = cmds[i]
        BY <2>4, <2>5, <2>6, <3>1, <3>4, <4>1 DEF RegistersOnce
      <4>2. CASE i = Len(cmds) + 1 /\ cmds'[i] = c
        BY <2>4, <2>5, <3>2, <3>4, <4>2
      <4>. QED BY <2>4, <4>1, <4>2
    <3>. QED BY <2>2, <3>3, <3>4 DEF RegistersOnce
  <2>8. Shapes'
    BY <2>1, <2>2, <2>4 DEF Shapes, TaskStates
  <2>9. NoRelayYet' /\ ReceiverHeld'
    BY <1>1, <2>1, <2>2, <2>3, <2>4, <2>5 DEF NoRelayYet, ReceiverHeld, NotYet, Shapes
  <2>. QED BY <2>2, <2>7, <2>8, <2>9 DEF WriterEnded, RelayEnded, NothingLost
<1>2. CASE FirstFrame(r)
  <2>1. /\ UNCHANGED <<cmds, applied, members, handing, lost, relay, writer, gone>>
        /\ open \subseteq open' /\ task[r] = "first"
        /\ \E to \in {"command", "inbound"} :
             /\ task' = [task EXCEPT ![r] = to]
             /\ to = "command" => r \in open'
    BY <1>2 DEF FirstFrame, OpenRx, channels, Become, outward
  <2>2. RegistersOnce'
    <3>1. \A x \in Consumers : task[x] \notin NotYet => task'[x] \notin NotYet
      BY <2>1 DEF Shapes, NotYet
    <3>2. \A i \in DOMAIN cmds : cmds[i].id \in Consumers
      BY CommandIds DEF Shapes
    <3>. QED BY <2>1, <3>1, <3>2 DEF RegistersOnce, Shapes
  <2>. QED BY <2>1, <2>2 DEF Shapes, TaskStates, NoRelayYet, NotYet, WriterEnded, RelayEnded,
             ReceiverHeld, NothingLost
<1>3. CASE Reject(r) \/ ReadFrame(r) \/ MakeSend(r) \/ InboundEnd(r)
  <2>1. /\ UNCHANGED <<cmds, applied, members, handing, open, lost, relay, writer, gone>>
        /\ \E to \in {"inbound", "publish", "deregister", "done"} :
             task' = [task EXCEPT ![r] = to]
    BY <1>3 DEF Reject, ReadFrame, MakeSend, InboundEnd, Publish, feed, channels, outward, Become
  <2>2. RegistersOnce'
    <3>1. \A x \in Consumers : task[x] \notin NotYet => task'[x] \notin NotYet
      BY <2>1 DEF Shapes, NotYet
    <3>2. \A i \in DOMAIN cmds : cmds[i].id \in Consumers
      BY CommandIds DEF Shapes
    <3>. QED BY <2>1, <3>1, <3>2 DEF RegistersOnce, Shapes
  <2>. QED BY <2>1, <2>2 DEF Shapes, TaskStates, NoRelayYet, NotYet, WriterEnded, RelayEnded,
             ReceiverHeld, NothingLost
<1>4. CASE GetReply(r)
  <2>1. /\ UNCHANGED <<cmds, applied, members, handing, open, lost, gone>>
        /\ task' = [task EXCEPT ![r] = "inbound"]
        /\ relay' = [relay EXCEPT ![r] = "receive"]
        /\ writer' = [writer EXCEPT ![r] = "receive"]
    BY <1>4 DEF GetReply, feed, channels, Become, Set
  <2>2. RegistersOnce'
    <3>1. \A x \in Consumers : task[x] \notin NotYet => task'[x] \notin NotYet
      BY <2>1 DEF Shapes, NotYet
    <3>2. \A i \in DOMAIN cmds : cmds[i].id \in Consumers
      BY CommandIds DEF Shapes
    <3>. QED BY <2>1, <3>1, <3>2 DEF RegistersOnce, Shapes
  <2>3. Shapes'
    BY <2>1 DEF Shapes, TaskStates, RelayStates, WriterStates
  <2>. QED BY <1>4, <2>1, <2>2, <2>3 DEF GetReply, Shapes, NoRelayYet, NotYet, WriterEnded,
             RelayEnded, ReceiverHeld, NothingLost
<1>. QED BY <1>1, <1>2, <1>3, <1>4 DEF Connection
(* The two outgoing tasks end for a reason, and lose nothing by it. *)
LEMMA OutgoingKeeps ==
  ASSUME LossInv, NEW r \in Consumers, Outgoing(r) \/ Writing(r) \/ Write(r)
  PROVE  LossInv'
<1> USE DEF LossInv
<1>0. UNCHANGED <<cmds, applied, members, handing, task, gone>>
  BY DEF Outgoing, Receive, ReceiveEnd, Relay, RelayFails,
         Writing, Take, TakeEnd, WriteFails, Write, feed, inward
<1>1. RegistersOnce'
  BY <1>0 DEF RegistersOnce
<1>2. CASE Receive(r) \/ Relay(r)
  <2>1. /\ UNCHANGED <<open, lost, writer>>
        /\ relay[r] # "none" /\ relay[r] # "done"
        /\ \E to \in {"send", "receive"} : relay' = Set(relay, r, to)
    BY <1>2 DEF Receive, Relay, feed, channels
  <2>. QED BY <1>0, <1>1, <2>1 DEF Shapes, RelayStates, NoRelayYet, WriterEnded, RelayEnded,
             ReceiverHeld, NothingLost, Set
<1>3. CASE ReceiveEnd(r)
  <2>1. /\ UNCHANGED writer
        /\ lost' = lost \cup {x \in {r} : queue[x] > 0} /\ queue[r] = 0
        /\ open' = open \ {r}
        /\ relay[r] = "receive" /\ relay' = Set(relay, r, "done")
        /\ r \in applied \ members
    BY <1>3 DEF ReceiveEnd, DropRx, SenderDropped
  <2>2. lost' = lost
    BY <2>1
  <2>3. /\ task[r] # "command"
        /\ \A i \in DOMAIN cmds : cmds[i].kind = "register" => cmds[i].id # r
    BY <2>1 DEF RegistersOnce, NotYet
  <2>4. ReceiverHeld'
    BY <1>0, <2>1, <2>3 DEF ReceiverHeld
  <2>. QED BY <1>0, <1>1, <2>1, <2>2, <2>4 DEF Shapes, RelayStates, NoRelayYet, WriterEnded,
             RelayEnded, NothingLost, Set
<1>4. CASE RelayFails(r)
  <2>1. /\ UNCHANGED writer
        /\ lost' = lost \cup {r} /\ open' = open \ {r}
        /\ writer[r] = "done"
        /\ relay[r] = "send" /\ relay' = Set(relay, r, "done")
    BY <1>4 DEF RelayFails
  <2>2. r \in gone
    BY <2>1 DEF WriterEnded
  <2>. QED BY <1>0, <1>1, <2>1, <2>2 DEF Shapes, RelayStates, NoRelayYet, WriterEnded,
             RelayEnded, ReceiverHeld, NothingLost, Set
<1>5. CASE Take(r) \/ TakeEnd(r) \/ WriteFails(r) \/ Write(r)
  <2>1. /\ UNCHANGED <<open, relay>>
        /\ \E to \in WriterStates : /\ writer' = Set(writer, r, to)
                                    /\ to = "done" => relay[r] = "done" \/ r \in gone
        /\ lost' = lost \/ (r \in gone /\ lost' = lost \cup {r})
    BY <1>5 DEF Take, TakeEnd, WriteFails, Write, WriterStates, feed, channels
  <2>. QED BY <1>0, <1>1, <2>1 DEF Shapes, NoRelayYet, WriterEnded, RelayEnded,
             ReceiverHeld, NothingLost, Set
<1>. QED BY <1>2, <1>3, <1>4, <1>5 DEF Outgoing, Writing

-----------------------------------------------------------------------------
(* Nothing is registered, running or lost at the start. *)
LEMMA LossInit ==
  ASSUME Init
  PROVE  LossInv
  BY DEF Init, FeedInit, LossInv, Shapes, RegistersOnce, NoRelayYet, WriterEnded, RelayEnded,
         ReceiverHeld, NothingLost, TaskStates, RelayStates, WriterStates

\* No step loses a message of a client that stays.
LEMMA LossStep ==
  ASSUME LossInv, [Next]_vars
  PROVE  LossInv'
<1>1. ASSUME NEW r \in Consumers, ClientSends(r) \/ Disconnect(r)
      PROVE  LossInv'
  <2>1. /\ UNCHANGED <<feed, task, relay, writer>>
        /\ gone \subseteq gone'
    BY <1>1 DEF ClientSends, Disconnect, inward, outward
  <2>. QED BY <2>1 DEF LossInv, feed, channels, Shapes, RegistersOnce, NoRelayYet, WriterEnded,
             RelayEnded, ReceiverHeld, NothingLost
<1>2. CASE Others \/ UNCHANGED vars
  BY <1>2 DEF Others, Publish, vars, feed, channels, inward, outward, LossInv, Shapes,
     RegistersOnce, NoRelayYet, WriterEnded, RelayEnded, ReceiverHeld, NothingLost
<1>3. ASSUME NEW r \in Consumers,
             Connection(r) \/ Reject(r) \/ Outgoing(r) \/ Writing(r) \/ Client(r)
      PROVE  LossInv'
  BY <1>1, <1>3, ConnectionKeeps, OutgoingKeeps DEF Client
<1>. QED BY <1>2, <1>3, LoopKeeps DEF Next

(* Whatever the loop, the tasks and the clients do in whatever order: only  *)
(* a client that is gone ever loses what the bus handed to it.              *)
THEOREM NothingLostTheorem == Spec => []NothingLost
<1>1. LossInv => NothingLost
  BY DEF LossInv
<1>. QED BY <1>1, LossInit, LossStep, PTL DEF Spec
-----------------------------------------------------------------------------
(* The types, which say where the receiver of each client is.               *)
WaiterHolds == \A r \in Consumers : task[r] \in {"command", "reply"} => r \in open
RelayHolds  == \A r \in Consumers :
                 relay[r] \in {"receive", "send"} <=>
                   r \in open /\ task[r] \notin {"command", "reply"}
BytesTyped  == /\ bytes \in [Consumers -> 0..BytesRoom]
               /\ \A r \in Consumers : writer[r] = "done" => bytes[r] = 0
Peers       == frames \subseteq Consumers /\ gone \subseteq Consumers

TypeInv == FeedTypeOK /\ WaiterHolds /\ RelayHolds /\ BytesTyped /\ Peers

\* Every step of the bus keeps the types of what it works on.
LEMMA FeedTyped ==
  ASSUME LossInv, FeedTypeOK, [Next]_vars
  PROVE  FeedTypeOK'
<1>0. /\ {BusRoom, CmdRoom, QueueRoom} \subseteq Nat \ {0}
      /\ inbox \in Nat /\ cmds \in Seq(CmdType) /\ 0 \in 0..QueueRoom
  BY FeedAssumption DEF FeedTypeOK, LossInv, Shapes
<1>1. ASSUME NEW r \in Consumers, SendRegister(r) \/ Deregister(r)
      PROVE  FeedTypeOK'
  <2>1. PICK kind \in {"register", "deregister"} : Command(kind, r)
    BY <1>1 DEF SendRegister, Deregister
  <2> DEFINE c == [kind |-> kind, id |-> r]
  <2>2. cmds' = Append(cmds, c) /\ c \in CmdType /\ Len(cmds) < CmdRoom
    BY <2>1 DEF Command, CmdType
  <2>3. cmds' \in Seq(CmdType) /\ Len(cmds') = Len(cmds) + 1 /\ Len(cmds) \in Nat
    BY <1>0, <2>2
  <2>4. Len(cmds') <= CmdRoom /\ \A i \in DOMAIN cmds' : cmds'[i].id \in Consumers
    BY <1>0, <2>2, <2>3, CommandIds
  <2>. QED BY <2>1, <2>4 DEF Command, channels, FeedTypeOK
<1>2. ASSUME NEW r \in Consumers, MakeSend(r) \/ FirstFrame(r)
      PROVE  FeedTypeOK'
  BY <1>0, <1>2 DEF MakeSend, FirstFrame, OpenRx, Publish, channels, FeedTypeOK
<1>3. ASSUME NEW r \in Consumers, Outgoing(r)
      PROVE  FeedTypeOK'
  <2>1. UNCHANGED <<inbox, cmds, applied, members, handing>>
    BY <1>3 DEF Outgoing, Receive, ReceiveEnd, Relay, RelayFails, feed
  <2>2. queue' \in [Consumers -> 0..QueueRoom] /\ lost' \subseteq Consumers
    BY <1>0, <1>3 DEF Outgoing, Receive, ReceiveEnd, Relay, RelayFails, TakeFrom, DropRx,
       feed, channels, FeedTypeOK
  <2>3. open' \subseteq open /\ \A x \in Consumers \ open' : queue'[x] = 0
    BY <1>0, <1>3 DEF Outgoing, Receive, ReceiveEnd, Relay, RelayFails, TakeFrom, DropRx,
       feed, channels, FeedTypeOK
  <2>. QED BY <2>1, <2>2, <2>3 DEF FeedTypeOK
<1>4. CASE ApplyCmd
  <2>1. /\ Head(cmds) \in CmdType /\ Tail(cmds) \in Seq(CmdType) /\ cmds' = Tail(cmds)
        /\ Len(cmds') <= Len(cmds)
    BY <1>0, <1>4, FirstCommand DEF ApplyCmd
  <2>2. Len(cmds') <= CmdRoom /\ \A i \in DOMAIN cmds' : cmds'[i].id \in Consumers
    BY <1>0, <2>1, CommandIds DEF FeedTypeOK
  <2>3. Head(cmds).id \in Consumers
    BY <2>1 DEF CmdType
  <2>. QED BY <1>4, <2>2, <2>3 DEF ApplyCmd, channels, FeedTypeOK
<1>5. CASE Route \/ Consume
  BY <1>0, <1>5 DEF Route, Consume, channels, FeedTypeOK
<1>6. CASE Others
  BY <1>0, <1>6 DEF Others, Publish, channels, FeedTypeOK
<1>7. ASSUME NEW r \in Consumers, WriteFails(r)
      PROVE  FeedTypeOK'
  BY <1>7 DEF WriteFails, FeedTypeOK
<1>8. CASE UNCHANGED feed
  BY <1>8 DEF feed, channels, FeedTypeOK
<1>. QED BY <1>1, <1>2, <1>3, <1>4, <1>5, <1>6, <1>7, <1>8
     DEF Next, Connection, Outgoing, Writing, Client, Bus, Loop, vars,
         GetReply, ReadFrame, InboundEnd, Reject, Take, TakeEnd, Write, ClientSends, Disconnect

\* The channel of bytes and what clients do.
LEMMA BytesStep ==
  ASSUME BytesTyped, Peers, [Next]_vars, Shapes
  PROVE  BytesTyped' /\ Peers'
<1>0. BytesRoom \in Nat \ {0}
  BY BytesRoomAssumption
<1>1. ASSUME NEW r \in Consumers, Outgoing(r) \/ Writing(r) \/ Write(r) \/ GetReply(r)
      PROVE  BytesTyped'
  <2>1. \/ bytes' = bytes
        \/ bytes[r] > 0 /\ bytes' = [bytes EXCEPT ![r] = @ - 1]
        \/ bytes[r] < BytesRoom /\ writer[r] # "done" /\ bytes' = [bytes EXCEPT ![r] = @ + 1]
        \/ bytes' = [bytes EXCEPT ![r] = 0]
    BY <1>1 DEF Outgoing, Receive, ReceiveEnd, Relay, RelayFails, Writing, Take, TakeEnd,
       WriteFails, Write, GetReply
  <2>2. bytes' \in [Consumers -> 0..BytesRoom]
    BY <1>0, <2>1 DEF BytesTyped
  <2>3. \/ writer' = writer /\ writer[r] # "done"
        \/ writer' = writer /\ bytes' = bytes
        \/ \E to \in WriterStates :
             writer' = Set(writer, r, to) /\ (to = "done" => bytes'[r] = 0)
    BY <1>0, <1>1 DEF Outgoing, Receive, ReceiveEnd, Relay, RelayFails, Writing, Take, TakeEnd,
       WriteFails, Write, GetReply, WriterStates, BytesTyped
  <2>4. \A x \in Consumers : writer'[x] = "done" => bytes'[x] = 0
    BY <1>0, <2>1, <2>3 DEF Set, BytesTyped, Shapes
  <2>. QED BY <2>2, <2>4 DEF BytesTyped
<1>2. ASSUME UNCHANGED <<bytes, writer>> PROVE BytesTyped'
  BY <1>2 DEF BytesTyped
<1>3. BytesTyped'
  BY <1>1, <1>2 DEF Next, Connection, SendRegister, ReadFrame, MakeSend, InboundEnd, Deregister,
     Reject, Client, FirstFrame, ClientSends, Disconnect, Bus, Others, outward, vars
<1>4. Peers'
  BY DEF Peers, Next, Connection, SendRegister, GetReply, ReadFrame, MakeSend, InboundEnd,
     Deregister, Reject, Outgoing, Receive, ReceiveEnd, Relay, RelayFails, Writing, Take,
     TakeEnd, WriteFails, Client, FirstFrame, Write, ClientSends, Disconnect, Bus, Others,
     inward, vars
<1>. QED BY <1>3, <1>4

(* A receiver is with the task of the connection until the bus has replied, *)
(* then with the relay, and is dropped when that ends.                      *)
LEMMA HoldersStep ==
  ASSUME LossInv, FeedTypeOK, WaiterHolds, RelayHolds, [Next]_vars
  PROVE  WaiterHolds' /\ RelayHolds'
<1> USE DEF WaiterHolds, RelayHolds, LossInv, Shapes, NoRelayYet, NotYet
<1>1. ASSUME NEW r \in Consumers, FirstFrame(r) PROVE WaiterHolds' /\ RelayHolds'
  BY <1>1 DEF FirstFrame, OpenRx, channels, Become, outward
<1>2. ASSUME NEW r \in Consumers, Connection(r) \/ Reject(r) PROVE WaiterHolds' /\ RelayHolds'
  BY <1>2 DEF Connection, SendRegister, GetReply, ReadFrame, MakeSend, InboundEnd, Deregister,
     Reject, Command, Publish, feed, channels, Become, Set, outward
<1>3. ASSUME NEW r \in Consumers, Outgoing(r) PROVE WaiterHolds' /\ RelayHolds'
  BY <1>3 DEF Outgoing, Receive, ReceiveEnd, Relay, RelayFails, DropRx, feed, channels, Set, inward
<1>4. ASSUME UNCHANGED <<task, relay, open>> PROVE WaiterHolds' /\ RelayHolds'
  BY <1>4
<1>. QED BY <1>1, <1>2, <1>3, <1>4
     DEF Next, Writing, Take, TakeEnd, WriteFails, Client, Write, ClientSends, Disconnect,
         Bus, Loop, ApplyCmd, Route, Consume, Others, Publish, feed, channels, inward, outward, vars

(* The types of handle_connection(): a relay runs exactly as long as its    *)
(* receiver exists, a writer that ended leaves no bytes, and no channel is  *)
(* over its capacity.                                                       *)
THEOREM WsTypeInvariant == Spec => []TypeOK
<1>1. Init => LossInv /\ TypeInv
  <2> SUFFICES ASSUME Init PROVE LossInv /\ TypeInv
    OBVIOUS
  <2>1. TypeInv
    BY FeedAssumption, BytesRoomAssumption DEF Init, FeedInit, TypeInv, FeedTypeOK,
       WaiterHolds, RelayHolds, BytesTyped, Peers
  <2>. QED BY <2>1, LossInit
<1>2. LossInv /\ TypeInv /\ [Next]_vars => LossInv' /\ TypeInv'
  BY LossStep, FeedTyped, BytesStep, HoldersStep DEF TypeInv, LossInv
<1>3. LossInv /\ TypeInv => TypeOK
  BY DEF LossInv, Shapes, TaskStates, TypeInv, WaiterHolds, RelayHolds, BytesTyped, Peers, TypeOK
<1>. QED BY <1>1, <1>2, <1>3, PTL DEF Spec
=============================================================================
