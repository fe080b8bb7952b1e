----------------------------- MODULE WsEndpoint -----------------------------
(***************************************************************************)
(* handle_connection() of src/components/endpoint/network/ws.rs: a task    *)
(* per WebSocket connection that registers it from its first frame, takes  *)
(* in its messages, and deregisters it when the connection ends.  For a    *)
(* consumer two tasks more carry messages out, one from the channel of the *)
(* bus to a channel of bytes, one from there to the socket.  They learn of *)
(* a lost connection only when they write to it, the first task only when  *)
(* it reads.                                                               *)
(***************************************************************************)
EXTENDS Feed

CONSTANTS Roles,     \* the roles clients declare: connection -> set of roles
          BytesRoom  \* capacity of the channel of bytes

ASSUME RolesAssumption == Roles \subseteq [Consumers -> SUBSET {"consumer", "producer"}]
ASSUME BytesRoomAssumption == BytesRoom \in Nat \ {0}

VARIABLES role,    \* what each connection declares in its first frame
          task,    \* where its handle_connection() stands
          relay,   \* its task from the bus to the bytes
          bytes,   \* the messages in its channel of bytes
          writer,  \* its task from the bytes to the socket
          frames,  \* the connections with a message to be read from the socket
          gone     \* the connections the client closed or lost

inward  == <<task, frames>>
outward == <<relay, bytes, writer>>
vars    == <<feed, role, inward, outward, gone>>

Become(r, state) == task' = [task EXCEPT ![r] = state]
Set(f, r, state) == [f EXCEPT ![r] = state]

Init == /\ FeedInit
        /\ role \in Roles
        /\ task = [r \in Consumers |-> "first"]
        /\ relay = [r \in Consumers |-> "none"]
        /\ writer = [r \in Consumers |-> "none"]
        /\ bytes = [r \in Consumers |-> 0]
        /\ frames = {} /\ gone = {}

-----------------------------------------------------------------------------
(* handle_connection() *)

FirstFrame(r) == /\ task[r] = "first" /\ r \notin gone
                 /\ IF "consumer" \in role[r]
                    THEN OpenRx(r) /\ Become(r, "command")
                    ELSE UNCHANGED channels /\ Become(r, "inbound")
                 /\ UNCHANGED <<inbox, cmds, applied, members, handing,
                                role, frames, outward, gone>>

\* Closed before the first frame, or one that cannot be decoded.
Reject(r) == /\ task[r] = "first"
             /\ Become(r, "done")
             /\ UNCHANGED <<feed, role, frames, outward, gone>>

SendRegister(r) == /\ task[r] = "command"
                   /\ Command("register", r)
                   /\ Become(r, "reply")
                   /\ UNCHANGED <<role, frames, outward, gone>>

GetReply(r) == /\ task[r] = "reply" /\ r \in applied
               /\ relay' = Set(relay, r, "receive")
               /\ writer' = Set(writer, r, "receive")
               /\ Become(r, "inbound")
               /\ UNCHANGED <<feed, role, frames, bytes, gone>>

\* A message is sent on to the bus if the client declared itself a producer.
ReadFrame(r) == /\ task[r] = "inbound" /\ r \in frames
                /\ frames' = frames \ {r}
                /\ Become(r, IF "producer" \in role[r] THEN "publish" ELSE "inbound")
                /\ UNCHANGED <<feed, role, outward, gone>>

MakeSend(r) == /\ task[r] = "publish"
               /\ Publish
               /\ Become(r, "inbound")
               /\ UNCHANGED <<role, frames, outward, gone>>

Bug_LeaveQuietly(r) == /\ task[r] = "inbound" /\ r \in gone /\ r \notin frames
                       /\ Become(r, "done")
                       /\ UNCHANGED <<feed, role, frames, outward, gone>>

InboundEnd(r) == /\ task[r] = "inbound" /\ r \in gone /\ r \notin frames
                 /\ Become(r, IF "consumer" \in role[r] THEN "deregister" ELSE "done")
                 /\ UNCHANGED <<feed, role, frames, outward, gone>>

Deregister(r) == /\ task[r] = "deregister"
                 /\ Command("deregister", r)
                 /\ Become(r, "done")
                 /\ UNCHANGED <<role, frames, outward, gone>>

(* the two tasks of a consumer; the second one's end closes the bytes, at   *)
(* which the first one ends and drops the channel of the bus                *)

Receive(r) == /\ relay[r] = "receive"
              /\ TakeFrom(r)
              /\ relay' = Set(relay, r, "send")
              /\ UNCHANGED <<inbox, cmds, applied, members, handing, open, lost,
                             role, inward, bytes, writer, gone>>

ReceiveEnd(r) == /\ relay[r] = "receive" /\ SenderDropped(r) /\ queue[r] = 0
                 /\ DropRx({r})
                 /\ relay' = Set(relay, r, "done")
                 /\ UNCHANGED <<inbox, cmds, applied, members, handing,
                                role, inward, bytes, writer, gone>>

Bug_RelayTries(r) ==
  /\ relay[r] = "send" /\ writer[r] # "done"
  /\ relay' = Set(relay, r, "receive")
  /\ bytes' = [bytes EXCEPT ![r] = IF @ < BytesRoom THEN @ + 1 ELSE @]
  /\ lost' = IF bytes[r] < BytesRoom THEN lost ELSE lost \cup {r}
  /\ UNCHANGED <<inbox, cmds, applied, members, handing, queue, open,
                 role, inward, writer, gone>>

Relay(r) == /\ relay[r] = "send" /\ writer[r] # "done" /\ bytes[r] < BytesRoom
            /\ bytes' = [bytes EXCEPT ![r] = @ + 1]
            /\ relay' = Set(relay, r, "receive")
            /\ UNCHANGED <<feed, role, inward, writer, gone>>

Bug_RelayFailsOpen(r) == /\ relay[r] = "send" /\ writer[r] = "done"
                         /\ relay' = Set(relay, r, "done")
                         /\ lost' = lost \cup {r}
                         /\ UNCHANGED <<inbox, cmds, applied, members, handing, queue, open,
                                        role, inward, bytes, writer, gone>>

RelayFails(r) == /\ relay[r] = "send" /\ writer[r] = "done"
                 /\ relay' = Set(relay, r, "done")
                 /\ open' = open \ {r} /\ queue' = [queue EXCEPT ![r] = 0]
                 /\ lost' = lost \cup {r}
                 /\ UNCHANGED <<inbox, cmds, applied, members, handing,
                                role, inward, bytes, writer, gone>>

Take(r) == /\ writer[r] = "receive" /\ bytes[r] > 0
           /\ bytes' = [bytes EXCEPT ![r] = @ - 1]
           /\ writer' = Set(writer, r, "write")
           /\ UNCHANGED <<feed, role, inward, relay, gone>>

TakeEnd(r) == /\ writer[r] = "receive" /\ bytes[r] = 0 /\ relay[r] = "done"
              /\ writer' = Set(writer, r, "done")
              /\ UNCHANGED <<feed, role, inward, relay, bytes, gone>>

WriteFails(r) == /\ writer[r] = "write" /\ r \in gone
                 /\ writer' = Set(writer, r, "done")
                 /\ bytes' = [bytes EXCEPT ![r] = 0]
                 /\ lost' = lost \cup {r}
                 /\ UNCHANGED <<inbox, cmds, applied, members, handing, queue, open,
                                role, inward, relay, gone>>

(* the clients: one that reads lets a write complete; what is written to    *)
(* one that is gone may vanish before a write fails                         *)

Write(r) == /\ writer[r] = "write"
            /\ writer' = Set(writer, r, "receive")
            /\ UNCHANGED <<feed, role, inward, relay, bytes, gone>>

ClientSends(r) == /\ r \notin gone /\ r \notin frames /\ task[r] \notin {"first", "done"}
                  /\ frames' = frames \cup {r}
                  /\ UNCHANGED <<feed, role, task, outward, gone>>

Disconnect(r) == /\ r \notin gone
                 /\ gone' = gone \cup {r}
                 /\ UNCHANGED <<feed, role, inward, outward>>

Connection(r) == \/ SendRegister(r) \/ GetReply(r) \/ ReadFrame(r) \/ MakeSend(r)
                 \/ InboundEnd(r) \/ Deregister(r)
Outgoing(r) == Receive(r) \/ ReceiveEnd(r) \/ Relay(r) \/ RelayFails(r)
Writing(r) == Take(r) \/ TakeEnd(r) \/ WriteFails(r)
Client(r) == FirstFrame(r) \/ Write(r) \/ ClientSends(r) \/ Disconnect(r)
Bus == Loop /\ UNCHANGED <<role, inward, outward, gone>>
Others == Publish /\ UNCHANGED <<role, inward, outward, gone>>

Next == \/ \E r \in Consumers :
             Connection(r) \/ Reject(r) \/ Outgoing(r) \/ Writing(r) \/ Client(r)
        \/ Bus \/ Others

Spec == Init /\ [][Next]_vars

(* The tasks of the server and the loop of the bus run on; tokio serves     *)
(* those who wait for room in a channel in turn, and its select! picks at   *)
(* random, so that commands are not put off for ever.  Nothing is asked of  *)
(* clients.                                                                 *)
Fairness == /\ WF_vars(Bus) /\ SF_vars(Bus /\ cmds' # cmds)
            /\ \A r \in Consumers :
                 SF_vars(Connection(r)) /\ WF_vars(Outgoing(r)) /\ WF_vars(Writing(r))

LiveSpec == Spec /\ Fairness

-----------------------------------------------------------------------------
TypeOK ==
  /\ FeedTypeOK
  /\ bytes \in [Consumers -> 0..BytesRoom]
  /\ frames \subseteq Consumers /\ gone \subseteq Consumers
  /\ \A r \in Consumers :
       /\ task[r] \in {"first", "command", "reply", "inbound", "publish", "deregister", "done"}
       /\ (relay[r] \in {"receive", "send"}) = (r \in open /\ task[r] \notin {"command", "reply"})
       /\ writer[r] = "done" => bytes[r] = 0

(* What the bus hands to a client is written to its socket, through two     *)
(* tasks and two channels of which any may be full, unless the client goes. *)
NothingLost == lost \subseteq gone

Unread(r) == r \notin gone /\ writer[r] = "write"

(* "Implicit deregister on any disconnect": a client that disconnects       *)
(* leaves the registry for good, whatever its connection was doing - also   *)
(* when its task waits to send to a full bus, whose loop waits for the same *)
(* client.  Only another client, connected and not reading, can prevent it. *)
GoneIsDeregistered ==
  \A r \in Consumers :
    \/ []<>(r \notin gone)
    \/ <>[](r \notin members /\ handing # r /\ task[r] \in {"first", "done"})
    \/ \E s \in Consumers : <>[]Unread(s)
=============================================================================
