-------------------------------- MODULE Feed --------------------------------
(***************************************************************************)
(* The bus as the network endpoints meet it: the loop of Bus::dispatch()   *)
(* (src/components/bus/bus.rs) with its two bounded channels, and the      *)
(* ChannelConsumer (src/components/endpoint/network/connection.rs) through *)
(* which it hands messages to a remote client.  A consumer is named by its *)
(* registration; messages are only counted, since which consumer the       *)
(* router picks is Router.tla's subject: here it may be any available one, *)
(* or none.  While the loop awaits consume() it does nothing else.         *)
(***************************************************************************)
EXTENDS Naturals, Sequences

CONSTANTS Consumers,   \* the registrations that may be made
          NoConsumer,  \* is being handed a message when none is
          BusRoom,     \* capacity of the bus' channel of messages
          CmdRoom,     \* capacity of its channel of commands
          QueueRoom    \* capacity of a ChannelConsumer's channel

ASSUME FeedAssumption == /\ NoConsumer \notin Consumers
                         /\ {BusRoom, CmdRoom, QueueRoom} \subseteq Nat \ {0}

VARIABLES inbox,     \* the messages in the bus' channel
          cmds,      \* the commands in the other
          applied,   \* the consumers whose registration was answered
          members,   \* those in the registry
          handing,   \* the one whose consume() the loop awaits
          queue,     \* the messages in each consumer's channel
          open,      \* the consumers whose receiver exists
          lost       \* history: those that lost a message handed to them

channels == <<queue, open, lost>>
feed     == <<inbox, cmds, applied, members, handing, channels>>

FeedInit == /\ inbox = 0 /\ cmds = <<>>
            /\ applied = {} /\ members = {} /\ handing = NoConsumer
            /\ queue = [r \in Consumers |-> 0] /\ open = {} /\ lost = {}

\* send().await of a command or of a message: waits for room.
Command(kind, r) == /\ Len(cmds) < CmdRoom
                    /\ cmds' = Append(cmds, [kind |-> kind, id |-> r])
                    /\ UNCHANGED <<inbox, applied, members, handing, channels>>

Publish == /\ inbox < BusRoom
           /\ inbox' = inbox + 1
           /\ UNCHANGED <<cmds, applied, members, handing, channels>>

\* mpsc::channel(256), and its receiver dropped with what is in it
OpenRx(r) == /\ open' = open \cup {r}
             /\ UNCHANGED <<queue, lost>>

DropRx(S) == /\ open' = open \ S
             /\ queue' = [r \in Consumers |-> IF r \in S THEN 0 ELSE queue[r]]
             /\ lost' = lost \cup {r \in S : queue[r] > 0}

\* recv(): a message, or the end once the sender is dropped too
TakeFrom(r) == /\ queue[r] > 0
               /\ queue' = [queue EXCEPT ![r] = @ - 1]

SenderDropped(r) == r \in applied /\ r \notin members

-----------------------------------------------------------------------------
(* the steps of the loop *)

ApplyCmd == /\ handing = NoConsumer /\ cmds # <<>>
            /\ cmds' = Tail(cmds)
            /\ LET cmd == Head(cmds)
               IN \/ /\ cmd.kind = "register"
                     /\ members' = members \cup {cmd.id}
                     /\ applied' = applied \cup {cmd.id}
                  \/ /\ cmd.kind = "deregister"
                     /\ members' = members \ {cmd.id}
                     /\ UNCHANGED applied
            /\ UNCHANGED <<inbox, handing, channels>>

\* available() sees the receiver, validate() always agrees; or nobody wants
\* the message and the bus keeps it.
Route == /\ handing = NoConsumer /\ inbox > 0
         /\ inbox' = inbox - 1
         /\ handing' \in (members \cap open) \cup {NoConsumer}
         /\ UNCHANGED <<cmds, applied, members, channels>>

\* consume(): waits for room; the result of the send is ignored.
Consume == /\ handing # NoConsumer
           /\ \/ /\ handing \in open /\ queue[handing] < QueueRoom
                 /\ queue' = [queue EXCEPT ![handing] = @ + 1]
                 /\ UNCHANGED lost
              \/ /\ handing \notin open
                 /\ lost' = lost \cup {handing}
                 /\ UNCHANGED queue
           /\ handing' = NoConsumer
           /\ UNCHANGED <<inbox, cmds, applied, members, open>>

Loop == ApplyCmd \/ Route \/ Consume

FeedTypeOK ==
  /\ inbox \in 0..BusRoom /\ Len(cmds) <= CmdRoom
  /\ \A i \in DOMAIN cmds : cmds[i].id \in Consumers
  /\ members \subseteq applied /\ applied \subseteq Consumers
  /\ handing \in members \cup {NoConsumer}
  /\ queue \in [Consumers -> 0..QueueRoom]
  /\ open \subseteq Consumers /\ lost \subseteq Consumers
  /\ \A r \in Consumers \ open : queue[r] = 0
=============================================================================
