----------------------------- MODULE GrpcProofs -----------------------------
(***************************************************************************)
(* A stream keeps its place on the bus, for any number of clients,         *)
(* connections and calls and any capacities.  The invariant says of each   *)
(* way a registration may leave the bus - a command under way, a forwarder *)
(* about to send one, the registry without it - that its own client asked  *)
(* for it or gave up.  And nothing the bus hands to a client that streams  *)
(* and stays is lost: the second invariant follows its receiver.           *)
(***************************************************************************)
EXTENDS GrpcEndpoint, SequenceTheorems, TLAPS

CmdType == [kind : {"register", "deregister"}, id : Consumers]
RegisterStates == {"new", "command", "reply", "insert", "done", "cancelled"}
DeregisterStates == {"none", "command", "done", "cancelled"}
ForwarderStates == {"none", "receive", "send", "deregister", "remove", "done"}

Shapes == /\ cmds \in Seq(CmdType)
          /\ applied \subseteq Consumers /\ members \subseteq Consumers
          /\ register \in [Consumers -> RegisterStates]
          /\ forwarder \in [Consumers -> ForwarderStates]
          /\ deregister \in [Consumers -> DeregisterStates]
          /\ addr \in [Consumers -> Addresses]
          /\ entry \in [Addresses -> Consumers \cup {Nobody}]
          /\ parked \subseteq Consumers

Ended(r) == r \in broken \/ deregister[r] # "none"

CommandAskedFor == \A i \in DOMAIN cmds :
                     cmds[i].kind = "deregister" => Ended(cmds[i].id)
ForwarderAtEnd  == \A r \in Consumers :
                     forwarder[r] \in {"deregister", "remove", "done"} => Ended(r)
LeaverEnded     == \A r \in applied \ members : Ended(r)
TakerApplied    == \A r \in Consumers : forwarder[r] # "none" => r \in applied
ParkedApplied   == parked \subseteq applied
OpenApplied     == \A r \in Consumers :
                     /\ register[r] = "new" => r \notin open
                     /\ register[r] = "insert" /\ r \in open => r \in applied

PlaceInv == /\ Shapes
            /\ CommandAskedFor /\ ForwarderAtEnd /\ LeaverEnded
            /\ TakerApplied /\ ParkedApplied /\ OpenApplied

\* Every command names a registration.
LEMMA CommandIds ==
  ASSUME NEW s \in Seq(CmdType)
  PROVE  \A i \in DOMAIN s : s[i].id \in Consumers
<1> SUFFICES ASSUME NEW i \in DOMAIN s PROVE s[i].id \in Consumers
  OBVIOUS
<1>1. s[i] \in CmdType
  OBVIOUS
<1>. QED BY <1>1 DEF CmdType

(* Whatever is on the command channel was put there by a step that had a    *)
(* reason to: a command at the end keeps the invariant of the channel.      *)
LEMMA CommandKeeps ==
  ASSUME PlaceInv, NEW r \in Consumers, NEW kind \in {"register", "deregister"},
         Command(kind, r), kind = "deregister" => Ended(r)
  PROVE  /\ cmds' \in Seq(CmdType)
         /\ \A i \in DOMAIN cmds' : cmds'[i].kind = "deregister" => Ended(cmds'[i].id)
         /\ UNCHANGED <<inbox, applied, members, handing, queue, open, lost>>
<1> DEFINE c == [kind |-> kind, id |-> r]
<1>1. c \in CmdType /\ cmds \in Seq(CmdType) /\ cmds' = Append(cmds, c)
  BY DEF PlaceInv, Shapes, Command, CmdType
<1>2. /\ cmds' \in Seq(CmdType)
      /\ DOMAIN cmds' = 1..(Len(cmds) + 1) /\ DOMAIN cmds = 1..Len(cmds)
      /\ \A i \in 1..Len(cmds) : cmds'[i] = cmds[i]
      /\ cmds'[Len(cmds) + 1] = c
      /\ Len(cmds) \in Nat
  BY <1>1
<1>3. ASSUME NEW i \in DOMAIN cmds', cmds'[i].kind = "deregister"
      PROVE  Ended(cmds'[i].id)
  <2>1. CASE i \in 1..Len(cmds)
    BY <1>2, <1>3, <2>1 DEF PlaceInv, CommandAskedFor
  <2>2. CASE i = Len(cmds) + 1
    BY <1>2, <1>3, <2>2
  <2>. QED BY <1>2, <2>1, <2>2
<1>4. UNCHANGED <<inbox, applied, members, handing, queue, open, lost>>
  BY DEF Command, channels
<1>. QED BY <1>2, <1>3, <1>4

(* The loop of the bus removes only whom a command names. *)
LEMMA LoopKeeps ==
  ASSUME PlaceInv, Bus
  PROVE  PlaceInv'
<1>1. UNCHANGED <<entry, parked, handles, register, addr, role, deregister,
                  forwarder, inbound, out, broken>>
  BY DEF Bus, service, calls, streams
<1>2. \A r : Ended(r)' = Ended(r)
  BY <1>1 DEF Ended
<1>3. CASE ApplyCmd
  <2>1. /\ cmds \in Seq(CmdType) /\ cmds # <<>> /\ cmds' = Tail(cmds)
        /\ UNCHANGED <<open>>
    BY <1>3 DEF PlaceInv, Shapes, ApplyCmd, channels
  <2>2. /\ Head(cmds) \in CmdType /\ Head(cmds) = cmds[1] /\ 1 \in DOMAIN cmds
        /\ cmds' \in Seq(CmdType)
        /\ \A i \in DOMAIN cmds' : i + 1 \in DOMAIN cmds /\ cmds'[i] = cmds[i + 1]
    BY <2>1
  <2>3. CASE Head(cmds).kind = "register"
    <3>1. members' = members \cup {Head(cmds).id} /\ applied' = applied \cup {Head(cmds).id}
      BY <1>3, <2>3 DEF ApplyCmd
    <3>2. Head(cmds).id \in Consumers
      BY <2>2 DEF CmdType
    <3>. QED BY <1>1, <1>2, <2>1, <2>2, <3>1, <3>2
         DEF PlaceInv, Shapes, CommandAskedFor, ForwarderAtEnd, LeaverEnded, TakerApplied,
             ParkedApplied, OpenApplied
  <2>4. CASE Head(cmds).kind = "deregister"
    <3>1. members' = members \ {Head(cmds).id} /\ applied' = applied
      BY <1>3, <2>4 DEF ApplyCmd
    <3>2. Ended(Head(cmds).id)
      BY <2>2, <2>4 DEF PlaceInv, CommandAskedFor
    <3>. QED BY <1>1, <1>2, <2>1, <2>2, <3>1, <3>2
         DEF PlaceInv, Shapes, CommandAskedFor, ForwarderAtEnd, LeaverEnded, TakerApplied,
             ParkedApplied, OpenApplied
  <2>. QED BY <2>2, <2>3, <2>4 DEF CmdType
<1>4. CASE Route \/ Consume
  <2>1. UNCHANGED <<cmds, applied, members, open>>
    BY <1>4 DEF Route, Consume, channels
  <2>. QED BY <1>1, <1>2, <2>1
       DEF PlaceInv, Shapes, CommandAskedFor, ForwarderAtEnd, LeaverEnded, TakerApplied,
           ParkedApplied, OpenApplied
<1>. QED BY <1>3, <1>4 DEF Bus, Loop
(* Register: what waits in an entry was answered by the bus before. *)
LEMMA RegisterKeeps ==
  ASSUME PlaceInv, NEW r \in Consumers,
         CallRegister(r) \/ SendRegister(r) \/ GetReply(r) \/ Insert(r) \/ CancelRegister(r)
  PROVE  PlaceInv'
<1> USE DEF PlaceInv
<1>0. /\ UNCHANGED <<addr, deregister, forwarder, broken>>
      /\ \A x : Ended(x)' = Ended(x)
  BY DEF CallRegister, SendRegister, GetReply, Insert, CancelRegister, streams, Ended
<1>1. CASE CallRegister(r)
  <2>1. /\ UNCHANGED <<cmds, applied, members, entry, parked>>
        /\ open' \subseteq open \cup {r}
        /\ register' = Set(register, r, register'[r])
        /\ register'[r] \in {"command", "insert"}
        /\ register'[r] = "insert" => open' = open
        /\ register[r] = "new"
    BY <1>1 DEF CallRegister, OpenRx, channels, service, Set, Shapes
  <2>. QED BY <1>0, <2>1 DEF Shapes, CommandAskedFor, ForwarderAtEnd, LeaverEnded,
             TakerApplied, ParkedApplied, OpenApplied, Set, RegisterStates
<1>2. CASE SendRegister(r)
  <2>1. /\ cmds' \in Seq(CmdType)
        /\ \A i \in DOMAIN cmds' : cmds'[i].kind = "deregister" => Ended(cmds'[i].id)
        /\ UNCHANGED <<applied, members, open>>
    BY <1>2, CommandKeeps DEF SendRegister
  <2>2. UNCHANGED <<entry, parked>> /\ register' = Set(register, r, "reply")
    BY <1>2 DEF SendRegister, service
  <2>. QED BY <1>0, <2>1, <2>2 DEF Shapes, CommandAskedFor, ForwarderAtEnd, LeaverEnded,
             TakerApplied, ParkedApplied, OpenApplied, Set, RegisterStates
<1>3. CASE GetReply(r)
  <2>1. /\ UNCHANGED <<cmds, applied, members, open, entry, parked>>
        /\ register' = Set(register, r, "insert") /\ r \in applied
    BY <1>3 DEF GetReply, feed, channels, service
  <2>. QED BY <1>0, <2>1 DEF Shapes, CommandAskedFor, ForwarderAtEnd, LeaverEnded,
             TakerApplied, ParkedApplied, OpenApplied, Set, RegisterStates
<1>4. CASE Insert(r)
  <2>1. /\ UNCHANGED <<cmds, applied, members>>
        /\ open' \subseteq open
        /\ entry' = Set(entry, addr[r], r)
        /\ parked' \subseteq parked \cup (open \cap {r})
        /\ register' = Set(register, r, "done") /\ register[r] = "insert"
    BY <1>4 DEF Insert, DropRx
  <2>. QED BY <1>0, <2>1 DEF Shapes, CommandAskedFor, ForwarderAtEnd, LeaverEnded,
             TakerApplied, ParkedApplied, OpenApplied, Set, RegisterStates
<1>5. CASE CancelRegister(r)
  <2>1. /\ UNCHANGED <<cmds, applied, members, entry, parked>>
        /\ open' \subseteq open /\ register' = Set(register, r, "cancelled")
    BY <1>5 DEF CancelRegister, DropRx, service
  <2>. QED BY <1>0, <2>1 DEF Shapes, CommandAskedFor, ForwarderAtEnd, LeaverEnded,
             TakerApplied, ParkedApplied, OpenApplied, Set, RegisterStates
<1>. QED BY <1>1, <1>2, <1>3, <1>4, <1>5

(* The forwarder: it ends because the bus let go of its client, or because  *)
(* the client gave up, and deregisters no other.                            *)
LEMMA ForwarderKeeps ==
  ASSUME PlaceInv, NEW r \in Consumers, Forwarder(r)
  PROVE  PlaceInv'
<1> USE DEF PlaceInv
<1>0. /\ UNCHANGED <<register, addr, deregister, broken>>
      /\ \A x : Ended(x)' = Ended(x)
  BY DEF Forwarder, Receive, ReceiveEnd, Forward, ForwarderDeregister, ForwarderRemove,
         calls, Ended
<1>1. CASE Receive(r) \/ Forward(r)
  <2>1. /\ UNCHANGED <<cmds, applied, members, open, entry, parked>>
        /\ forwarder[r] # "none"
        /\ \E to \in {"receive", "send", "deregister"} :
             /\ forwarder' = Set(forwarder, r, to)
             /\ to = "deregister" => r \in broken
    BY <1>1 DEF Receive, Forward, service
  <2>. QED BY <1>0, <2>1 DEF Shapes, CommandAskedFor, ForwarderAtEnd, LeaverEnded,
             TakerApplied, ParkedApplied, OpenApplied, Set, ForwarderStates, Ended
<1>2. CASE ReceiveEnd(r)
  <2>1. /\ UNCHANGED <<cmds, applied, members, open, entry, parked>>
        /\ forwarder[r] # "none" /\ forwarder' = Set(forwarder, r, "deregister")
        /\ r \in applied \ members
    BY <1>2 DEF ReceiveEnd, AtEnd, SenderDropped, feed, channels, service
  <2>2. Ended(r)
    BY <2>1 DEF LeaverEnded
  <2>. QED BY <1>0, <2>1, <2>2 DEF Shapes, CommandAskedFor, ForwarderAtEnd, LeaverEnded,
             TakerApplied, ParkedApplied, OpenApplied, Set, ForwarderStates
<1>3. CASE ForwarderDeregister(r)
  <2>1. Command("deregister", r) /\ Ended(r)
    BY <1>3 DEF ForwarderDeregister, OwnId, ForwarderAtEnd
  <2>2. /\ cmds' \in Seq(CmdType)
        /\ \A i \in DOMAIN cmds' : cmds'[i].kind = "deregister" => Ended(cmds'[i].id)
        /\ UNCHANGED <<applied, members, open>>
    BY <2>1, CommandKeeps
  <2>3. /\ UNCHANGED <<entry, parked>>
        /\ forwarder[r] = "deregister" /\ forwarder' = Set(forwarder, r, "remove")
    BY <1>3 DEF ForwarderDeregister, service
  <2>. QED BY <1>0, <2>1, <2>2, <2>3 DEF Shapes, CommandAskedFor, ForwarderAtEnd,
             LeaverEnded, TakerApplied, ParkedApplied, OpenApplied, Set, ForwarderStates
<1>4. CASE ForwarderRemove(r)
  <2>1. /\ UNCHANGED <<cmds, applied, members>>
        /\ open' \subseteq open /\ parked' \subseteq parked
        /\ entry' = Set(entry, addr[r], Nobody)
        /\ forwarder[r] = "remove" /\ forwarder' = Set(forwarder, r, "done")
    BY <1>4 DEF ForwarderRemove, RemoveEntry, DropRx
  <2>. QED BY <1>0, <2>1 DEF Shapes, CommandAskedFor, ForwarderAtEnd, LeaverEnded,
             TakerApplied, ParkedApplied, OpenApplied, Set, ForwarderStates
<1>. QED BY <1>1, <1>2, <1>3, <1>4 DEF Forwarder

(* Streams, their inbound task, and the client's calls and whims. *)
LEMMA ClientKeeps ==
  ASSUME PlaceInv, NEW r \in Consumers,
         \/ Inbound(r) \/ SendDeregister(r)
         \/ CallDeregister(r) \/ CancelDeregister(r)
         \/ Read(r) \/ InboundEnd(r) \/ ClientReads(r) \/ Break(r)
  PROVE  PlaceInv'
<1> USE DEF PlaceInv
<1>0. UNCHANGED <<register, addr, forwarder>>
  BY DEF Inbound, MakeSend, InboundRemove, SendDeregister, CallDeregister,
         CancelDeregister, Read, InboundEnd, ClientReads, Break, calls, streams
<1>1. CASE \/ MakeSend(r) \/ InboundRemove(r) \/ CallDeregister(r) \/ CancelDeregister(r)
           \/ Read(r) \/ InboundEnd(r) \/ ClientReads(r) \/ Break(r)
  <2>1. /\ UNCHANGED <<cmds, applied, members>>
        /\ open' \subseteq open /\ parked' \subseteq parked
    BY <1>1 DEF MakeSend, InboundRemove, CallDeregister, CancelDeregister, Read, InboundEnd,
       ClientReads, Break, RemoveEntry, DropRx, Publish, feed, channels, service
  <2>2. entry' = entry \/ entry' = Set(entry, addr[r], Nobody)
    BY <1>1 DEF MakeSend, InboundRemove, CallDeregister, CancelDeregister, Read, InboundEnd,
       ClientReads, Break, RemoveEntry, service
  <2>3. /\ broken \subseteq broken'
        /\ \/ deregister' = deregister
           \/ deregister' = Set(deregister, r, "command")
           \/ deregister' = Set(deregister, r, "done")
           \/ deregister' = Set(deregister, r, "cancelled")
    BY <1>1 DEF MakeSend, InboundRemove, CallDeregister, CancelDeregister, Read, InboundEnd,
       ClientReads, Break, calls, streams
  <2>4. \A x \in Consumers : Ended(x) => Ended(x)'
    BY <2>3 DEF Ended, Set, Shapes
  <2>5. \A i \in DOMAIN cmds : cmds[i].id \in Consumers
    BY CommandIds DEF Shapes
  <2>6. Shapes'
    BY <1>0, <2>1, <2>2, <2>3 DEF Shapes, Set, DeregisterStates, Nobody
  <2>. QED BY <1>0, <2>1, <2>4, <2>5, <2>6 DEF Shapes, CommandAskedFor, ForwarderAtEnd,
             LeaverEnded, TakerApplied, ParkedApplied, OpenApplied
<1>2. CASE SendDeregister(r)
  <2>1. /\ Command("deregister", r) /\ Ended(r)
        /\ deregister' = Set(deregister, r, "done")
        /\ UNCHANGED <<entry, parked, broken>>
    BY <1>2 DEF SendDeregister, Ended, service, streams
  <2>2. /\ cmds' \in Seq(CmdType)
        /\ \A i \in DOMAIN cmds' : cmds'[i].kind = "deregister" => Ended(cmds'[i].id)
        /\ UNCHANGED <<applied, members, open>>
    BY <2>1, CommandKeeps
  <2>3. \A x \in Consumers : Ended(x) => Ended(x)'
    BY <2>1 DEF Ended, Set, Shapes
  <2>4. \A i \in DOMAIN cmds' : cmds'[i].id \in Consumers
    BY <2>2, CommandIds
  <2>. QED BY <1>0, <2>1, <2>2, <2>3, <2>4 DEF Shapes, CommandAskedFor, ForwarderAtEnd,
             LeaverEnded, TakerApplied, ParkedApplied, OpenApplied, Set, DeregisterStates
<1>. QED BY <1>1, <1>2 DEF Inbound

\* A stream takes a receiver whose registration was applied.
LEMMA StreamKeeps ==
  ASSUME PlaceInv, NEW a \in Addresses, Stream(a)
  PROVE  PlaceInv'
<1> USE DEF PlaceInv
<1>1. /\ UNCHANGED <<cmds, applied, members, open, entry, register, addr, deregister, broken>>
      /\ parked' \subseteq parked
      /\ \/ forwarder' = forwarder
         \/ \E r \in parked : forwarder' = Set(forwarder, r, "receive")
      /\ \A x : Ended(x)' = Ended(x)
  BY DEF Stream, feed, channels, calls, Ended
<1>. QED BY <1>1 DEF Shapes, CommandAskedFor, ForwarderAtEnd, LeaverEnded,
           TakerApplied, ParkedApplied, OpenApplied, Set, ForwarderStates

-----------------------------------------------------------------------------
\* At first there is nothing that could cost a place.
LEMMA PlaceInit ==
  ASSUME Init
  PROVE  PlaceInv
  BY DEF Init, FeedInit, PlaceInv, Shapes, CommandAskedFor, ForwarderAtEnd, LeaverEnded,
         TakerApplied, ParkedApplied, OpenApplied, RegisterStates, ForwarderStates,
         DeregisterStates, Nobody

\* No step takes the place of a client that did not ask for it.
LEMMA PlaceStep ==
  ASSUME PlaceInv, [Next]_vars
  PROVE  PlaceInv'
<1>1. CASE Next
  <2>1. ASSUME NEW r \in Consumers, Server(r) \/ Forwarder(r) \/ Inbound(r) \/ Client(r)
        PROVE  PlaceInv'
    BY <2>1, RegisterKeeps, ForwarderKeeps, ClientKeeps DEF Server, Client
  <2>2. ASSUME NEW a \in Addresses, Stream(a)
        PROVE  PlaceInv'
    BY <2>2, StreamKeeps
  <2>3. CASE Others
    BY <2>3 DEF Others, Publish, channels, service, calls, streams, PlaceInv, Shapes,
       CommandAskedFor, ForwarderAtEnd, LeaverEnded, TakerApplied, ParkedApplied,
       OpenApplied, Ended
  <2>. QED BY <1>1, <2>1, <2>2, <2>3, LoopKeeps DEF Next
<1>2. CASE UNCHANGED vars
  BY <1>2 DEF vars, feed, channels, service, calls, streams, PlaceInv, Shapes,
     CommandAskedFor, ForwarderAtEnd, LeaverEnded, TakerApplied, ParkedApplied,
     OpenApplied, Ended
<1>. QED BY <1>1, <1>2

(* Whatever other calls, streams and connections do: a client that streams, *)
(* has not given up and has not called Deregister stays in the registry of  *)
(* the bus, and no command to remove it is under way.                       *)
THEOREM StreamKeepsPlaceTheorem == Spec => []StreamKeepsPlace
<1>1. PlaceInv => StreamKeepsPlace
  BY DEF PlaceInv, StreamKeepsPlace, Shapes, CommandAskedFor, LeaverEnded, TakerApplied,
         Ended
<1>. QED BY <1>1, PlaceInit, PlaceStep, PTL DEF Spec
-----------------------------------------------------------------------------
(* What the bus hands over: where receivers are, and why they go.           *)
EntryKnown   == \A a \in Addresses : entry[a] # Nobody =>
                  addr[entry[a]] = a /\ register[entry[a]] = "done"
InEntry      == parked \cup handles \subseteq {entry[a] : a \in Addresses}
ParkedHeld   == \A r \in parked : r \in open /\ forwarder[r] = "none"
TakerDone    == \A r \in Consumers : forwarder[r] # "none" => register[r] = "done"
RunningHolds == \A r \in Consumers :
                  forwarder[r] \in {"receive", "send", "deregister", "remove"} => r \in open

NotYet == {"new", "command"}
RegistersOnce ==
  /\ \A r \in applied : register[r] \notin NotYet
  /\ \A i \in DOMAIN cmds : cmds[i].kind = "register" =>
       /\ cmds[i].id \notin applied
       /\ register[cmds[i].id] \notin NotYet
       /\ \A j \in DOMAIN cmds :
            cmds[j].kind = "register" /\ cmds[j].id = cmds[i].id => i = j

EndsEmpty == \A r \in Consumers \ broken :
               forwarder[r] \in {"deregister", "remove", "done"} =>
                 r \in applied \ members /\ queue[r] = 0
LostShut  == \A r \in lost : register[r] # "new" /\ (forwarder[r] = "none" => r \notin open)

HandInv == /\ FeedTypeOK /\ handles \subseteq Consumers
           /\ EntryKnown /\ InEntry /\ ParkedHeld /\ TakerDone /\ RunningHolds
           /\ RegistersOnce /\ EndsEmpty /\ LostShut /\ NothingLost

(* A client registers once: nothing but the command itself may break that.  *)
LEMMA OnceKeeps ==
  ASSUME HandInv, PlaceInv, UNCHANGED <<cmds, applied>>,
         \A x \in Consumers : register[x] \notin NotYet => register'[x] \notin NotYet
  PROVE  RegistersOnce'
<1>1. \A i \in DOMAIN cmds : cmds[i].id \in Consumers
  BY CommandIds DEF PlaceInv, Shapes
<1>. QED BY <1>1 DEF HandInv, PlaceInv, Shapes, RegistersOnce

(* A command under way keeps the order, and a second one for a registration *)
(* is none to register it.                                                  *)
LEMMA OnceSent ==
  ASSUME HandInv, PlaceInv, NEW r \in Consumers, NEW kind \in {"register", "deregister"},
         Command(kind, r),
         kind = "register" => register[r] = "command" /\ register'[r] = "reply",
         \A x \in Consumers : register[x] \notin NotYet => register'[x] \notin NotYet
  PROVE  RegistersOnce' /\ Len(cmds') <= CmdRoom /\ \A i \in DOMAIN cmds' : cmds'[i].id \in Consumers
<1> DEFINE c == [kind |-> kind, id |-> r]
<1>1. c \in CmdType /\ cmds \in Seq(CmdType) /\ cmds' = Append(cmds, c)
      /\ Len(cmds) < CmdRoom /\ applied' = applied
  BY DEF PlaceInv, Shapes, Command, CmdType
<1>2. /\ cmds' \in Seq(CmdType) /\ Len(cmds') = Len(cmds) + 1
      /\ Len(cmds) \in Nat /\ Len(cmds) + 1 \notin DOMAIN cmds
      /\ \A i \in DOMAIN cmds' : \/ i \in DOMAIN cmds /\ cmds'[i] = cmds[i]
                                 \/ i = Len(cmds) + 1 /\ cmds'[i] = c
  BY <1>1
<1>3. \A i \in DOMAIN cmds : cmds[i].id \in Consumers
  BY <1>1, CommandIds
<1>4. kind = "register" =>
        /\ r \notin applied
        /\ \A i \in DOMAIN cmds : cmds[i].kind = "register" => cmds[i].id # r
  BY DEF HandInv, RegistersOnce, NotYet
<1>5. ASSUME NEW i \in DOMAIN cmds', cmds'[i].kind = "register"
      PROVE  /\ cmds'[i].id \notin applied /\ register'[cmds'[i].id] \notin NotYet
             /\ \A j \in DOMAIN cmds' :
                  cmds'[j].kind = "register" /\ cmds'[j].id = cmds'[i].id => i = j
  <2>1. CASE i \in DOMAIN cmds /\ cmds'[i] = cmds[i]
    BY <1>2, <1>3, <1>4, <1>5, <2>1 DEF HandInv, RegistersOnce
  <2>2. CASE i = Len(cmds) + 1 /\ cmds'[i] = c
    BY <1>2, <1>4, <1>5, <2>2 DEF NotYet
  <2>. QED BY <1>2, <2>1, <2>2
<1>6. RegistersOnce'
  BY <1>1, <1>5 DEF HandInv, PlaceInv, Shapes, RegistersOnce
<1>7. Len(cmds') <= CmdRoom
  BY <1>1, <1>2, FeedAssumption
<1>. QED BY <1>2, <1>6, <1>7, CommandIds

\* What goes when receivers are dropped.
LEMMA DropFacts ==
  ASSUME HandInv, NEW S \in SUBSET Consumers, DropRx(S)
  PROVE  /\ open' = open \ S
         /\ queue' \in [Consumers -> 0..QueueRoom]
         /\ \A x \in Consumers \ open' : queue'[x] = 0
         /\ \A x \in Consumers : queue[x] = 0 => queue'[x] = 0
         /\ lost \subseteq lost'
         /\ \A x \in lost' \ lost : x \in S /\ queue[x] # 0
         /\ lost' \subseteq Consumers
<1>1. 0 \in 0..QueueRoom
  BY FeedAssumption
<1>. QED BY <1>1 DEF HandInv, FeedTypeOK, DropRx

(* The loop of the bus: it hands over only to members, and of those only    *)
(* such as never streamed or gave up are without a receiver.                *)
LEMMA LoopHands ==
  ASSUME HandInv, PlaceInv, Bus
  PROVE  HandInv'
<1> USE DEF HandInv
<1>0. UNCHANGED <<entry, parked, handles, register, addr, role, deregister,
                  forwarder, inbound, out, broken>>
  BY DEF Bus, service, calls, streams
<1>1. CASE ApplyCmd
  <2>1. /\ cmds \in Seq(CmdType) /\ cmds # <<>> /\ cmds' = Tail(cmds)
        /\ handing = NoConsumer
        /\ UNCHANGED <<inbox, handing, queue, open, lost>>
    BY <1>1 DEF PlaceInv, Shapes, ApplyCmd, channels
  <2> DEFINE r == Head(cmds).id
  <2>2. /\ Head(cmds) \in CmdType /\ Head(cmds) = cmds[1] /\ 1 \in DOMAIN cmds
        /\ \A i \in DOMAIN cmds' : i + 1 \in DOMAIN cmds /\ i + 1 # 1 /\ cmds'[i] = cmds[i + 1]
        /\ \A i, j \in DOMAIN cmds' : i + 1 = j + 1 => i = j
        /\ Len(cmds') <= Len(cmds)
    BY <2>1
  <2>3. r \in Consumers /\ Len(cmds') <= CmdRoom
    BY <2>1, <2>2, FeedAssumption DEF CmdType, FeedTypeOK
  <2>4. CASE Head(cmds).kind = "register"
    <3>1. members' = members \cup {r} /\ applied' = applied \cup {r}
      BY <1>1, <2>4 DEF ApplyCmd
    <3>2. r \notin applied /\ register[r] \notin NotYet
      BY <2>2, <2>4 DEF RegistersOnce
    <3>3. \A i \in DOMAIN cmds' : cmds'[i].kind = "register" => cmds'[i].id # r
      BY <2>2, <2>4 DEF RegistersOnce
    <3>4. RegistersOnce'
      BY <1>0, <2>2, <3>1, <3>2, <3>3 DEF RegistersOnce
    <3>5. FeedTypeOK'
      BY <1>0, <2>1, <2>2, <2>3, <3>1 DEF FeedTypeOK
    <3>6. EndsEmpty'
      BY <1>0, <2>1, <3>1, <3>2 DEF EndsEmpty
    <3>. QED BY <1>0, <2>1, <3>4, <3>5, <3>6 DEF EntryKnown, InEntry, ParkedHeld, TakerDone,
               RunningHolds, LostShut, NothingLost
  <2>5. CASE Head(cmds).kind = "deregister"
    <3>1. members' = members \ {r} /\ applied' = applied
      BY <1>1, <2>5 DEF ApplyCmd
    <3>2. RegistersOnce'
      BY <1>0, <2>2, <3>1 DEF RegistersOnce
    <3>3. FeedTypeOK'
      BY <1>0, <2>1, <2>2, <2>3, <3>1 DEF FeedTypeOK
    <3>. QED BY <1>0, <2>1, <3>1, <3>2, <3>3 DEF EntryKnown, InEntry, ParkedHeld, TakerDone,
               RunningHolds, LostShut, NothingLost, EndsEmpty
  <2>. QED BY <2>2, <2>4, <2>5 DEF CmdType
<1>2. CASE Route
  <2>1. /\ UNCHANGED <<cmds, applied, members, queue, open, lost>>
        /\ handing' \in members \cup {NoConsumer}
        /\ inbox' \in 0..BusRoom
    BY <1>2, FeedAssumption DEF Route, channels, FeedTypeOK
  <2>. QED BY <1>0, <2>1 DEF FeedTypeOK, EntryKnown, InEntry, ParkedHeld, TakerDone,
             RunningHolds, RegistersOnce, EndsEmpty, LostShut, NothingLost
<1>3. CASE Consume
  <2> DEFINE r == handing
  <2>1. /\ UNCHANGED <<inbox, cmds, applied, members, open>> /\ handing' = NoConsumer
        /\ r \in members /\ r \in Consumers /\ r \in applied
        /\ \/ r \in open /\ queue[r] < QueueRoom /\ lost' = lost
              /\ queue' = [queue EXCEPT ![r] = @ + 1]
           \/ r \notin open /\ lost' = lost \cup {r} /\ queue' = queue
    BY <1>3 DEF Consume, FeedTypeOK
  <2>2. FeedTypeOK'
    BY <2>1, FeedAssumption DEF FeedTypeOK
  <2>3. EndsEmpty'
    BY <1>0, <2>1 DEF EndsEmpty, FeedTypeOK
  <2>4. LostShut'
    BY <1>0, <2>1 DEF LostShut, RegistersOnce, NotYet
  <2>5. NothingLost'
    <3>1. r \notin open /\ forwarder[r] # "none" /\ r \notin broken => FALSE
      BY <2>1 DEF RunningHolds, EndsEmpty, PlaceInv, Shapes, ForwarderStates
    <3>. QED BY <1>0, <2>1, <3>1 DEF NothingLost
  <2>. QED BY <1>0, <2>1, <2>2, <2>3, <2>4, <2>5 DEF EntryKnown, InEntry, ParkedHeld,
             TakerDone, RunningHolds, RegistersOnce
<1>. QED BY <1>1, <1>2, <1>3 DEF Bus, Loop
\* A receiver waits only in the entry of a call that was answered.
LEMMA ParkedDone ==
  ASSUME HandInv, PlaceInv
  PROVE  \A x \in parked : x \in Consumers /\ register[x] = "done"
<1> SUFFICES ASSUME NEW x \in parked PROVE x \in Consumers /\ register[x] = "done"
  OBVIOUS
<1>1. x \in Consumers /\ x # Nobody
  BY FeedAssumption DEF PlaceInv, Shapes, Nobody
<1>2. PICK a \in Addresses : entry[a] = x
  BY DEF HandInv, InEntry
<1>. QED BY <1>1, <1>2 DEF HandInv, EntryKnown

(* Register: the receiver is made first, and goes with the call that is     *)
(* given up or with the entry it stored; nothing streams from either.       *)
LEMMA RegisterHands ==
  ASSUME HandInv, PlaceInv, NEW r \in Consumers,
         CallRegister(r) \/ SendRegister(r) \/ GetReply(r) \/ Insert(r) \/ CancelRegister(r)
  PROVE  HandInv'
<1> USE DEF HandInv
<1>0. UNCHANGED <<addr, role, deregister, forwarder, broken, applied, members, handing, inbox>>
  BY DEF CallRegister, SendRegister, GetReply, Insert, CancelRegister, streams, Command, feed
<1>1. /\ register' = Set(register, r, register'[r])
      /\ register'[r] # "new" /\ register[r] # "done"
      /\ \A x \in Consumers : register[x] \notin NotYet => register'[x] \notin NotYet
      /\ \A x \in Consumers : register[x] # "new" => register'[x] # "new"
      /\ forwarder[r] = "none"
  <2>1. /\ register' = Set(register, r, register'[r])
        /\ register'[r] # "new" /\ register[r] # "done"
        /\ register'[r] \in NotYet => register[r] = "new"
    BY DEF PlaceInv, Shapes, CallRegister, SendRegister, GetReply, Insert, CancelRegister,
           Set, NotYet
  <2>. QED BY <2>1 DEF PlaceInv, Shapes, Set, NotYet, TakerDone
<1>2. \A a \in Addresses : entry[a] # r
  BY <1>1, FeedAssumption DEF EntryKnown, PlaceInv, Shapes, Nobody
<1>3. r \notin parked /\ r \notin handles
  BY <1>2 DEF InEntry
<1>4. CASE CallRegister(r) \/ GetReply(r)
  <2>1. /\ UNCHANGED <<cmds, queue, lost, entry, parked, handles>>
        /\ open' = open \/ (open' = open \cup {r} /\ register[r] = "new")
    BY <1>4 DEF CallRegister, GetReply, OpenRx, feed, channels, service
  <2>2. RegistersOnce'
    BY <1>0, <1>1, <2>1, OnceKeeps
  <2>3. EntryKnown' /\ TakerDone' /\ LostShut'
    BY <1>0, <1>1, <1>2, <2>1 DEF EntryKnown, TakerDone, LostShut, PlaceInv, Shapes, Set, FeedTypeOK
  <2>. QED BY <1>0, <2>1, <2>2, <2>3 DEF FeedTypeOK, InEntry, ParkedHeld, RunningHolds,
             EndsEmpty, NothingLost
<1>5. CASE SendRegister(r)
  <2>1. /\ Command("register", r) /\ register[r] = "command" /\ register'[r] = "reply"
        /\ UNCHANGED <<queue, open, lost, entry, parked, handles>>
    BY <1>5 DEF SendRegister, Command, channels, service, PlaceInv, Shapes, Set
  <2>2. RegistersOnce' /\ Len(cmds') <= CmdRoom /\ \A i \in DOMAIN cmds' : cmds'[i].id \in Consumers
    BY <1>1, <2>1, OnceSent
  <2>3. EntryKnown' /\ TakerDone' /\ LostShut'
    BY <1>0, <1>1, <1>2, <2>1 DEF EntryKnown, TakerDone, LostShut, PlaceInv, Shapes, Set, FeedTypeOK
  <2>. QED BY <1>0, <2>1, <2>2, <2>3 DEF FeedTypeOK, InEntry, ParkedHeld, RunningHolds,
             EndsEmpty, NothingLost
<1>6. CASE Insert(r)
  <2> DEFINE old == entry[addr[r]]
  <2>1. /\ DropRx(parked \cap {old}) /\ UNCHANGED cmds
        /\ entry' = Set(entry, addr[r], r)
        /\ parked' = (parked \ {old}) \cup (open \cap {r})
        /\ handles' \subseteq (handles \ {old}) \cup {r}
        /\ register'[r] = "done" /\ addr[r] \in Addresses
    BY <1>6 DEF Insert, PlaceInv, Shapes, Set
  <2>2. /\ open' = open \ (parked \cap {old})
        /\ queue' \in [Consumers -> 0..QueueRoom]
        /\ \A x \in Consumers \ open' : queue'[x] = 0
        /\ \A x \in Consumers : queue[x] = 0 => queue'[x] = 0
        /\ \A x \in lost' \ lost : x \in parked \cap {old}
        /\ lost \subseteq lost' /\ lost' \subseteq Consumers
    BY <2>1, DropFacts DEF PlaceInv, Shapes
  <2>3. RegistersOnce'
    BY <1>0, <1>1, <2>1, OnceKeeps
  <2>4. /\ \A a \in Addresses : entry'[a] = IF a = addr[r] THEN r ELSE entry[a]
        /\ \A x \in Consumers : register'[x] = IF x = r THEN "done" ELSE register[x]
    BY <1>1, <2>1 DEF PlaceInv, Shapes, Set
  <2>5. EntryKnown'
    BY <1>0, <2>4 DEF EntryKnown, PlaceInv, Shapes
  <2>6. InEntry'
    <3> SUFFICES ASSUME NEW x \in parked' \cup handles' PROVE \E a \in Addresses : entry'[a] = x
      BY DEF InEntry
    <3>1. CASE x = r
      BY <2>1, <2>4, <3>1
    <3>2. CASE x # r
      <4>1. x # old /\ x \in parked \cup handles
        BY <2>1, <3>2
      <4>2. PICK a \in Addresses : entry[a] = x
        BY <4>1 DEF InEntry
      <4>. QED BY <2>4, <4>1, <4>2
    <3>. QED BY <3>1, <3>2
  <2>7. ParkedHeld' /\ RunningHolds' /\ TakerDone'
    BY <1>0, <1>1, <1>3, <2>1, <2>2, <2>4 DEF ParkedHeld, RunningHolds, TakerDone
  <2>8. LostShut' /\ NothingLost'
    BY <1>0, <1>1, <2>2, <2>4, ParkedDone DEF LostShut, NothingLost, ParkedHeld, FeedTypeOK
  <2>9. FeedTypeOK' /\ EndsEmpty' /\ handles' \subseteq Consumers
    BY <1>0, <2>1, <2>2 DEF FeedTypeOK, EndsEmpty
  <2>. QED BY <2>3, <2>5, <2>6, <2>7, <2>8, <2>9
<1>7. CASE CancelRegister(r)
  <2>1. DropRx({r}) /\ UNCHANGED <<cmds, entry, parked, handles>>
    BY <1>7 DEF CancelRegister, service
  <2>2. /\ open' = open \ {r}
        /\ queue' \in [Consumers -> 0..QueueRoom]
        /\ \A x \in Consumers \ open' : queue'[x] = 0
        /\ \A x \in Consumers : queue[x] = 0 => queue'[x] = 0
        /\ \A x \in lost' \ lost : x = r
        /\ lost \subseteq lost' /\ lost' \subseteq Consumers
    BY <2>1, DropFacts
  <2>3. RegistersOnce'
    BY <1>0, <1>1, <2>1, OnceKeeps
  <2>4. EntryKnown' /\ TakerDone' /\ LostShut' /\ NothingLost'
    BY <1>0, <1>1, <1>2, <2>1, <2>2 DEF EntryKnown, TakerDone, LostShut, NothingLost,
       PlaceInv, Shapes, Set, FeedTypeOK
  <2>5. ParkedHeld' /\ RunningHolds'
    BY <1>0, <1>1, <1>3, <2>1, <2>2 DEF ParkedHeld, RunningHolds
  <2>. QED BY <1>0, <2>1, <2>2, <2>3, <2>4, <2>5 DEF FeedTypeOK, InEntry, EndsEmpty
<1>. QED BY <1>4, <1>5, <1>6, <1>7

(* Whoever removes the entry of an address - Deregister, a forwarder, an    *)
(* inbound task - drops the receiver in it, which nothing streams from, and *)
(* at most one of its own that has nothing in it or whose client gave up.   *)
LEMMA RemoveHands ==
  ASSUME HandInv, PlaceInv, NEW a \in Addresses, NEW mine \in SUBSET Consumers,
         RemoveEntry(a), DropRx(mine \cup (parked \cap {entry[a]})),
         UNCHANGED <<inbox, cmds, applied, members, handing, register, addr, broken>>,
         \A r \in mine : /\ forwarder[r] = "remove" /\ forwarder'[r] = "done",
         \A r \in Consumers \ mine : forwarder'[r] = forwarder[r]
  PROVE  HandInv'
<1> USE DEF HandInv
<1> DEFINE old == entry[a]
<1>1. /\ entry' = Set(entry, a, Nobody)
      /\ parked' = parked \ {old} /\ handles' = handles \ {old}
      /\ parked \subseteq Consumers
  BY DEF RemoveEntry, PlaceInv, Shapes
<1>2. /\ open' = open \ (mine \cup (parked \cap {old}))
      /\ queue' \in [Consumers -> 0..QueueRoom]
      /\ \A x \in Consumers \ open' : queue'[x] = 0
      /\ \A x \in Consumers : queue[x] = 0 => queue'[x] = 0
      /\ \A x \in lost' \ lost : x \in mine \cup (parked \cap {old}) /\ queue[x] # 0
      /\ lost \subseteq lost' /\ lost' \subseteq Consumers
  BY <1>1, DropFacts
<1>3. \A b \in Addresses : entry'[b] = IF b = a THEN Nobody ELSE entry[b]
  BY <1>1 DEF PlaceInv, Shapes, Set
<1>4. mine \cap parked = {}
  BY DEF ParkedHeld
<1>5. RegistersOnce'
  BY OnceKeeps
<1>6. EntryKnown'
  BY <1>3 DEF EntryKnown
<1>7. InEntry'
  <2> SUFFICES ASSUME NEW x \in parked' \cup handles' PROVE \E b \in Addresses : entry'[b] = x
    BY DEF InEntry
  <2>1. x # old /\ x \in parked \cup handles
    BY <1>1
  <2>2. PICK b \in Addresses : entry[b] = x
    BY <2>1 DEF InEntry
  <2>. QED BY <1>3, <2>1, <2>2
<1>8. ParkedHeld' /\ TakerDone' /\ RunningHolds'
  BY <1>1, <1>2, <1>4 DEF ParkedHeld, TakerDone, RunningHolds
<1>9. NothingLost'
  <2> SUFFICES ASSUME NEW x \in lost' PROVE x \in broken \/ forwarder'[x] = "none"
    BY DEF NothingLost
  <2>1. CASE x \in lost
    BY <1>2, <2>1 DEF NothingLost
  <2>2. CASE x \in mine /\ x \notin lost
    BY <1>2, <2>2 DEF EndsEmpty
  <2>3. CASE x \in parked
    BY <1>1, <1>4, <2>3 DEF ParkedHeld
  <2>. QED BY <1>2, <2>1, <2>2, <2>3
<1>10. LostShut'
  <2> SUFFICES ASSUME NEW x \in lost'
               PROVE  register[x] # "new" /\ (forwarder'[x] = "none" => x \notin open')
    BY DEF LostShut
  <2>1. CASE x \in lost
    BY <1>2, <2>1 DEF LostShut
  <2>2. CASE x \notin lost
    <3>1. x \notin open' /\ (x \in mine \/ x \in parked)
      BY <1>2, <2>2
    <3>2. register[x] = "done"
      BY <3>1, ParkedDone DEF TakerDone
    <3>. QED BY <3>1, <3>2
  <2>. QED BY <2>1, <2>2
<1>11. EndsEmpty'
  BY <1>2 DEF EndsEmpty
<1>12. FeedTypeOK' /\ handles' \subseteq Consumers
  BY <1>1, <1>2 DEF FeedTypeOK
<1>. QED BY <1>5, <1>6, <1>7, <1>8, <1>9, <1>10, <1>11, <1>12
(* The forwarder ends with an empty channel, because the bus let go of its  *)
(* client, or because the client gave up.                                   *)
LEMMA ForwarderHands ==
  ASSUME HandInv, PlaceInv, NEW r \in Consumers, Forwarder(r)
  PROVE  HandInv'
<1> USE DEF HandInv
<1>0. UNCHANGED <<register, addr, role, deregister, inbound, broken>>
  BY DEF Forwarder, Receive, ReceiveEnd, Forward, ForwarderDeregister, ForwarderRemove, calls
<1>1. CASE Receive(r) \/ Forward(r)
  <2>1. /\ UNCHANGED <<inbox, cmds, applied, members, handing, open, entry, parked, handles>>
        /\ forwarder[r] \in {"receive", "send"}
        /\ \E to \in {"receive", "send", "deregister"} :
             /\ forwarder' = Set(forwarder, r, to)
             /\ to = "deregister" => r \in broken
        /\ queue' = queue \/ (queue[r] > 0 /\ queue' = [queue EXCEPT ![r] = @ - 1])
        /\ lost' = lost \/ (r \in broken /\ lost' = lost \cup {r})
    BY <1>1 DEF Receive, Forward, TakeFrom, service
  <2>2. \A x \in Consumers : /\ x # r => forwarder'[x] = forwarder[x]
                             /\ forwarder'[x] # "none" <=> forwarder[x] # "none"
    BY <2>1 DEF PlaceInv, Shapes, Set
  <2>3. FeedTypeOK'
    <3>1. queue' \in [Consumers -> 0..QueueRoom]
      BY <2>1, FeedAssumption DEF FeedTypeOK
    <3>2. \A x \in Consumers \ open : queue'[x] = 0
      BY <2>1, FeedAssumption DEF FeedTypeOK
    <3>. QED BY <2>1, <3>1, <3>2 DEF FeedTypeOK
  <2>4. EndsEmpty'
    <3> SUFFICES ASSUME NEW x \in Consumers \ broken,
                        forwarder'[x] \in {"deregister", "remove", "done"}
                 PROVE  x \in applied \ members /\ queue'[x] = 0
      BY <1>0, <2>1 DEF EndsEmpty
    <3>1. x # r
      BY <2>1 DEF PlaceInv, Shapes, Set
    <3>. QED BY <2>1, <2>2, <3>1 DEF EndsEmpty, FeedTypeOK
  <2>5. RunningHolds' /\ NothingLost' /\ LostShut'
    BY <1>0, <2>1, <2>2 DEF RunningHolds, NothingLost, LostShut, FeedTypeOK, TakerDone
  <2>6. RegistersOnce'
    BY <1>0, <2>1 DEF RegistersOnce
  <2>. QED BY <1>0, <2>1, <2>2, <2>3, <2>4, <2>5, <2>6 DEF EntryKnown, InEntry, ParkedHeld,
             TakerDone, PlaceInv, Shapes
<1>2. CASE ReceiveEnd(r)
  <2>1. /\ UNCHANGED <<inbox, cmds, applied, members, handing, queue, open, lost,
                       entry, parked, handles>>
        /\ forwarder[r] = "receive" /\ forwarder' = Set(forwarder, r, "deregister")
        /\ r \in applied \ members /\ queue[r] = 0
    BY <1>2 DEF ReceiveEnd, AtEnd, SenderDropped, feed, channels, service
  <2>. QED BY <1>0, <2>1 DEF FeedTypeOK, EntryKnown, InEntry, ParkedHeld, TakerDone,
             RunningHolds, RegistersOnce, EndsEmpty, LostShut, NothingLost, PlaceInv, Shapes, Set
<1>3. CASE ForwarderDeregister(r)
  <2>1. /\ Command("deregister", r)
        /\ UNCHANGED <<inbox, applied, members, handing, queue, open, lost,
                       entry, parked, handles>>
        /\ forwarder[r] = "deregister" /\ forwarder' = Set(forwarder, r, "remove")
    BY <1>3 DEF ForwarderDeregister, OwnId, Command, channels, service
  <2>2. RegistersOnce' /\ Len(cmds') <= CmdRoom /\ \A i \in DOMAIN cmds' : cmds'[i].id \in Consumers
    BY <1>0, <2>1, OnceSent
  <2>. QED BY <1>0, <2>1, <2>2 DEF FeedTypeOK, EntryKnown, InEntry, ParkedHeld, TakerDone,
             RunningHolds, EndsEmpty, LostShut, NothingLost, PlaceInv, Shapes, Set
<1>4. CASE ForwarderRemove(r)
  <2>1. /\ RemoveEntry(addr[r]) /\ DropRx({r} \cup (parked \cap {entry[addr[r]]}))
        /\ UNCHANGED <<inbox, cmds, applied, members, handing>>
        /\ forwarder[r] = "remove" /\ forwarder'[r] = "done"
        /\ \A x \in Consumers \ {r} : forwarder'[x] = forwarder[x]
        /\ addr[r] \in Addresses
    BY <1>4 DEF ForwarderRemove, PlaceInv, Shapes, Set
  <2>. QED BY <1>0, <2>1, RemoveHands
<1>. QED BY <1>1, <1>2, <1>3, <1>4 DEF Forwarder

(* The inbound tasks, Deregister, and what clients do. *)
LEMMA ClientHands ==
  ASSUME HandInv, PlaceInv, NEW r \in Consumers,
         \/ Inbound(r) \/ SendDeregister(r)
         \/ CallDeregister(r) \/ CancelDeregister(r)
         \/ Read(r) \/ InboundEnd(r) \/ ClientReads(r) \/ Break(r)
  PROVE  HandInv'
<1> USE DEF HandInv
<1>0. UNCHANGED <<register, addr, forwarder>>
  BY DEF Inbound, MakeSend, InboundRemove, SendDeregister, CallDeregister,
         CancelDeregister, Read, InboundEnd, ClientReads, Break, calls, streams
<1>1. CASE InboundRemove(r) \/ CallDeregister(r)
  <2>1. /\ RemoveEntry(addr[r]) /\ DropRx({} \cup (parked \cap {entry[addr[r]]}))
        /\ UNCHANGED <<inbox, cmds, applied, members, handing, broken>>
        /\ addr[r] \in Addresses
    BY <1>1 DEF InboundRemove, CallDeregister, streams, PlaceInv, Shapes
  <2> DEFINE mine == {}
  <2>2. /\ mine \in SUBSET Consumers /\ DropRx(mine \cup (parked \cap {entry[addr[r]]}))
        /\ \A x \in mine : forwarder[x] = "remove" /\ forwarder'[x] = "done"
        /\ \A x \in Consumers \ mine : forwarder'[x] = forwarder[x]
    BY <1>0, <2>1
  <2> HIDE DEF mine
  <2>. QED BY <1>0, <2>1, <2>2, RemoveHands
<1>2. CASE SendDeregister(r)
  <2>1. /\ Command("deregister", r)
        /\ UNCHANGED <<inbox, applied, members, handing, queue, open, lost,
                       entry, parked, handles, broken>>
    BY <1>2 DEF SendDeregister, Command, channels, service, streams
  <2>2. RegistersOnce' /\ Len(cmds') <= CmdRoom /\ \A i \in DOMAIN cmds' : cmds'[i].id \in Consumers
    BY <1>0, <2>1, OnceSent
  <2>. QED BY <1>0, <2>1, <2>2 DEF FeedTypeOK, EntryKnown, InEntry, ParkedHeld, TakerDone,
             RunningHolds, EndsEmpty, LostShut, NothingLost
<1>3. CASE \/ MakeSend(r) \/ CancelDeregister(r)
           \/ Read(r) \/ InboundEnd(r) \/ ClientReads(r) \/ Break(r)
  <2>1. /\ UNCHANGED <<cmds, applied, members, handing, queue, open, lost,
                       entry, parked, handles>>
        /\ broken \subseteq broken'
        /\ inbox' = inbox \/ (inbox < BusRoom /\ inbox' = inbox + 1)
    BY <1>3 DEF MakeSend, CancelDeregister, Read, InboundEnd, ClientReads, Break, Publish,
       feed, channels, service, streams
  <2>2. inbox' \in 0..BusRoom
    BY <2>1, FeedAssumption DEF FeedTypeOK
  <2>. QED BY <1>0, <2>1, <2>2 DEF FeedTypeOK, EntryKnown, InEntry, ParkedHeld, TakerDone,
             RunningHolds, RegistersOnce, EndsEmpty, LostShut, NothingLost
<1>. QED BY <1>1, <1>2, <1>3 DEF Inbound

\* A stream takes over a receiver from which nothing was lost.
LEMMA StreamHands ==
  ASSUME HandInv, PlaceInv, NEW a \in Addresses, Stream(a)
  PROVE  HandInv'
<1> USE DEF HandInv
<1>1. /\ UNCHANGED <<inbox, cmds, applied, members, handing, queue, open, lost,
                     entry, register, addr, broken>>
      /\ parked' = parked \ {entry[a]} /\ handles' = handles \ {entry[a]}
      /\ \/ forwarder' = forwarder
         \/ entry[a] \in parked /\ forwarder' = Set(forwarder, entry[a], "receive")
  BY DEF Stream, feed, channels, calls
<1>2. entry[a] \in parked => /\ entry[a] \in open /\ entry[a] \notin lost
                             /\ register[entry[a]] = "done" /\ entry[a] \in Consumers
  BY ParkedDone DEF ParkedHeld, LostShut
<1>3. \A x \in Consumers : \/ forwarder'[x] = forwarder[x]
                           \/ x = entry[a] /\ x \in parked /\ forwarder'[x] = "receive"
  BY <1>1 DEF PlaceInv, Shapes, Set
<1>4. FeedTypeOK' /\ EntryKnown' /\ InEntry' /\ RegistersOnce' /\ handles' \subseteq Consumers
  BY <1>1 DEF FeedTypeOK, EntryKnown, InEntry, RegistersOnce
<1>5. ParkedHeld' /\ TakerDone' /\ RunningHolds'
  BY <1>1, <1>2, <1>3 DEF ParkedHeld, TakerDone, RunningHolds, PlaceInv, Shapes
<1>6. EndsEmpty' /\ LostShut' /\ NothingLost'
  BY <1>1, <1>2, <1>3 DEF EndsEmpty, LostShut, NothingLost, FeedTypeOK
<1>. QED BY <1>4, <1>5, <1>6

\* Nothing is handed over at first.
LEMMA HandInit ==
  ASSUME Init
  PROVE  HandInv
  BY FeedAssumption DEF Init, FeedInit, HandInv, FeedTypeOK, EntryKnown, InEntry, ParkedHeld,
     TakerDone, RunningHolds, RegistersOnce, NotYet, EndsEmpty, LostShut, NothingLost, Nobody

\* No step loses what was handed to a client that streams.
LEMMA HandStep ==
  ASSUME HandInv, PlaceInv, [Next]_vars
  PROVE  HandInv'
<1>1. CASE Next
  <2>1. ASSUME NEW r \in Consumers, Server(r) \/ Forwarder(r) \/ Inbound(r) \/ Client(r)
        PROVE  HandInv'
    BY <2>1, RegisterHands, ForwarderHands, ClientHands DEF Server, Client
  <2>2. CASE Others
    <3>1. inbox' \in 0..BusRoom
      BY <2>2, FeedAssumption DEF Others, Publish, HandInv, FeedTypeOK
    <3>. QED BY <2>2, <3>1 DEF Others, Publish, channels, service, calls, streams, HandInv,
         FeedTypeOK, EntryKnown, InEntry, ParkedHeld, TakerDone, RunningHolds, RegistersOnce,
         EndsEmpty, LostShut, NothingLost
  <2>. QED BY <1>1, <2>1, <2>2, StreamHands, LoopHands DEF Next
<1>2. CASE UNCHANGED vars
  BY <1>2 DEF vars, feed, channels, service, calls, streams, HandInv,
     FeedTypeOK, EntryKnown, InEntry, ParkedHeld, TakerDone, RunningHolds, RegistersOnce,
     EndsEmpty, LostShut, NothingLost
<1>. QED BY <1>1, <1>2

(* Whatever calls overwrite, cancel, deregister or end meanwhile: only a    *)
(* client that gave up, or that never streamed, loses what the bus handed   *)
(* to it.                                                                   *)
THEOREM NothingLostTheorem == Spec => []NothingLost
<1>1. HandInv => NothingLost
  BY DEF HandInv
<1>2. PlaceInv /\ HandInv /\ [Next]_vars => PlaceInv' /\ HandInv'
  BY PlaceStep, HandStep
<1>3. Init => PlaceInv /\ HandInv
  BY PlaceInit, HandInit
<1>. QED BY <1>1, <1>2, <1>3, PTL DEF Spec

-----------------------------------------------------------------------------
OutTyped == out \in [Consumers -> 0..OutRoom] /\ broken \subseteq Consumers

\* The outbound channel of a stream holds no more than its capacity.
LEMMA OutStep ==
  ASSUME OutTyped, [Next]_vars
  PROVE  OutTyped'
<1>1. \/ out' = out
      \/ \E r \in Consumers : out[r] < OutRoom /\ out' = [out EXCEPT ![r] = @ + 1]
      \/ \E r \in Consumers : out[r] > 0 /\ out' = [out EXCEPT ![r] = @ - 1]
      \/ \E r \in Consumers : out' = [out EXCEPT ![r] = 0]
  BY DEF Next, Server, SendRegister, GetReply, Insert, SendDeregister, Forwarder, Receive,
     ReceiveEnd, Forward, ForwarderDeregister, ForwarderRemove, Inbound, MakeSend,
     InboundRemove, Client, CallRegister, CancelRegister, CallDeregister, CancelDeregister,
     Read, InboundEnd, ClientReads, Break, Stream, Bus, Others, streams, vars
<1>2. out' \in [Consumers -> 0..OutRoom]
  BY <1>1, OutRoomAssumption DEF OutTyped
<1>3. broken' \subseteq Consumers
  BY DEF OutTyped, Next, Server, SendRegister, GetReply, Insert, SendDeregister, Forwarder,
     Receive, ReceiveEnd, Forward, ForwarderDeregister, ForwarderRemove, Inbound, MakeSend,
     InboundRemove, Client, CallRegister, CancelRegister, CallDeregister, CancelDeregister,
     Read, InboundEnd, ClientReads, Break, Stream, Bus, Others, streams, vars
<1>. QED BY <1>2, <1>3 DEF OutTyped

(* The types of the service: an entry belongs to its address and what it    *)
(* holds exists, every channel keeps to its capacity, and a forwarder at    *)
(* work has its receiver.                                                   *)
THEOREM GrpcTypeInvariant == Spec => []TypeOK
<1>1. Init => PlaceInv /\ HandInv /\ OutTyped
  <2>1. Init => OutTyped
    BY OutRoomAssumption DEF Init, OutTyped
  <2>. QED BY <2>1, PlaceInit, HandInit
<1>2. PlaceInv /\ HandInv /\ OutTyped /\ [Next]_vars => PlaceInv' /\ HandInv' /\ OutTyped'
  BY PlaceStep, HandStep, OutStep
<1>3. PlaceInv /\ HandInv /\ OutTyped => TypeOK
  BY DEF PlaceInv, Shapes, HandInv, EntryKnown, InEntry, ParkedHeld, RunningHolds, OutTyped, TypeOK
<1>. QED BY <1>1, <1>2, <1>3, PTL DEF Spec
=============================================================================
