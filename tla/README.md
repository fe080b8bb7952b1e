# Jackfield in TLA+

Specifications, model-checking runs and proofs for Jackfield, an in-process
message bus with affinity-based routing (Rust, tokio). Paths below are relative
to the repository, which `PROJECT.json` names with a leading `src/`.

Producers put envelopes into a bounded channel; a loop (`drain()`, once, or
`dispatch()`, for ever) takes them out and asks a router which registered
consumer gets each one; what nobody takes goes to a backlog. Registrations may
arrive through a second, bounded channel while the loop runs. Network endpoints
and the Python wrapper are clients of these two channels.

## Inventory

| Part | State | Operations | Meets the others through |
|---|---|---|---|
| **Bus** `src/components/bus/bus.rs` | envelope channel, command channel, registry, backlog | `drain`, `dispatch`, `register_consumer`, `deregister_consumer`, `max_pending`, `push_pending`, `apply_cmd` | both channels; `route()` awaits a consumer's `consume()` |
| **BusCmdHandle** (same file) | senders of both channels | `register` (with a reply), `deregister` (without) | the command channel |
| **ProducerHandle** `router/envelope.rs` | sender, optional token bucket | `make_send` (waits), `try_make_send` (does not), `wait_for_token` | the envelope channel; the bucket's mutex |
| **Registry, routing plan** `registry/registry.rs` | entries by age, `next_id` | `register`, `deregister`, `qualify`/plan, `observe` | borrowed by the route from plan to observation |
| **Routers** `router/router.rs` | none | `AffinityRouter::route`, `BlindRouter::route` | `available`, `validate`, `consume` of consumers |
| **Dimensions** `router/dimensions/` | a weight each | `score`, `matches`, `observe` | told the outcome of each route |
| **Token bucket** `endpoint/throttle.rs` | tokens, last refill | `try_acquire` | shared by the clones of a handle |
| **In-process endpoint** `endpoint/direct.rs` | an optional handle | `attach`, `send`, `consume` | may send while it consumes |
| **ConnectionRegistry** `endpoint/network/connection.rs` | table of senders, counter of live ones | `connect`, `disconnect`, `broadcast`, `available` | a mutex and two atomics, never held together |
| **ChannelConsumer** (same file) | a channel of 256 | `available` (is_closed), `consume` | awaited by the bus's loop |
| **gRPC endpoint** `endpoint/network/grpc.rs` | map from peer address to entry | `Register`, `Stream`, `Deregister`, a forwarding and an inbound task per stream | the map's mutex, both channels of the bus |
| **WebSocket endpoint** `endpoint/network/ws.rs` | per connection | first frame registers, three tasks forward, the end deregisters | both channels of the bus |
| **Python wrapper** `integrations/python/integration.rs` | bus mutex, handles mutex, a queue per callback | `send`, `register_consumer`, `drain`, `is_empty` | interpreter lock |
| **Messages, codec** `message/` | none | field by field conversion | - |

What is hard in each, and what makes it correct:

- **Bus.** Producers, owners of registrations and the loop interleave at every
  await; the loop's future may be dropped while a `consume()` is awaited; a
  consumer may send on the very bus that waits for it; the retry of the backlog
  pushes onto the backlog. Correct means: one fate per message, order of
  arrival, the cap, a registry the owners can rely on, drains and waiting sends
  that end.
- **Routing.** Consumers answer what they like, weights move after every route,
  scores may be anything. Correct means: the best consumer willing to take the
  message gets it, none is passed over, learning stays in range and follows
  from what happened.
- **Token bucket.** Refill is lazy, clones race for the token they slept for.
  Correct means: the rate holds over every stretch of time and no token is
  withheld.
- **ConnectionRegistry.** The table and the count of its entries are changed one
  after the other, a broadcast acts on a snapshot. Correct means: the count
  accounts for the table whatever interleaves, only dead connections are
  removed, nobody waits for a client that does not read but the broadcast itself.
- **gRPC.** One entry per peer address, although several registrations may share
  an address; tasks that outlive the call that made them; a channel of the bus, a
  forwarder and an outbound channel in a row; `is_closed()` read before the
  send. Correct means: who streams is registered, what is handed to a client that
  stays arrives, the loop of the bus goes on, a stream cleans up its own entry.
- **WebSocket.** Three tasks per connection, and a connection that may wait for a
  bus that waits for it. Correct means: what is handed over arrives or the
  client is gone, and a client that is gone is deregistered.
- **Python.** Two mutexes and the interpreter lock, taken in either order; a
  callback that raises puts its messages back; drains overlap. Correct means:
  every message is in one place, a call returns, nothing waits without reason.

`PROJECT.json` lists every such hazard at its line with the properties that
cover it; those without a property say why nothing is promised, and a note says
where a property covers only a part, or a proof more than its run.

## Modules

| Module | What it is |
|---|---|
| `Delivery` | abstract: a message is open, then handed to one accepting member or discarded |
| `Bus` | the bus in detail; any qualified consumer may win |
| `Router` | who wins, and what everybody learns |
| `Throttle` | the token bucket and the tasks that pass it |
| `ConnectionRegistry` | the table of connections, its counter, and the tasks that use it |
| `Feed` | the loop of `dispatch()` and the `ChannelConsumer`, as the endpoints meet them |
| `GrpcEndpoint`, `WsEndpoint` | the endpoints over `Feed` (EXTENDS) |
| `PyBus` | the Python bus and its threads |
| `MCBus`, `MCRouter`, `MCThrottle`, `MCConnectionRegistry`, `MCGrpcEndpoint`, `MCWsEndpoint`, `MCPyBus` | instances for TLC |
| `BusProofs`, `BusRegistryProofs`, `RouterProofs`, `ThrottleProofs`, `ConnectionProofs`, `GrpcProofs`, `WsProofs`, `PyBusProofs` | theorems |

`Bus` leaves the choice among qualified consumers open, and `Router` makes it:
`Hand` and `Hold` of `Bus` allow every outcome `Route` of `Router` can have (the
winner meets its requirements; a message comes back only when every qualified
consumer refused, so never when a Willing one qualified, which is `BestWins` and
`NobodyPassedOver` there). That link is argued here and is not an INSTANCE;
see the plan.

### Bus and the code

- `chan` and `cmds` are the tokio channels, `Capacity` and `CmdCapacity` their
  slots. Reserving a slot and filling it is one step: `SendEnqueue` is the
  moment `send().await` completes. `TrySend` may fail although a slot is free
  when senders are waiting, because tokio promises the slot to them.
- `registry` is a set of entries with growing ids; `pending` is the backlog and
  `batch` what is left of the one that `mem::take` moved into `drain()`'s future.
- `pc` follows the two loops: `commands`, `retry`, `receive` are `drain()`'s
  three, `select` is `dispatch()`'s. `inHand` is the message whose `consume()`
  is awaited: only there, and in `select!`, does a loop yield, so only there can
  `Cancel` drop its future. `Cancel` loses the batch, and refuses the send that
  the awaited consumer was itself waiting for.
- tokio runs other tasks in parallel with the loop, so producers and owners may
  take a step between any two of the loop's, awaiting or not.
- `available()` and `validate()` may say anything, except that the consumers in
  `Willing` always take what they qualify for.
- `DropBus` drops receivers and registry together: waiting requests fail.
- A message is sent at most once, its content is nothing but `Accepts`. A
  second send of the same payload is a second message.
- `RegisterDirect`, `DeregisterDirect` are the `&mut self` methods, possible
  only while no loop borrows the bus. `MaxLeaves` bounds how often an owner
  repeats its request to leave.

### Router and the code

- One route is two steps, `Route` up to the awaited `consume()` and `Consumed`
  after it: the registry is borrowed in between, so that no registration can
  change there, but the future can be dropped (`CancelRoute`).
- Weights are integers in millionths of 1.0. The code's `f32` rounds otherwise;
  the properties use only comparisons and the bounds, which hold for any
  rounding that is monotone. `Floor`, `Cap` and the factors are the code's.
- `sort_by` of `plan()` is modelled by its result: in `Walk` each consumer that
  qualifies has as many before it as outrank it. `BlindRouter` walks the table as it
  is, the order of registration, which is the same with all scores equal.
- The dimensions are the three built in, and `broken`, which stands for a custom
  `Dimension` whose score is not finite and which does not `observe()`.
- Stated only for weights that `prefer()` was given between floor and cap
  (`OffersInRange`): outside it the code's clamps turn a penalty into a raise.

### Throttle and the code

- The mutex makes `TryAcquire` one step. A task sleeps outside it; `Tick` moves
  the clock, whole ticks of a `Second`-th of a second. `CeilDiv` is the length of
  the sleep: tokio never wakes a sleeper early.
- A rate of zero makes the sleep infinite, and `Duration::from_secs_f64` panics
  (`Panic`); a burst of zero lets nobody through. Both are states of the model.

### ConnectionRegistry and the code

- The mutex is a variable, `lock`, only where it is held over more than one step
  (`Relock` to `Unlock`: removing what a broadcast found dead, entry by entry, each
  with its `fetch_sub`). `connect()` and `disconnect()` hold it for one step, and the
  atomic that follows is a step of its own (`Count`, `Uncount`).
- A snapshot is a sequence, in any order, since a `HashMap` has none. The `Send`s
  are outside the lock, and one blocks while the channel of its client is full.
- `active` counts modulo `Wrap`, as the `usize` does. A transient wrap below zero is
  real: a broadcast may remove and uncount what `connect()` has inserted and not
  counted yet. `available()` then answers true for a moment; `CounterAccounts` says
  that nothing of it remains.
- The endpoints no longer use this registry (connection.rs:1 keeps it for
  compatibility): the model lets any tasks call it at any time.

### Feed and the code

`Feed` is what a remote client can tell of the bus: two bounded channels, one
loop that either applies a command, routes a message or awaits a `consume()`,
and per registration the channel of its `ChannelConsumer` (256 in the code,
`QueueRoom` here). It is not an instance of `Bus`: messages are counted and not
named, a route picks any consumer whose receiver exists (`available()`), or none,
which stands for a message nobody wants, the backlog included. `lost` is a
history: the consumers that had a message dropped, in a channel, in the hands of
a task, or in a `consume()` whose receiver went away after `available()` was asked.

### GrpcEndpoint and the code

- Each `Register` call is named by the uuid it draws, and so is its registration:
  `entry` maps an address to the call stored under it, `parked` and `handles`
  are the calls whose `consumer_rx` and `producer_handle` are still in there.
- The mutex of the entries is never held over an await, so that each block under
  it is one step. The awaits of a handler are steps: `SendRegister`, `GetReply`,
  `Insert`; at each the client may give the call up and tonic drops the handler
  (`CancelRegister`, `CancelDeregister`).
- `Stream` takes receiver and handle out of the entry and spawns the forwarder and
  the inbound task. The inbound task cleans up only if its stream took no receiver.
- Taking the next item before noticing that the client is gone is `Receive`, then
  the second disjunct of `Forward`.
- A `Stream` or `Deregister` that finds no entry, or one with another uuid, is
  refused and changes nothing: it is no action.

### WsEndpoint and the code

- `task` is `handle_connection()`, `relay` the task that takes from the bus and
  encodes, `writer` the one that owns the sink. The end of `writer` closes the
  channel of bytes, at which `relay` fails (`RelayFails`) and drops the receiver of the
  bus; the end of `relay` closes it too (`TakeEnd`).
- `WriteFails` needs a client that is gone, and `Write` may still succeed then: the
  operating system takes what it cannot deliver.
- `handle_connection()` reads the end of the inbound stream only after the frames
  before it (`InboundEnd` needs no frame left).

### PyBus and the code

- A thread in Python code may be switched at any point, so that `gil` names a thread
  only while that thread waits with the lock in hand for the mutex of the bus
  (`send()` for a new producer name, `is_empty()`). `drain()` gives the lock up
  (`allow_threads`) while it holds the mutex, and gives the mutex back before it
  takes the lock again.
- The handles' mutex and those of the callbacks' queues are taken with the
  interpreter lock and never waited for: they are folded into the steps.
- A callback that uses the bus is modelled as another thread that does: while
  `Called` has not happened, all others may step. A callback that drains from
  within is a drain of another thread that ends first, which is among the
  behaviours checked.
- `register_consumer` borrows the wrapper mutably, so pyo3 refuses it during a call.
- `Accepts` says which message meets what a callback requires (`require_from`,
  `require`). What a drain hands over goes to any registered callback that accepts
  it (`HandOver`); what none accepts goes to the backlog (`PutBack`), which the next
  drain takes out whole (`LockBus`, `batch`) and routes before the channel, as the
  three loops of `Bus::drain()` do. Python has no command channel.
- The backlog holds 1024 and no more than that are sent (`PyBounds`), so that
  nothing is evicted; `Bus` models eviction.
- `is_empty()` is modelled by the locks it takes. Its answer says nothing of the
  queues of the callbacks; by `OnlyRaisersWait` what it overlooks while no call is
  under way are the messages of callbacks that raised.

## What is checked

Bounds are in the `.cfg` files. Deadlock checking is off in every run: messages,
registrations, routes and time are finite, and a bus or a server nobody uses may
stop. What must go on is stated as liveness.

| Run | Shows | Bounds, and why they are enough |
|---|---|---|
| `bus_safe` | `TypeOK`, `OneFate`, `ArrivalOrder`, `BacklogBound`, `DrainLeavesNothing`, `RegistrationView`, `EvictsOldest`, and that `Bus` implements `Delivery` | 3 messages, 2 consumers, channels of 2, cap 2, removals repeated twice, both loops, cancellation. Three messages overflow either queue, and leave one in the backlog, one under retry and one in the channel at once; one message is wanted by both consumers, one by each alone |
| `bus_live` | `DrainReturns`, `SendReturns`, `RegisterReturns`, `HeldIsRetried`, `WedgedForGood` | 3 messages, channels of 1, so that senders and owners wait; a consumer that relays, so that the loop can wedge |
| `bus_cap_zero` | a violation: `max_pending(0)` keeps one message | cap 0 |
| `bus_dispatch` | a violation: `dispatch()` never retries the backlog | 2 messages, 2 consumers |
| `bus_cancel` | a violation: a dropped `drain()` loses the batch | 2 messages, 2 consumers |
| `router_safe` | `WeightsInRange`, `BestWins`, `NobodyPassedOver`, `Stable`, `PreferenceSurvives`, `LearnsFromOutcome` for both routers | 3 consumers out of 5 offers, 2 messages; weights next to the floor, at 1.0 and next to the cap, so that one route reaches the ends and one reverses a ranking. Not reached: totals below zero, and longer histories of learning; both are covered by the proofs |
| `throttle_safe` | `RateHolds`, `SendsHold`, `NoneWithheld`, `SleepsEnough` | 2 tasks, rates and bursts 0 to 2, a third of a second per tick, 7 ticks, 5 tokens: bursts are used up, refilled partly, refilled over the top |
| `conn_registry` | `TypeOK`, `CounterAccounts`, `LivingStay`, `CallsReturn` | 2 clients, 2 broadcasters, one slot per client, a count modulo 4: each client may leave, die and be broadcast to by both while the other connects; 4 is more than the entries and calls under way |
| `grpc_safe` | `TypeOK`, `StreamKeepsPlace`, `NothingLost`, `LoopGoesOn` | 2 `Register` calls on one address, in five pairs of roles (one call declares none), every channel with one slot: the second call may overwrite, stream or leave at any moment of the first; one slot lets everybody wait for everybody |
| `grpc_reregister` | a violation: a stream removes the entry of a later `Register` | as above |
| `ws_endpoint` | `TypeOK`, `NothingLost`, `GoneIsDeregistered` | 2 connections, one producing and consuming, every channel with one slot, so that the bus waits for a client whose task waits for the bus |
| `py_bus` | `TypeOK`, `NothingLost`, `OnlyRaisersWait`, `CallsReturn` | 2 threads, 2 callbacks, 2 names, a channel of 2, 3 messages, 3 drains: drains overlap and one more follows, the channel fills, a name is new while a drain holds the bus; a message both callbacks accept and one for each alone, so that one is put back, and routed again, until its callback is registered |

Each property of a passing run has a mutant, an operator named `Bug_...` next to
the definition it replaces: a plausible mistake in that code which makes
this property fail. `DrainLeavesNothing` speaks of the consumers registered when
the retry began and the ones that are `Willing`; about others nothing can be
promised. It does not say that the commands queued before the drain were applied by
then: that is the guard `CommandsDone`. `Wedged` in the liveness properties is the one way the code itself
gets stuck: a consumer that sends with `make_send` on the bus whose loop awaits
it, while the channel is full. `WedgedForGood` shows that nothing inside ends
that wait.

`LoopGoesOn` has three excuses, and they are what it teaches. A client may register
over gRPC and never stream, so that its receiver is never read; it may stream and
neither read nor give up; and there is a deadlock no client is needed for once
its stream broke: the forwarder waits for room in the command channel with the
receiver still in hand, the loop waits for room in that receiver's channel, and
only the loop makes room for commands. In the code that takes 64 commands and
256 messages at the same moment. `NothingLost` of `GrpcEndpoint` speaks of
streaming clients only: what was handed to a receiver that lies in an entry is
dropped when a second `Register` overwrites that entry. That second `Register` also
leaves the first registration without anybody to remove it when nothing ever
streamed, as does a `Register` cancelled before its reply: the bus then keeps a
consumer that is never available.

### Fairness

`Fairness` in `Bus` has weak fairness for the steps of a running `drain()`, for
the end of a `consume()` that is not blocked, and for each sender and owner that
waits on a channel: tokio polls a task that was woken, and wakes a waiter when
there is room. That tokio's waiters queue in order is not assumed; messages are
finitely many, so weak fairness is enough. `DrainSpec` adds that the
application starts another `drain()`, as the examples of the repository do after
each round of sends. `DispatchSpec` gives each branch of `select!` strong
fairness, because it polls its branches in random order. The tasks of the
endpoints run on; where several wait for one mutex or one channel their fairness
is strong, because tokio serves them in turn (`ConnectionRegistry`, the connection
tasks of `WsEndpoint`). In `PyBus` every step within a call is strongly fair: a
thread that wants the interpreter lock makes its holder switch, and the mutex of
the bus, which is not fair, is contended only by finitely many drains. Nothing is
ever assumed of clients, which need not read, close or call. No fairness is assumed
for producers starting to send, owners asking, cancelling, or dropping the bus.
`DrainReturns` says no more than that a drain ends when the producers pause: the
messages of the model are finite, and the last loop of `drain()` really runs as
long as the channel keeps being filled.

### Disagreements found

- README.md:51 says `max_pending` caps the backlog; `push_pending()` pops, then
  pushes without condition, so a cap of zero holds one (`bus_cap_zero`).
- README.md:51-52 says unhandled messages are retried on the next drain and
  offers `dispatch()` instead of drains; `dispatch()` never looks at the backlog
  (`bus_dispatch`).
- README.md:51 says unhandled messages are held; a `drain()` dropped at an await
  takes the whole backlog with it (`bus_cancel`).
- grpc.rs:140 says that the end of a forwarder cleans up because the "stream
  broke before Deregister was called"; it runs after a `Deregister` too, and
  grpc.rs:144 removes whatever entry the address has by then (`grpc_reregister`).

Neither of these is a run. README.md:37 says that both endpoints "fan out consumed
messages to connected clients". Each client now is a consumer of its own, and a
message is handed to one consumer, so that one client gets it; no property
here says otherwise. And, asserted by no line of code, tests/network.rs:116-117 says that
`Deregister` removes the consumer immediately and that further messages are
unrouted. It queues a command; until the bus applies it messages still go to that
client, and `NothingLost` of `GrpcEndpoint` shows that they arrive.

## What is proved

Every safety and action property of a passing run is a theorem, for every value
of the constants and from named assumptions alone. These say that channels have
slots, as tokio demands (`CapacityAssumption`, `OutRoomAssumption`,
`BytesRoomAssumption`, `PyAssumption`); that the tasks sharing a bucket are finitely
many (`SendersAssumption`); that a required dimension weighs 1.0, as `require()` sets
it, and an offer is a sequence (`OffersAssumption`); that numbers are numbers
(`SecondAssumption`, `ThrottleAssumption`, `PyBounds`, `RouterBounds`) and relations
relations (`AcceptsAssumption`, `RolesAssumption`); and that the value standing for
nobody or nothing is none of the others (`MessagesAssumption`, `RegistryAssumption`,
`FeedAssumption`, `NoneAssumption`).

- `TypeInvariant` (BusProofs): the types, and neither channel over its capacity.
- `BacklogInvariant` (BusProofs): `BacklogBound`. It is inductive together with
  `BatchUnderRetry`, that only the retry loop has a batch: what is received
  then meets an empty batch, and a retry takes one out for each it puts back.
- `FateInvariant`, `OrderInvariant` (BusProofs): `OneFate` and
  `ArrivalOrder`. Neither is inductive alone. That a message taken off one queue
  is on no other follows from the order, in which its neighbours come strictly
  before and after it; that the order survives a new arrival follows from the
  newcomer being on no queue, which is its fate. `Fate` conjoins both with
  `BatchUnderRetry`, `AwaitsInLoop` (a message is in hand only while a loop
  routes, and was handed over) and `Ranked` (no rank is beyond the clock). The
  order is restated on sets of elements (`Line`), so that sequences appear only
  in `TakeFirst` and `PutLast`; `RouteFate` and `EnqueueFate` are the two steps
  that change the line, all others shrink it or leave it.
- `DrainLeavesNothingTheorem` (BusProofs): inductive as it stands, given the types,
  because no step of a drain's last two loops changes who is registered.
- `EvictsOldestTheorem` (BusProofs): an action property, from `Fate` and
  `Bounded`. Only `Hold` evicts; the bound excludes it during a retry, the line
  gives that the head of a full backlog is older than all the rest.
- `RegistrationViewTheorem` (BusRegistryProofs): requests are applied later than
  they are made. `RegInv` ties each command under way to the owner it came from
  (`CommandsOwned`), each id to one owner (`IdsKnown`), and each entry to one
  consumer (`EntriesDiffer`), so that a late or repeated removal hits its own
  entry or none.
- `BusImplementsDelivery` (BusRegistryProofs): the refinement. Under `OneFate` a
  message is open exactly if it was accepted, not handed over and not discarded
  (`OpenIsUnsettled`), so that no step needs to look at the three queues; `RegInv`
  gives that a registration adds one that was not there (`OneMoves`).
- `WeightsTheorem` (RouterProofs): `WeightsInRange`; each adjustment maps the range
  into itself, and every event an observer is told is one of the four.
- `BestWinsTheorem`, `NobodyPassedOverTheorem`, `StableTheorem`, `RouterTypeInvariant`
  (RouterProofs): all from `RouteInv`. What a route leads to is stated once, without
  the walk: `Outcome`, the best of the willing by `Outranks`, if anybody is willing.
  `RankedByRank` shows that the walk asks everyone who qualifies once and in that
  order, `WinnerIsBest` that its first taker is the outcome, `OneBest` that there is
  only one. The step that matters is the last observation: the winner's score can
  only rise (`WinnersScoreRises`) and the other willing consumers, being behind it,
  are told `skipped` and stay (`WhatTheyAreTold`), so the outcome survives what it
  taught (`OutcomeSurvives`). That is stronger than `Stable`, which follows. The type
  invariant says that whoever a route asked or chose is still registered.
- `PreferenceSurvivesTheorem` (RouterProofs): sums of weights that are never below
  zero are no less than any of them (`TotalAtLeast`), hence at least the floor, and
  a consumer that matches in nothing scores zero (`TotalZero`).
- `LearnsFromOutcomeTheorem` (RouterProofs): an action property, from `Reached`, that
  a route under way is at its outcome, and `WeightsMove`.
- `RateInvariant`, `ThrottleTypeInvariant` (ThrottleProofs): `RateHolds`, for
  any rate, burst and number of tasks. The invariant is a ledger: since any
  token was taken, the tokens taken and those still in the bucket are together
  at most a burst and what the rate brought in up to the last refill.
- `NoneWithheldTheorem` (ThrottleProofs): the other side of that ledger. Unless the
  bucket is full, since some token was taken everything the rate brought in was
  given out or is still there, exactly (`NothingForgotten`).
- `SleepsEnoughTheorem` (ThrottleProofs): `Refusals`: of each task that was refused and
  overtaken by none, that what the bucket holds and earns by the end of its sleep is
  a token (`Paid`). A task that fills the bucket up leaves it a token too.
- `SendsHoldTheorem` (ThrottleProofs): `Paired`: the n-th message comes after the n-th
  token and before the one as many further on as there are senders, so that the
  bound on tokens carries over to messages.
- `IdInvariant`, `LivingStayTheorem` (ConnectionProofs): every id in the table, in
  a snapshot or among the dead names the client that drew it, and a client in a
  list of the dead is closed for good. What a broadcast removes is then closed,
  and what a client removes is its own.
- `CounterTheorem`, `RegistryTypeInvariant` (ConnectionProofs): `Tally`. Every step that
  changes the table or the tasks between the table and the counter is a count of a
  finite set up or down by one; the rest is arithmetic modulo `Wrap` (`Congruent`).
  The type invariant says too that no id in the table, in a snapshot or among the dead
  is one that nobody drew.
- `StreamKeepsPlaceTheorem` (GrpcProofs): a command to deregister is on its way only
  for a client that asked or whose forwarder ended (`CommandAskedFor`), and a
  forwarder of a client that has not given up ends only when the bus has dropped
  the sender, which it does only on such a command.
- `NothingLostTheorem`, `GrpcTypeInvariant` (GrpcProofs): `HandInv` follows the receiver:
  it is parked in an entry, or with a forwarder that runs, and is open there. A
  client registers once (`RegistersOnce`), so that a bus that has let go of a client
  never takes it up again; a forwarder of a client that stays ends only after that,
  with its queue empty (`EndsEmpty`), and nothing comes in any more.
- `NothingLostTheorem`, `WsTypeInvariant` (WsProofs): the receiver of a registration exists as long as
  its relay (`ReceiverHeld`); a writer ends only because the client is gone or the
  relay ended, a relay only because its writer did or its sender was dropped with
  the queue empty, and a sender is dropped only for a client that is gone.

- `PyTypeInvariant` (PyBusProofs): each of the GIL and the mutex is with exactly the
  thread whose call says so (`LocksHeld`), and a drain is at a queue only while it
  calls back.
- `OnlyRaisersWaitTheorem` (PyBusProofs): `SomebodyComes`. A message in the queue of a
  callback that never raised has a thread that will yet pass that queue: the one
  that put it there, or another whose drain has not reached it.
- `PyNothingLostTheorem` (PyBusProofs): `OncePlaced`. The channel, the backlog, the
  batch under retry, the queues, the finished and what each drain holds are one family
  of sequences (`Places`) that between them hold every accepted message once; a step is
  a move from one member to another, or from one end of a member to the other. The one
  move of a whole member is the start of a drain, when the backlog becomes the batch:
  it needs that there is no batch left, because only the holder of the mutex has one
  (`BatchHeld`).

Some of this speaks of recursive definitions and of sorting for any length, where
one would use induction. The theorems of the library that offer it take an
operator as a parameter, which the provers cannot instantiate. `Least` replaces it:
that a set of natural numbers has a least element is a first-order fact
(`WFMin`), and an argument from the least counterexample needs nothing more.
For the same reason `Walk` is defined by the number of those ahead, and not by
`SortSeq`, and `Total` by a recursive function, and not by a fold.

Only model-checked: liveness (`DrainReturns`, `SendReturns`, `RegisterReturns`,
`HeldIsRetried`, `WedgedForGood` of `Bus`; `CallsReturn`, `LoopGoesOn`,
`GoneIsDeregistered` of the others). It rests on fairness, which is out of the
prover's reach.

## Not modelled

- Messages, codec and generated protobuf code: data without control. The C++
  integration is empty.
- `parse_dimensions`: a parser without state; that it gives every dimension the
  weight 1.0 and requires it is covered by `Router`'s required slots.
- The Python classes that wrap messages and dimensions: plain data.
- `is_empty()` of the Rust bus and the other readers: they change nothing.
- `DirectEndpoint`: `attach` and the `NotRegistered` error of a send without a handle.
  An endpoint that both produces and consumes is a relay of `Bus`.
- In the endpoint modules, a bus that goes away while they run: the errors of
  grpc.rs:95 and ws.rs:88. `Bus` has the end of the bus (`DropBus`) and what it does
  to those that wait for a reply.
- Accepting connections, TLS and the transport itself; the end of the server.
- The wait of a throttled sender ending (its liveness): a task may lose every
  race for a token, the code has no queue.
- Two buckets on one channel, and a throttled producer in `Bus`: a token delays
  a `SendCall`, and `Bus` lets it come at any time.

## Plan

Done: every component with control of its own has a module and a passing run; all
safety and action properties of all modules are proved, and that `Bus` implements
`Delivery`.

1. `Bus` over `Router`: state that each route of `Router` is a `Hand` or a `Hold`,
   from `BestWinsTheorem` and `NobodyPassedOverTheorem`.
2. `Feed` as an abstraction of `Bus`: a `Spec` of its own and the refinement.
3. Where liveness rests on an invariant (who waits for whom), prove that invariant.
