------------------------------ MODULE Throttle ------------------------------
(***************************************************************************)
(* The token bucket of src/components/endpoint/throttle.rs, shared through *)
(* a mutex by the clones of a ProducerHandle, and the tasks that pass it   *)
(* in wait_for_token() (src/components/router/envelope.rs) before they     *)
(* send.  A task that finds no token sleeps outside the lock for the time  *)
(* the missing part of a token takes, then tries again: another task may   *)
(* have been quicker.                                                      *)
(*                                                                         *)
(* The clock counts ticks, Second of them to a second.  Tokens are counted *)
(* in Second-ths, so that a tick brings in exactly rate of these parts.    *)
(***************************************************************************)
EXTENDS Integers, Sequences, FiniteSets

CONSTANTS Senders,   \* the tasks that send through clones of one handle
          Second,    \* ticks in a second; also the parts of a token
          Rates,     \* the rates a throttle may be built with, per second
          Bursts,    \* the bursts a throttle may be built with
          MaxTime,   \* bound: where the clock stops
          MaxGrants  \* bound: tokens given out

ASSUME SecondAssumption == Second \in Nat \ {0}
ASSUME SendersAssumption == IsFiniteSet(Senders)
ASSUME ThrottleAssumption == Rates \subseteq Nat /\ Bursts \subseteq Nat

VARIABLES rate, burst,  \* Throttle::new(rate, burst)
          tokens,       \* parts of tokens in the bucket
          lastRefill,   \* when they were counted
          now,
          task,         \* where each task stands
          wakeAt,       \* until when it sleeps
          grants,       \* history: when each token was taken
          sends,        \* history: when each message entered the channel
          seen          \* history: grants when the task was last refused, or -1

bucket == <<tokens, lastRefill>>
vars   == <<rate, burst, bucket, now, task, wakeAt, grants, sends, seen>>

TaskStates == {"idle", "trying", "sleeping", "granted", "panicked"}

Min2(a, b) == IF a < b THEN a ELSE b
\* A sleep() never ends early.
Bug_FloorDiv(a, b) == a \div b
CeilDiv(a, b) == (a + b - 1) \div b

Init == /\ rate \in Rates /\ burst \in Bursts
        /\ tokens = burst * Second /\ lastRefill = 0 /\ now = 0
        /\ task = [s \in Senders |-> "idle"]
        /\ wakeAt = [s \in Senders |-> 0]
        /\ grants = <<>> /\ sends = <<>>
        /\ seen = [s \in Senders |-> -1]

\* refill(): what the bucket holds at this moment
Bug_RefilledUncapped == tokens + (now - lastRefill) * rate
Bug_RefilledWholeTokens ==
  Min2(((tokens + (now - lastRefill) * rate) \div Second) * Second, burst * Second)
Refilled == Min2(tokens + (now - lastRefill) * rate, burst * Second)

Become(s, state) == task' = [task EXCEPT ![s] = state]

\* make_send(): every message passes the bucket first.
Call(s) == /\ task[s] = "idle"
           /\ Len(grants) + Cardinality({t \in Senders : task[t] \in {"trying", "sleeping"}})
                < MaxGrants
           /\ Become(s, "trying")
           /\ UNCHANGED <<rate, burst, bucket, now, wakeAt, grants, sends, seen>>

\* try_acquire(), under the lock.
Take(s) == /\ Refilled >= Second
           /\ tokens' = Refilled - Second
           /\ grants' = Append(grants, now)
           /\ seen' = [seen EXCEPT ![s] = -1]
           /\ Become(s, "granted")
           /\ UNCHANGED wakeAt

Sleep(s) == /\ Refilled < Second /\ rate > 0
            /\ tokens' = Refilled
            /\ wakeAt' = [wakeAt EXCEPT ![s] = now + CeilDiv(Second - Refilled, rate)]
            /\ seen' = [seen EXCEPT ![s] = Len(grants)]
            /\ Become(s, "sleeping")
            /\ UNCHANGED grants

\* A division by a rate of zero is infinite, and from_secs_f64 panics on it.
Panic(s) == /\ Refilled < Second /\ rate = 0
            /\ tokens' = Refilled
            /\ Become(s, "panicked")
            /\ UNCHANGED <<wakeAt, grants, seen>>

Bug_TryAcquireForgetsClock(s) ==
  /\ task[s] = "trying"
  /\ Take(s) \/ Sleep(s) \/ Panic(s)
  /\ lastRefill' = IF Refilled >= Second THEN now ELSE lastRefill
  /\ UNCHANGED <<rate, burst, now, sends>>

TryAcquire(s) == /\ task[s] = "trying"
                 /\ Take(s) \/ Sleep(s) \/ Panic(s)
                 /\ lastRefill' = now
                 /\ UNCHANGED <<rate, burst, now, sends>>

Wake(s) == /\ task[s] = "sleeping" /\ now >= wakeAt[s]
           /\ Become(s, "trying")
           /\ UNCHANGED <<rate, burst, bucket, now, wakeAt, grants, sends, seen>>

\* The send itself may have to wait for a slot, its token already spent.
Send(s) == /\ task[s] = "granted"
           /\ Become(s, "idle")
           /\ sends' = Append(sends, now)
           /\ UNCHANGED <<rate, burst, bucket, now, wakeAt, grants, seen>>

Tick == /\ now < MaxTime
        /\ now' = now + 1
        /\ UNCHANGED <<rate, burst, bucket, task, wakeAt, grants, sends, seen>>

Next == \/ \E s \in Senders : Call(s) \/ TryAcquire(s) \/ Wake(s) \/ Send(s)
        \/ Tick

Spec == Init /\ [][Next]_vars

-----------------------------------------------------------------------------
TypeOK ==
  /\ rate \in Rates /\ burst \in Bursts
  /\ tokens \in 0..burst * Second
  /\ now \in Nat /\ lastRefill \in 0..now
  /\ task \in [Senders -> TaskStates] /\ wakeAt \in [Senders -> Nat]
  /\ grants \in Seq(Nat) /\ sends \in Seq(Nat)
  /\ seen \in [Senders -> Int]

(* The rate holds over every stretch of time: between any two tokens taken *)
(* the bucket gave out no more than a full burst and what the rate brought *)
(* in, however many tasks share it and however they are woken.             *)
RateHolds ==
  \A i, j \in DOMAIN grants :
    i <= j => (j - i + 1) * Second <= burst * Second + rate * (grants[j] - grants[i])

(* What enters the channel may exceed that only by the tasks that hold a   *)
(* token while they wait for a slot.                                       *)
SendsHold ==
  \A i, j \in DOMAIN sends :
    i <= j => (j - i + 1) * Second
                <= (burst + Cardinality(Senders)) * Second + rate * (sends[j] - sends[i])

(* A task is sent to sleep only if a token now would break the rate over   *)
(* some stretch of time that ends now: the bucket forgets no part of a     *)
(* token it is owed.                                                       *)
NoneWithheld ==
  [][\A s \in Senders :
       burst > 0 /\ task[s] = "trying" /\ task'[s] = "sleeping" =>
         \E i \in DOMAIN grants :
           (Len(grants) - i + 2) * Second > burst * Second + rate * (now - grants[i])]_vars

(* A task that was sent to sleep and is refused again lost its token to    *)
(* another task: no sleep is too short, and none is in vain otherwise.     *)
SleepsEnough ==
  [][\A s \in Senders :
       burst > 0 /\ seen[s] >= 0 /\ task[s] = "trying" /\ task'[s] = "sleeping" =>
         Len(grants) > seen[s]]_vars
=============================================================================
