--------------------------- MODULE ThrottleProofs ---------------------------
(* Theorems about Throttle for every value of its constants. *)
EXTENDS Throttle, FiniteSetTheorems, TLAPS

(* What refill() finds: no more than the clock brought in, never above the *)
(* burst, never below zero.                                                *)
LEMMA RefilledBounds ==
  ASSUME TypeOK
  PROVE  /\ Refilled \in 0..burst * Second
         /\ Refilled <= tokens + (now - lastRefill) * rate
<1>1. /\ rate \in Nat /\ burst \in Nat /\ Second \in Nat /\ tokens \in Nat
      /\ now - lastRefill \in Nat
  BY ThrottleAssumption, SecondAssumption DEF TypeOK
<1>2. burst * Second \in Nat /\ (now - lastRefill) * rate \in Nat
  BY <1>1
<1>. QED BY <1>1, <1>2 DEF Refilled, Min2

(* The time a sleep takes is a natural number. *)
LEMMA CeilDivType ==
  ASSUME NEW a \in Nat, NEW b \in Nat \ {0}
  PROVE  CeilDiv(a, b) \in Nat
<1>1. a + b - 1 \in Nat
  OBVIOUS
<1>. QED BY <1>1 DEF CeilDiv

\* Every step keeps the types.
LEMMA TypeStep == TypeOK /\ [Next]_vars => TypeOK'
<1> SUFFICES ASSUME TypeOK, [Next]_vars PROVE TypeOK'
  OBVIOUS
<1>0. Second \in Nat \ {0} /\ rate \in Nat /\ burst \in Nat
  BY SecondAssumption, ThrottleAssumption DEF TypeOK
<1>1. ASSUME NEW s \in Senders, Call(s) \/ Wake(s) PROVE TypeOK'
  BY <1>1 DEF TypeOK, Call, Wake, Become, TaskStates, bucket
<1>2. ASSUME NEW s \in Senders, TryAcquire(s) PROVE TypeOK'
  <2>1. UNCHANGED <<rate, burst, now, sends>> /\ lastRefill' = now
    BY <1>2 DEF TryAcquire
  <2>2. tokens' \in 0..burst * Second
    BY <1>0, <1>2, RefilledBounds DEF TryAcquire, Take, Sleep, Panic
  <2>3. task' \in [Senders -> TaskStates]
    BY <1>2 DEF TryAcquire, Take, Sleep, Panic, Become, TaskStates, TypeOK
  <2>4. wakeAt' \in [Senders -> Nat]
    <3>1. CASE UNCHANGED wakeAt
      BY <3>1 DEF TypeOK
    <3>2. CASE Sleep(s)
      <4>1. Second - Refilled \in Nat /\ rate \in Nat \ {0}
        BY <1>0, <3>2, RefilledBounds DEF Sleep
      <4>2. now + CeilDiv(Second - Refilled, rate) \in Nat
        <5>1. CeilDiv(Second - Refilled, rate) \in Nat
          BY <4>1, CeilDivType
        <5>2. now \in Nat
          BY DEF TypeOK
        <5>. QED BY <5>1, <5>2
      <4>. QED BY <3>2, <4>2 DEF Sleep, TypeOK
    <3>. QED BY <1>2, <3>1, <3>2 DEF TryAcquire, Take, Panic
  <2>5. grants' \in Seq(Nat) /\ seen' \in [Senders -> Int]
    <3>1. CASE Take(s)
      BY <3>1 DEF Take, TypeOK
    <3>2. CASE Sleep(s)
      <4>1. Len(grants) \in Int
        BY DEF TypeOK
      <4>. QED BY <3>2, <4>1 DEF Sleep, TypeOK
    <3>3. CASE Panic(s)
      BY <3>3 DEF Panic, TypeOK
    <3>. QED BY <1>2, <3>1, <3>2, <3>3 DEF TryAcquire
  <2>. QED BY <2>1, <2>2, <2>3, <2>4, <2>5 DEF TypeOK
<1>3. ASSUME NEW s \in Senders, Send(s) PROVE TypeOK'
  <2>1. sends' \in Seq(Nat)
    BY <1>3 DEF TypeOK, Send
  <2>2. task' \in [Senders -> TaskStates]
    BY <1>3 DEF TypeOK, Send, Become, TaskStates
  <2>. QED BY <1>3, <2>1, <2>2 DEF TypeOK, Send, bucket
<1>4. CASE Tick
  BY <1>4 DEF TypeOK, Tick, bucket
<1>5. CASE UNCHANGED vars
  BY <1>5 DEF TypeOK, vars, bucket
<1>. QED BY <1>1, <1>2, <1>3, <1>4, <1>5 DEF Next

(* The argument for the rate: ever since any token was taken, the tokens   *)
(* taken and those still in the bucket together are no more than a full    *)
(* burst and what the rate brought in up to the last refill.               *)
Accounted(i) ==
  /\ grants[i] <= lastRefill
  /\ (Len(grants) - i + 1) * Second + tokens
       <= burst * Second + rate * (lastRefill - grants[i])

Ledger == TypeOK /\ RateHolds /\ \A i \in DOMAIN grants : Accounted(i)

\* A sequence with one more at its end.
LEMMA AppendFacts ==
  ASSUME NEW s \in Seq(Nat), NEW e \in Nat
  PROVE  /\ Len(Append(s, e)) = Len(s) + 1
         /\ DOMAIN Append(s, e) = DOMAIN s \cup {Len(s) + 1}
         /\ Append(s, e)[Len(s) + 1] = e
         /\ \A i \in DOMAIN s : Append(s, e)[i] = s[i]
<1>1. /\ Append(s, e) \in Seq(Nat)
      /\ Len(Append(s, e)) = Len(s) + 1
      /\ \A i \in 1..Len(s) : Append(s, e)[i] = s[i]
      /\ Append(s, e)[Len(s) + 1] = e
  OBVIOUS
<1>2. DOMAIN Append(s, e) = 1..Len(s) + 1 /\ DOMAIN s = 1..Len(s) /\ Len(s) \in Nat
  BY <1>1
<1>. QED BY <1>1, <1>2

\* Every step keeps the ledger: a refill brings no more than the rate allows.
LEMMA LedgerStep == Ledger /\ [Next]_vars => Ledger'
<1> SUFFICES ASSUME Ledger, [Next]_vars PROVE Ledger'
  OBVIOUS
<1>0. TypeOK /\ TypeOK'
  BY TypeStep DEF Ledger
<1>1. /\ Second \in Nat \ {0} /\ rate \in Nat /\ burst \in Nat
      /\ tokens \in Nat /\ now \in Nat /\ lastRefill \in 0..now
      /\ grants \in Seq(Nat)
  BY <1>0, SecondAssumption, ThrottleAssumption DEF TypeOK
<1>2. CASE UNCHANGED <<rate, burst, bucket, grants>>
  BY <1>0, <1>2 DEF Ledger, RateHolds, Accounted, bucket
<1>3. ASSUME NEW s \in Senders, TryAcquire(s) PROVE Ledger'
  <2>0. UNCHANGED <<rate, burst, now>> /\ lastRefill' = now
    BY <1>3 DEF TryAcquire
  \* After the refill the accounts still balance, now up to this moment.
  <2>1. ASSUME NEW i \in DOMAIN grants
        PROVE  /\ grants[i] \in Nat /\ grants[i] <= now
               /\ (Len(grants) - i + 1) * Second + Refilled
                    <= burst * Second + rate * (now - grants[i])
    <3>1. grants[i] \in Nat /\ i \in Nat /\ Len(grants) \in Nat
      BY <1>1
    <3>2. Accounted(i)
      BY DEF Ledger
    <3>3. Refilled \in Nat /\ Refilled <= tokens + (now - lastRefill) * rate
      BY <1>0, <1>1, RefilledBounds
    <3> DEFINE taken == (Len(grants) - i + 1) * Second
               full  == burst * Second
               then  == rate * (lastRefill - grants[i])
               since == (now - lastRefill) * rate
               both  == rate * (now - grants[i])
    <3>4. taken \in Int /\ full \in Int /\ then \in Int /\ since \in Int /\ both \in Int
      BY <1>1, <3>1
    <3>5. then + since = both
      BY <1>1, <3>1
    <3>6. taken + tokens <= full + then
      BY <3>2 DEF Accounted
    <3>7. Refilled <= tokens + since
      BY <3>3
    <3> HIDE DEF taken, full, then, since, both
    <3>8. taken + Refilled <= full + both
      BY <1>1, <3>3, <3>4, <3>5, <3>6, <3>7
    <3>9. grants[i] <= now
      BY <1>1, <3>1, <3>2 DEF Accounted
    <3>. QED BY <3>1, <3>8, <3>9 DEF taken, full, both
  <2>2. CASE UNCHANGED grants /\ tokens' = Refilled
    <3>1. \A i \in DOMAIN grants : Accounted(i)'
      BY <1>1, <2>0, <2>1, <2>2 DEF Accounted
    <3>. QED BY <1>0, <2>0, <2>2, <3>1 DEF Ledger, RateHolds
  <2>3. CASE Take(s)
    <3>1. /\ grants' = Append(grants, now) /\ tokens' = Refilled - Second
          /\ Refilled >= Second /\ Refilled \in 0..burst * Second
      BY <1>0, <2>3, RefilledBounds DEF Take
    <3>2. /\ Len(grants') = Len(grants) + 1
          /\ DOMAIN grants' = DOMAIN grants \cup {Len(grants) + 1}
          /\ grants'[Len(grants) + 1] = now
          /\ \A i \in DOMAIN grants : grants'[i] = grants[i]
      BY <1>1, <3>1, AppendFacts
    <3>3. ASSUME NEW i \in DOMAIN grants
          PROVE  /\ (Len(grants') - i + 1) * Second + tokens'
                      <= burst * Second + rate * (now - grants[i])
                 /\ (Len(grants') - i + 1) * Second
                      <= burst * Second + rate * (now - grants[i])
      <4> DEFINE before == (Len(grants) - i + 1) * Second
                 after  == (Len(grants') - i + 1) * Second
                 limit  == burst * Second + rate * (now - grants[i])
      <4>0. i \in Nat /\ Len(grants) \in Nat /\ grants[i] \in Nat
        BY <1>1
      <4>1. before \in Int /\ after \in Int /\ limit \in Int
        <5>1. Len(grants) - i + 1 \in Int /\ Len(grants') - i + 1 \in Int
          BY <3>2, <4>0
        <5>2. before \in Int /\ after \in Int
          BY <1>1, <5>1
        <5>3. burst * Second \in Int /\ rate * (now - grants[i]) \in Int
          BY <1>1, <4>0
        <5>. QED BY <5>2, <5>3
      <4>2. after = before + Second
        BY <1>1, <3>2, <4>0
      <4>3. before + Refilled <= limit
        BY <2>1
      <4>4. Refilled \in Int /\ Second \in Nat /\ Refilled >= Second
            /\ tokens' = Refilled - Second
        BY <1>1, <3>1
      <4> HIDE DEF before, after, limit
      <4>5. after + tokens' <= limit /\ after <= limit
        BY <4>1, <4>2, <4>3, <4>4
      <4>. QED BY <4>5 DEF after, limit
    <3>4. \A i \in DOMAIN grants' : Accounted(i)'
      <4>1. ASSUME NEW i \in DOMAIN grants PROVE Accounted(i)'
        BY <1>1, <2>0, <2>1, <3>2, <3>3 DEF Accounted
      <4>2. ASSUME NEW k, k = Len(grants) + 1 PROVE Accounted(k)'
        <5>1. rate * (now - now) = 0 /\ burst * Second \in Int
          BY <1>1
        <5>2. (Len(grants') - k + 1) * Second = Second
          BY <1>1, <3>2, <4>2
        <5>. QED BY <1>1, <2>0, <3>1, <3>2, <4>2, <5>1, <5>2 DEF Accounted
      <4>. QED BY <3>2, <4>1, <4>2
    <3>5. RateHolds'
      <4> SUFFICES ASSUME NEW i \in DOMAIN grants', NEW j \in DOMAIN grants', i <= j
                   PROVE  (j - i + 1) * Second
                            <= burst * Second + rate * (grants'[j] - grants'[i])
        BY <2>0 DEF RateHolds
      <4>1. CASE i \in DOMAIN grants /\ j \in DOMAIN grants
        BY <3>2, <4>1 DEF Ledger, RateHolds
      <4>2. CASE i \in DOMAIN grants /\ j = Len(grants) + 1
        BY <3>2, <3>3, <4>2
      <4>3. CASE i = Len(grants) + 1
        <5>1. j = i
          BY <1>1, <3>2, <4>3
        <5>2. (j - i + 1) * Second = Second /\ grants'[j] - grants'[i] = 0
          BY <1>1, <3>2, <4>3, <5>1
        <5>3. rate * 0 = 0 /\ burst * Second \in Int
          BY <1>1
        <5>4. rate * (grants'[j] - grants'[i]) = 0 BY <5>2, <5>3
        <5>5. Second \in Int /\ Second <= burst * Second BY <1>1, <3>1
        <5>. QED BY <5>2, <5>3, <5>4, <5>5
      <4>. QED BY <3>2, <4>1, <4>2, <4>3
    <3>. QED BY <1>0, <3>4, <3>5 DEF Ledger
  <2>. QED BY <1>3, <2>2, <2>3 DEF TryAcquire, Sleep, Panic
<1>. QED BY <1>2, <1>3 DEF Next, Call, Wake, Send, Tick, vars

(* Over every stretch of time the bucket of throttle.rs lets pass at most  *)
(* a full burst and what the rate brought in.                              *)
THEOREM RateInvariant == Spec => []RateHolds
<1>1. Init => Ledger
  BY SecondAssumption, ThrottleAssumption
  DEF Init, Ledger, TypeOK, RateHolds, TaskStates
<1>2. Ledger => RateHolds
  BY DEF Ledger
<1>. QED BY <1>1, <1>2, LedgerStep, PTL DEF Spec

(* The tokens never go below zero or above the burst, however the tasks    *)
(* that share the bucket interleave.                                       *)
THEOREM ThrottleTypeInvariant == Spec => []TypeOK
<1>1. Init => TypeOK
  BY SecondAssumption, ThrottleAssumption DEF Init, TypeOK, TaskStates
<1>. QED BY <1>1, TypeStep, PTL DEF Spec

-----------------------------------------------------------------------------
(* What is owed is paid: the bucket forgets nothing                         *)

\* One more of a thing that counts n.
LEMMA OneMore == \A k \in Int, n \in Nat : (k + 1) * n = k * n + n
  OBVIOUS

LEMMA TimesInt == \A a, b \in Int : a * b \in Int
  OBVIOUS

\* What a rate brings in over two stretches it brings in over both.
LEMMA Stretches == \A r, a, b, c \in Int : r * (b - a) + (c - b) * r = r * (c - a)
  OBVIOUS

\* The constants of a state, and what a refill finds in it.
LEMMA Numbers ==
  ASSUME TypeOK
  PROVE  /\ Second \in Nat \ {0} /\ rate \in Nat /\ burst \in Nat
         /\ tokens \in Nat /\ now \in Nat /\ lastRefill \in Nat /\ lastRefill <= now
         /\ burst * Second \in Nat /\ (now - lastRefill) * rate \in Nat
         /\ Refilled \in Nat
         /\ Refilled = burst * Second \/ Refilled = tokens + (now - lastRefill) * rate
         /\ Refilled <= burst * Second
         /\ tokens = burst * Second => Refilled = burst * Second
<1>1. /\ Second \in Nat \ {0} /\ rate \in Nat /\ burst \in Nat
      /\ tokens \in Nat /\ now \in Nat /\ lastRefill \in Nat /\ lastRefill <= now
  BY SecondAssumption, ThrottleAssumption DEF TypeOK
<1>2. burst * Second \in Nat /\ (now - lastRefill) * rate \in Nat
  BY <1>1
<1>. QED BY <1>1, <1>2 DEF Refilled, Min2

(* Ever since some token was taken, or the bucket was full, everything the *)
(* rate brought in has been given out or is in the bucket.                 *)
Balanced(i) == (Len(grants) - i + 1) * Second + tokens
                 = burst * Second + rate * (lastRefill - grants[i])
NothingForgotten == tokens = burst * Second \/ \E i \in DOMAIN grants : Balanced(i)

\* A token that was taken balances until the bucket is full.
LEMMA BalanceRefilled ==
  ASSUME TypeOK, NEW i \in DOMAIN grants, Balanced(i), Refilled # burst * Second
  PROVE  (Len(grants) - i + 1) * Second + Refilled = burst * Second + rate * (now - grants[i])
<1> DEFINE taken == (Len(grants) - i + 1) * Second
           full  == burst * Second
           then  == rate * (lastRefill - grants[i])
           since == (now - lastRefill) * rate
           both  == rate * (now - grants[i])
<1>0. i \in Nat /\ Len(grants) \in Nat /\ grants[i] \in Nat
  BY DEF TypeOK
<1>1. taken \in Int /\ full \in Int /\ then \in Int /\ since \in Int /\ both \in Int
      /\ Refilled \in Nat /\ tokens \in Nat /\ Refilled = tokens + since
  <2>0. Second \in Int /\ rate \in Int /\ now \in Int /\ lastRefill \in Int
    BY Numbers
  <2>1. /\ Len(grants) - i + 1 \in Int /\ lastRefill - grants[i] \in Int
        /\ now - grants[i] \in Int
    BY <1>0, <2>0
  <2>2. taken \in Int /\ then \in Int /\ both \in Int
    <3>. QED BY <2>0, <2>1, TimesInt
  <2>. QED BY <2>2, Numbers
<1>2. then + since = both
  <2>1. rate \in Int /\ grants[i] \in Int /\ lastRefill \in Int /\ now \in Int BY <1>0, Numbers
  <2>. QED BY <2>1, Stretches
<1>3. taken + tokens = full + then
  BY DEF Balanced
<1> HIDE DEF taken, full, then, since, both
<1>4. taken + Refilled = full + both
  BY <1>1, <1>2, <1>3
<1>. QED BY <1>4 DEF taken, full, both

\* Every step keeps the balance.
LEMMA ForgottenStep ==
  ASSUME TypeOK, TypeOK', NothingForgotten, [Next]_vars
  PROVE  NothingForgotten'
<1>1. CASE UNCHANGED <<rate, burst, bucket, grants>>
  BY <1>1 DEF NothingForgotten, Balanced, bucket
<1>2. ASSUME NEW s \in Senders, TryAcquire(s) PROVE NothingForgotten'
  <2>0. UNCHANGED <<rate, burst, now>> /\ lastRefill' = now
    BY <1>2 DEF TryAcquire
  <2>1. CASE UNCHANGED grants /\ tokens' = Refilled
    <3>1. CASE Refilled = burst * Second
      BY <2>0, <2>1, <3>1 DEF NothingForgotten
    <3>2. CASE Refilled # burst * Second
      <4>1. PICK i \in DOMAIN grants : Balanced(i)
        BY <3>2, Numbers DEF NothingForgotten
      <4>2. (Len(grants) - i + 1) * Second + Refilled = burst * Second + rate * (now - grants[i])
        BY <3>2, <4>1, BalanceRefilled
      <4>. QED BY <2>0, <2>1, <4>2 DEF NothingForgotten, Balanced
    <3>. QED BY <3>1, <3>2
  <2>2. CASE Take(s)
    <3>0. /\ grants' = Append(grants, now) /\ tokens' = Refilled - Second
          /\ grants \in Seq(Nat) /\ now \in Nat /\ Len(grants) \in Nat
      BY <2>2, Numbers DEF Take, TypeOK
    <3>1. /\ Len(grants') = Len(grants) + 1
          /\ DOMAIN grants' = DOMAIN grants \cup {Len(grants) + 1}
          /\ grants'[Len(grants) + 1] = now
          /\ \A i \in DOMAIN grants : grants'[i] = grants[i]
      BY <3>0, AppendFacts
    <3>2. CASE Refilled = burst * Second
      <4> DEFINE n == Len(grants')
      <4>1. n \in DOMAIN grants' /\ grants'[n] = now /\ n \in Nat
        BY <3>0, <3>1
      <4>2. (n - n + 1) * Second = Second /\ rate * (now - now) = 0
        BY <4>1, Numbers
      <4>3. (n - n + 1) * Second + tokens' = burst * Second + rate * (now - now)
        BY <3>0, <3>2, <4>2, Numbers
      <4>. QED BY <2>0, <4>1, <4>3 DEF NothingForgotten, Balanced
    <3>3. CASE Refilled # burst * Second
      <4>1. PICK i \in DOMAIN grants : Balanced(i)
        BY <3>3, Numbers DEF NothingForgotten
      <4>2. (Len(grants) - i + 1) * Second + Refilled = burst * Second + rate * (now - grants[i])
        BY <3>3, <4>1, BalanceRefilled
      <4>3. i \in Nat /\ grants[i] \in Nat BY <3>0
      <4>4. (Len(grants') - i + 1) * Second = (Len(grants) - i + 1) * Second + Second
        <5>1. Len(grants) - i + 1 \in Int /\ Len(grants') - i + 1 = (Len(grants) - i + 1) + 1
          BY <3>0, <3>1, <4>3
        <5>. QED BY <5>1, OneMore, Numbers
      <4> DEFINE taken == (Len(grants) - i + 1) * Second
                 limit == burst * Second + rate * (now - grants[i])
      <4>5. taken \in Int /\ limit \in Int
        <5>1. Len(grants) - i + 1 \in Int /\ now - grants[i] \in Int BY <3>0, <4>3
        <5>2. Second \in Int /\ rate \in Int /\ burst * Second \in Int BY Numbers
        <5>3. taken \in Int /\ rate * (now - grants[i]) \in Int BY <5>1, <5>2, TimesInt
        <5>. QED BY <5>2, <5>3
      <4>6. taken + Second + (Refilled - Second) = limit
        <5> HIDE DEF taken, limit
        <5>1. taken + Refilled = limit BY <4>2 DEF taken, limit
        <5>. QED BY <4>5, <5>1, Numbers
      <4>7. (Len(grants') - i + 1) * Second + tokens' = burst * Second + rate * (now - grants'[i])
        BY <3>0, <3>1, <4>4, <4>6
      <4>. QED BY <2>0, <3>1, <4>7 DEF NothingForgotten, Balanced
    <3>. QED BY <3>2, <3>3
  <2>. QED BY <1>2, <2>1, <2>2 DEF TryAcquire, Sleep, Panic
<1>. QED BY <1>1, <1>2 DEF Next, Call, Wake, Send, Tick, vars

\* A task that goes to sleep found less than a token, though nothing was forgotten.
LEMMA NoneWithheldStep ==
  ASSUME TypeOK, NothingForgotten, [Next]_vars, NEW s \in Senders,
         burst > 0, task[s] = "trying", task'[s] = "sleeping"
  PROVE  \E i \in DOMAIN grants :
           (Len(grants) - i + 2) * Second > burst * Second + rate * (now - grants[i])
<1>1. Refilled < Second
  BY DEF Next, Call, TryAcquire, Take, Sleep, Panic, Wake, Send, Tick, Become, TypeOK, vars
<1>2. Refilled < burst * Second
  <2>1. burst * Second >= Second BY Numbers
  <2>. QED BY <1>1, <2>1, Numbers
<1>3. PICK i \in DOMAIN grants : Balanced(i)
  BY <1>2, Numbers DEF NothingForgotten
<1>4. (Len(grants) - i + 1) * Second + Refilled = burst * Second + rate * (now - grants[i])
  BY <1>2, <1>3, Numbers, BalanceRefilled
<1>5. i \in Nat /\ Len(grants) \in Nat /\ grants[i] \in Nat
  BY DEF TypeOK
<1>6. (Len(grants) - i + 2) * Second = (Len(grants) - i + 1) * Second + Second
  <2>1. Len(grants) - i + 1 \in Int /\ Len(grants) - i + 2 = (Len(grants) - i + 1) + 1
    BY <1>5
  <2>. QED BY <2>1, OneMore, Numbers
<1> DEFINE taken == (Len(grants) - i + 1) * Second
           limit == burst * Second + rate * (now - grants[i])
<1>7. taken \in Int /\ limit \in Int
  <2>1. Second \in Int /\ rate \in Int /\ now \in Int /\ burst * Second \in Int BY Numbers
  <2> HIDE DEF taken, limit
  <2>2. Len(grants) - i + 1 \in Int /\ now - grants[i] \in Int BY <1>5, <2>1
  <2>3. (Len(grants) - i + 1) * Second \in Int /\ rate * (now - grants[i]) \in Int
    BY <2>1, <2>2, TimesInt
  <2>. QED BY <2>1, <2>3 DEF taken, limit
<1>8. taken + Second > limit
  <2>1. taken + Refilled = limit BY <1>4
  <2> HIDE DEF taken, limit
  <2>. QED BY <1>1, <1>7, <2>1, Numbers
<1>. QED BY <1>6, <1>8

(* A task is sent to sleep only if a token now would break the rate over   *)
(* some stretch of time that ends now, whatever the rate, the burst and    *)
(* the other tasks: no part of a token is forgotten between two refills.   *)
THEOREM NoneWithheldTheorem == Spec => NoneWithheld
<1>1. Init => NothingForgotten
  BY DEF Init, NothingForgotten
<1>2. TypeOK /\ TypeOK' /\ NothingForgotten /\ [Next]_vars => NothingForgotten'
  BY ForgottenStep
<1>3. TypeOK /\ NothingForgotten /\ [Next]_vars =>
        [\A s \in Senders :
           burst > 0 /\ task[s] = "trying" /\ task'[s] = "sleeping" =>
             \E i \in DOMAIN grants :
               (Len(grants) - i + 2) * Second > burst * Second + rate * (now - grants[i])]_vars
  BY NoneWithheldStep
<1>. QED BY <1>1, <1>2, <1>3, ThrottleTypeInvariant, PTL DEF Spec, NoneWithheld

-----------------------------------------------------------------------------
(* No sleep is too short                                                    *)

\* When the sleep ends the bucket has a token, unless another task got it.
Paid(s) == (wakeAt[s] - lastRefill) * rate + tokens >= Second

\* What is known of a task since it was refused.
Refusals ==
  \A s \in Senders : seen[s] >= 0 =>
    /\ rate > 0 /\ seen[s] <= Len(grants)
    /\ task[s] \in {"trying", "sleeping"}
    /\ task[s] = "trying" => wakeAt[s] <= now
    /\ burst > 0 /\ seen[s] = Len(grants) => Paid(s)

\* A ceiling is not below the quotient.
LEMMA CeilCovers ==
  ASSUME NEW a \in Nat, NEW b \in Nat \ {0}
  PROVE  CeilDiv(a, b) * b >= a
<1> DEFINE x == a + b - 1
           q == x \div b
           r == x % b
<1>1. x \in Nat
  OBVIOUS
<1>2. q \in Nat /\ r \in 0..b - 1 /\ x = b * q + r
  <2> HIDE DEF x
  <2>. QED BY <1>1
<1>3. b * q \in Nat /\ q * b = b * q BY <1>2
<1> HIDE DEF q, r
<1>4. q * b >= a BY <1>2, <1>3
<1>. QED BY <1>4 DEF CeilDiv, q

\* A refill that does not fill the bucket brings in exactly what is owed.
LEMMA RefillPays ==
  ASSUME TypeOK, NEW s \in Senders, Paid(s), Refilled # burst * Second
  PROVE  (wakeAt[s] - now) * rate + Refilled >= Second
<1>1. /\ Second \in Int /\ rate \in Int /\ now \in Int /\ lastRefill \in Int /\ tokens \in Int
      /\ Refilled = tokens + (now - lastRefill) * rate
  BY Numbers
<1>2. wakeAt[s] \in Int BY DEF TypeOK
<1>3. (wakeAt[s] - now) * rate + (now - lastRefill) * rate = (wakeAt[s] - lastRefill) * rate
  BY <1>1, <1>2
<1> DEFINE rest  == (wakeAt[s] - now) * rate
           since == (now - lastRefill) * rate
           all   == (wakeAt[s] - lastRefill) * rate
<1>4. rest \in Int /\ since \in Int /\ all \in Int
  <2>1. wakeAt[s] - now \in Int /\ now - lastRefill \in Int /\ wakeAt[s] - lastRefill \in Int
    BY <1>1, <1>2
  <2>2. \A k, n \in Int : k * n \in Int OBVIOUS
  <2>. QED BY <1>1, <2>1, <2>2
<1>5. rest + since = all /\ all + tokens >= Second /\ Refilled = tokens + since
  BY <1>1, <1>3 DEF Paid
<1> HIDE DEF rest, since, all
<1>6. rest + Refilled >= Second BY <1>1, <1>4, <1>5
<1>. QED BY <1>6 DEF rest

\* With a token owed, and its time come, the bucket has it.
LEMMA PaidInTime ==
  ASSUME TypeOK, NEW s \in Senders, Paid(s), burst > 0, wakeAt[s] <= now
  PROVE  Refilled >= Second
<1>1. CASE Refilled = burst * Second
  <2>1. burst * Second >= Second BY Numbers
  <2>. QED BY <1>1, <2>1
<1>2. CASE Refilled # burst * Second
  <2>1. (wakeAt[s] - now) * rate + Refilled >= Second BY <1>2, RefillPays
  <2>2. wakeAt[s] - now \in Int /\ wakeAt[s] - now <= 0 /\ rate \in Nat
    BY Numbers DEF TypeOK
  <2>3. (wakeAt[s] - now) * rate \in Int /\ (wakeAt[s] - now) * rate <= 0
    <3>1. \A k \in Int, n \in Nat : k <= 0 => k * n \in Int /\ k * n <= 0 OBVIOUS
    <3>. QED BY <2>2, <3>1
  <2> DEFINE gone == (wakeAt[s] - now) * rate
  <2> HIDE DEF gone
  <2>4. gone \in Int /\ gone <= 0 /\ gone + Refilled >= Second BY <2>1, <2>3 DEF gone
  <2>5. Refilled \in Nat /\ Second \in Nat BY Numbers
  <2>. QED BY <2>4, <2>5
<1>. QED BY <1>1, <1>2

\* Every step keeps what is known of those that were refused.
LEMMA RefusalStep ==
  ASSUME TypeOK, TypeOK', Refusals, [Next]_vars
  PROVE  Refusals'
<1>0. /\ task \in [Senders -> TaskStates] /\ wakeAt \in [Senders -> Nat]
      /\ seen \in [Senders -> Int] /\ grants \in Seq(Nat) /\ Len(grants) \in Nat
      /\ now \in Nat
  BY DEF TypeOK
<1>1. ASSUME NEW t \in Senders, Call(t) \/ Send(t) \/ Wake(t) PROVE Refusals'
  <2>1. /\ UNCHANGED <<rate, burst, tokens, lastRefill, now, wakeAt, grants, seen>>
        /\ \A s \in Senders : s # t => task'[s] = task[s]
    BY <1>0, <1>1 DEF Call, Send, Wake, Become, bucket
  <2>2. ASSUME seen[t] >= 0 PROVE task'[t] = "trying" /\ wakeAt[t] <= now
    BY <1>0, <1>1, <2>2 DEF Call, Send, Wake, Become, Refusals
  <2>. QED BY <1>0, <2>1, <2>2 DEF Refusals, Paid
<1>2. CASE Tick \/ UNCHANGED vars
  <2>1. /\ UNCHANGED <<rate, burst, tokens, lastRefill, task, wakeAt, grants, seen>>
        /\ now' \in Nat /\ now' >= now
    BY <1>0, <1>2 DEF Tick, vars, bucket
  <2>. QED BY <1>0, <2>1 DEF Refusals, Paid
<1>3. ASSUME NEW t \in Senders, TryAcquire(t) PROVE Refusals'
  <2>0. UNCHANGED <<rate, burst, now>> /\ lastRefill' = now
    BY <1>3 DEF TryAcquire
  <2>1. CASE Take(t)
    <3>1. /\ Len(grants') = Len(grants) + 1 /\ seen'[t] = -1 /\ UNCHANGED wakeAt
          /\ \A s \in Senders : s # t => task'[s] = task[s] /\ seen'[s] = seen[s]
      BY <1>0, <2>1, AppendFacts DEF Take, Become
    <3>2. ASSUME NEW s \in Senders, seen'[s] >= 0
          PROVE  /\ rate' > 0 /\ seen'[s] <= Len(grants')
                 /\ task'[s] \in {"trying", "sleeping"}
                 /\ task'[s] = "trying" => wakeAt'[s] <= now'
                 /\ ~(burst' > 0 /\ seen'[s] = Len(grants'))
      <4>1. s # t /\ seen'[s] = seen[s] /\ task'[s] = task[s] BY <3>1, <3>2
      <4>2. seen[s] \in Int /\ seen[s] <= Len(grants) BY <1>0, <3>2, <4>1 DEF Refusals
      <4>. QED BY <1>0, <2>0, <3>1, <3>2, <4>1, <4>2 DEF Refusals
    <3>. QED BY <3>2 DEF Refusals
  <2>2. CASE Panic(t)
    <3>1. rate = 0 /\ UNCHANGED seen BY <2>2 DEF Panic
    <3>. QED BY <2>0, <3>1 DEF Refusals
  <2>3. CASE Sleep(t)
    <3>1. /\ Refilled < Second /\ rate > 0 /\ tokens' = Refilled /\ UNCHANGED grants
          /\ wakeAt'[t] = now + CeilDiv(Second - Refilled, rate)
          /\ seen'[t] = Len(grants) /\ task'[t] = "sleeping"
          /\ \A s \in Senders : s # t => /\ task'[s] = task[s] /\ seen'[s] = seen[s]
                                         /\ wakeAt'[s] = wakeAt[s]
      BY <1>0, <2>3 DEF Sleep, Become
    <3>2. Paid(t)'
      <4> DEFINE pause == CeilDiv(Second - Refilled, rate)
      <4>1. Second - Refilled \in Nat /\ rate \in Nat \ {0} /\ Second \in Nat /\ Refilled \in Nat
        BY <3>1, Numbers
      <4>2. pause \in Nat /\ pause * rate >= Second - Refilled
        BY <4>1, CeilDivType, CeilCovers
      <4> HIDE DEF pause
      <4>3. (now + pause) - now = pause BY <1>0, <4>2
      <4>4. pause * rate \in Nat BY <4>1, <4>2
      <4>5. pause * rate + Refilled >= Second BY <4>1, <4>2, <4>4
      <4>. QED BY <2>0, <3>1, <4>3, <4>5 DEF Paid, pause
    <3>3. ASSUME NEW s \in Senders, s # t, burst > 0, Paid(s) PROVE Paid(s)'
      <4>1. Refilled # burst * Second
        <5>1. burst * Second >= Second BY <3>3, Numbers
        <5>. QED BY <3>1, <5>1, Numbers
      <4>2. (wakeAt[s] - now) * rate + Refilled >= Second
        BY <3>3, <4>1, RefillPays
      <4>. QED BY <2>0, <3>1, <3>3, <4>2 DEF Paid
    <3>4. ASSUME NEW s \in Senders, seen'[s] >= 0
          PROVE  /\ rate' > 0 /\ seen'[s] <= Len(grants')
                 /\ task'[s] \in {"trying", "sleeping"}
                 /\ task'[s] = "trying" => wakeAt'[s] <= now'
                 /\ burst' > 0 /\ seen'[s] = Len(grants') => Paid(s)'
      <4>1. CASE s = t BY <1>0, <2>0, <3>1, <3>2, <4>1
      <4>2. CASE s # t BY <2>0, <3>1, <3>3, <3>4, <4>2 DEF Refusals
      <4>. QED BY <4>1, <4>2
    <3>. QED BY <3>4 DEF Refusals
  <2>. QED BY <1>3, <2>1, <2>2, <2>3 DEF TryAcquire
<1>. QED BY <1>1, <1>2, <1>3 DEF Next

(* A task that was sent to sleep and is refused again lost its token to    *)
(* another task: however often others refill the bucket meanwhile, what    *)
(* the sleep was computed for has come in when it ends.                    *)
THEOREM SleepsEnoughTheorem == Spec => SleepsEnough
<1>1. Init => Refusals
  BY DEF Init, Refusals
<1>2. TypeOK /\ TypeOK' /\ Refusals /\ [Next]_vars => Refusals'
  BY RefusalStep
<1>3. ASSUME TypeOK, Refusals, [Next]_vars, NEW s \in Senders,
             burst > 0, seen[s] >= 0, task[s] = "trying", task'[s] = "sleeping"
      PROVE  Len(grants) > seen[s]
  <2>1. Refilled < Second
    BY <1>3 DEF Next, Call, TryAcquire, Take, Sleep, Panic, Wake, Send, Tick, Become, TypeOK, vars
  <2>2. seen[s] \in Int /\ Len(grants) \in Nat /\ seen[s] <= Len(grants) /\ wakeAt[s] <= now
    BY <1>3 DEF TypeOK, Refusals
  <2>3. ASSUME seen[s] = Len(grants) PROVE FALSE
    <3>1. Paid(s) BY <1>3, <2>3 DEF Refusals
    <3>2. Refilled >= Second BY <1>3, <2>2, <3>1, PaidInTime
    <3>. QED BY <1>3, <2>1, <3>2, Numbers
  <2>. QED BY <2>2, <2>3
<1>4. TypeOK /\ Refusals /\ [Next]_vars =>
        [\A s \in Senders :
           burst > 0 /\ seen[s] >= 0 /\ task[s] = "trying" /\ task'[s] = "sleeping" =>
             Len(grants) > seen[s]]_vars
  BY <1>3
<1>. QED BY <1>1, <1>2, <1>4, ThrottleTypeInvariant, PTL DEF Spec, SleepsEnough

-----------------------------------------------------------------------------
(* What enters the channel                                                  *)

\* The tasks that have a token and have not sent yet.
Holders == {s \in Senders : task[s] = "granted"}
Clones  == Cardinality(Senders)

(* The n-th message follows the n-th token, and, no more tasks holding one *)
(* than there are, is not after the token that is further ahead than that. *)
Paired ==
  /\ Len(grants) = Len(sends) + Cardinality(Holders)
  /\ \A i \in DOMAIN grants : grants[i] <= now
  /\ \A i \in DOMAIN sends : grants[i] <= sends[i] /\ sends[i] <= now
  /\ \A i, j \in DOMAIN sends : i <= j => sends[i] <= sends[j]
  /\ \A i \in DOMAIN sends, k \in DOMAIN grants : k >= i + Clones => sends[i] <= grants[k]

\* There are no more holders than senders.
LEMMA HoldersCounted ==
  /\ Clones \in Nat /\ IsFiniteSet(Holders) /\ Cardinality(Holders) \in Nat
  /\ Cardinality(Holders) <= Clones
  BY SendersAssumption, FS_CardinalityType, FS_Subset DEF Holders, Clones

\* A token makes a holder, a message ends one; nothing else does.
LEMMA HoldersStep ==
  ASSUME TypeOK, [Next]_vars
  PROVE  \/ UNCHANGED <<grants, sends, Holders>>
         \/ /\ grants' = Append(grants, now) /\ UNCHANGED sends /\ UNCHANGED now
            /\ Cardinality(Holders') = Cardinality(Holders) + 1
         \/ /\ sends' = Append(sends, now) /\ UNCHANGED grants /\ UNCHANGED now
            /\ Cardinality(Holders') = Cardinality(Holders) - 1
            /\ Cardinality(Holders) > 0
<1>0. task \in [Senders -> TaskStates] BY DEF TypeOK
<1>1. ASSUME NEW s \in Senders, Call(s) \/ Wake(s) PROVE UNCHANGED <<grants, sends, Holders>>
  BY <1>0, <1>1 DEF Call, Wake, Become, Holders
<1>2. ASSUME NEW s \in Senders, TryAcquire(s), ~Take(s)
      PROVE  UNCHANGED <<grants, sends, Holders>>
  BY <1>0, <1>2 DEF TryAcquire, Sleep, Panic, Become, Holders
<1>3. ASSUME NEW s \in Senders, TryAcquire(s), Take(s)
      PROVE  /\ grants' = Append(grants, now) /\ UNCHANGED sends /\ UNCHANGED now
             /\ Cardinality(Holders') = Cardinality(Holders) + 1
  <2>1. s \notin Holders /\ Holders' = Holders \cup {s}
    BY <1>0, <1>3 DEF TryAcquire, Take, Become, Holders
  <2>2. Cardinality(Holders') = Cardinality(Holders) + 1
    BY <2>1, HoldersCounted, FS_AddElement
  <2>. QED BY <1>3, <2>2 DEF TryAcquire, Take
<1>4. ASSUME NEW s \in Senders, Send(s)
      PROVE  /\ sends' = Append(sends, now) /\ UNCHANGED grants /\ UNCHANGED now
             /\ Cardinality(Holders') = Cardinality(Holders) - 1
             /\ Cardinality(Holders) > 0
  <2>1. s \in Holders /\ Holders' = Holders \ {s}
    BY <1>0, <1>4 DEF Send, Become, Holders
  <2>2. Cardinality(Holders') = Cardinality(Holders) - 1
    BY <2>1, HoldersCounted, FS_RemoveElement
  <2>3. Cardinality(Holders) # 0
    BY <2>1, HoldersCounted, FS_EmptySet
  <2>. QED BY <1>4, <2>2, <2>3, HoldersCounted DEF Send
<1>5. CASE Tick \/ UNCHANGED vars
  BY <1>5 DEF Tick, vars, Holders
<1>. QED BY <1>1, <1>2, <1>3, <1>4, <1>5 DEF Next

\* Every step keeps messages and tokens paired.
LEMMA PairedStep ==
  ASSUME TypeOK, TypeOK', Paired, [Next]_vars
  PROVE  Paired'
<1>0. /\ grants \in Seq(Nat) /\ sends \in Seq(Nat) /\ now \in Nat
      /\ Len(grants) \in Nat /\ Len(sends) \in Nat
      /\ DOMAIN grants = 1..Len(grants) /\ DOMAIN sends = 1..Len(sends)
      /\ \A i \in DOMAIN grants : grants[i] \in Nat
      /\ \A i \in DOMAIN sends : sends[i] \in Nat
  BY DEF TypeOK
<1>1. now' \in Nat /\ now' >= now
  <2>1. now' = now \/ now' = now + 1
    BY DEF Next, Call, TryAcquire, Wake, Send, Tick, vars
  <2>. QED BY <1>0, <2>1
<1>2. Clones' = Clones BY DEF Clones
<1>3. CASE UNCHANGED <<grants, sends, Holders>>
  BY <1>0, <1>1, <1>2, <1>3 DEF Paired
<1>4. CASE /\ grants' = Append(grants, now) /\ UNCHANGED sends /\ UNCHANGED now
           /\ Cardinality(Holders') = Cardinality(Holders) + 1
  <2>1. /\ Len(grants') = Len(grants) + 1
        /\ DOMAIN grants' = DOMAIN grants \cup {Len(grants) + 1}
        /\ grants'[Len(grants) + 1] = now
        /\ \A i \in DOMAIN grants : grants'[i] = grants[i]
    BY <1>0, <1>4, AppendFacts
  <2>2. Len(grants') = Len(sends') + Cardinality(Holders')
    BY <1>0, <1>4, <2>1, HoldersCounted DEF Paired
  <2>3. \A i \in DOMAIN sends : i \in DOMAIN grants
    BY <1>0, HoldersCounted DEF Paired
  <2>4. \A i \in DOMAIN grants' : grants'[i] <= now
    BY <1>0, <2>1 DEF Paired
  <2>5. \A i \in DOMAIN sends, k \in DOMAIN grants' : k >= i + Clones => sends[i] <= grants'[k]
    BY <2>1 DEF Paired
  <2>. QED BY <1>2, <1>4, <2>1, <2>2, <2>3, <2>4, <2>5 DEF Paired
<1>5. CASE /\ sends' = Append(sends, now) /\ UNCHANGED grants /\ UNCHANGED now
           /\ Cardinality(Holders') = Cardinality(Holders) - 1
           /\ Cardinality(Holders) > 0
  <2> DEFINE n == Len(sends) + 1
  <2>1. /\ Len(sends') = n
        /\ DOMAIN sends' = DOMAIN sends \cup {n}
        /\ sends'[n] = now
        /\ \A i \in DOMAIN sends : sends'[i] = sends[i]
    BY <1>0, <1>5, AppendFacts
  <2>2. n \in DOMAIN grants /\ n \in Nat /\ \A i \in DOMAIN sends : i < n
    BY <1>0, <1>5, HoldersCounted DEF Paired
  <2>3. Len(grants') = Len(sends') + Cardinality(Holders')
    BY <1>0, <1>5, <2>1, HoldersCounted DEF Paired
  <2>4. \A k \in DOMAIN grants : ~(k >= n + Clones)
    BY <1>0, HoldersCounted DEF Paired
  <2> HIDE DEF n
  <2>5. \A i \in DOMAIN sends' : grants[i] <= sends'[i] /\ sends'[i] <= now
    BY <1>0, <2>1, <2>2 DEF Paired
  <2>6. \A i, j \in DOMAIN sends' : i <= j => sends'[i] <= sends'[j]
    <3> SUFFICES ASSUME NEW i \in DOMAIN sends', NEW j \in DOMAIN sends', i <= j
                 PROVE  sends'[i] <= sends'[j]
      OBVIOUS
    <3>1. CASE j = n BY <1>0, <2>1, <2>5, <3>1
    <3>2. CASE i \in DOMAIN sends /\ j \in DOMAIN sends BY <2>1, <3>2 DEF Paired
    <3>3. ~(i = n /\ j \in DOMAIN sends) BY <1>0, <2>2
    <3>. QED BY <2>1, <3>1, <3>2, <3>3
  <2>7. \A i \in DOMAIN sends', k \in DOMAIN grants : k >= i + Clones => sends'[i] <= grants[k]
    BY <2>1, <2>4 DEF Paired
  <2>8. \A i \in DOMAIN grants : grants[i] <= now BY DEF Paired
  <2>. QED BY <1>2, <1>5, <2>3, <2>5, <2>6, <2>7, <2>8 DEF Paired
<1>. QED BY <1>3, <1>4, <1>5, HoldersStep

(* What enters the channel over any stretch of time exceeds what the       *)
(* bucket allows by no more than one message for each task: the tokens     *)
(* that tasks hold while they wait for a slot.                             *)
THEOREM SendsHoldTheorem == Spec => []SendsHold
<1>1. Init => Paired
  <2> SUFFICES ASSUME Init PROVE Paired
    OBVIOUS
  <2>1. Holders = {} /\ Len(grants) = 0 /\ Len(sends) = 0 BY DEF Init, Holders
  <2>2. DOMAIN grants = {} /\ DOMAIN sends = {} BY DEF Init
  <2>. QED BY <2>1, <2>2, FS_EmptySet DEF Paired
<1>2. TypeOK /\ TypeOK' /\ Paired /\ [Next]_vars => Paired'
  BY PairedStep
<1>3. TypeOK /\ RateHolds /\ Paired => SendsHold
  <2> SUFFICES ASSUME TypeOK, RateHolds, Paired,
                      NEW i \in DOMAIN sends, NEW j \in DOMAIN sends, i <= j
               PROVE  (j - i + 1) * Second
                        <= (burst + Clones) * Second + rate * (sends[j] - sends[i])
    BY DEF SendsHold, Clones
  <2>1. /\ i \in Nat \ {0} /\ j \in Nat \ {0} /\ j <= Len(sends) /\ Len(sends) \in Nat
        /\ sends[i] \in Nat /\ sends[j] \in Nat /\ sends[i] <= sends[j]
        /\ Len(grants) \in Nat /\ Clones \in Nat /\ Len(sends) <= Len(grants)
        /\ DOMAIN grants = 1..Len(grants)
        /\ \A k \in DOMAIN grants : grants[k] \in Nat
    <3>1. /\ grants \in Seq(Nat) /\ sends \in Seq(Nat) BY DEF TypeOK
    <3>2. /\ Len(grants) \in Nat /\ Len(sends) \in Nat /\ DOMAIN sends = 1..Len(sends)
          /\ DOMAIN grants = 1..Len(grants)
          /\ \A k \in DOMAIN grants : grants[k] \in Nat
          /\ \A k \in DOMAIN sends : sends[k] \in Nat
      BY <3>1
    <3>3. Len(grants) = Len(sends) + Cardinality(Holders) /\ sends[i] <= sends[j]
      BY DEF Paired
    <3>. QED BY <3>2, <3>3, HoldersCounted
  <2>2. Second \in Nat /\ rate \in Nat /\ burst \in Nat BY Numbers
  <2> DEFINE sent  == (j - i + 1) * Second
             spare == Clones * Second
             full  == burst * Second
             drip  == rate * (sends[j] - sends[i])
  <2>3. \A a, b \in Int : a * b \in Int OBVIOUS
  <2>4. /\ sent \in Int /\ spare \in Int /\ full \in Int /\ drip \in Int
        /\ full >= 0 /\ drip >= 0
        /\ (burst + Clones) * Second = full + spare
    <3>1. j - i + 1 \in Int /\ sends[j] - sends[i] \in Nat BY <2>1
    <3>2. \A a, b \in Nat : a * b >= 0 OBVIOUS
    <3>3. (burst + Clones) * Second = full + spare BY <2>1, <2>2
    <3>4. sent \in Int /\ spare \in Int BY <2>1, <2>2, <2>3, <3>1
    <3>5. full \in Int /\ full >= 0 BY <2>2, <2>3, <3>2
    <3>6. drip \in Int /\ drip >= 0 BY <2>2, <2>3, <3>1, <3>2
    <3>. QED BY <3>3, <3>4, <3>5, <3>6
  <2>5. sent <= full + spare + drip
    <3>1. CASE j < i + Clones
      <4>1. j - i + 1 <= Clones /\ j - i + 1 \in Int BY <2>1, <3>1
      <4>2. \A a, b \in Int, c \in Nat : a <= b => a * c <= b * c OBVIOUS
      <4>3. sent <= spare BY <2>1, <2>2, <4>1, <4>2
      <4> HIDE DEF sent, spare, full, drip
      <4>. QED BY <2>4, <4>3
    <3>2. CASE j >= i + Clones
      <4> DEFINE k    == i + Clones
                 paid == (j - k + 1) * Second
                 gain == rate * (grants[j] - grants[k])
      <4>1. k \in DOMAIN grants /\ j \in DOMAIN grants /\ k <= j /\ k \in Nat
        BY <2>1, <3>2
      <4>2. sends[i] <= grants[k] /\ grants[j] <= sends[j] /\ grants[k] \in Nat /\ grants[j] \in Nat
        BY <2>1, <4>1 DEF Paired
      <4>3. paid <= full + gain BY <4>1 DEF RateHolds
      <4>4. gain <= drip
        <5>1. /\ grants[j] - grants[k] <= sends[j] - sends[i]
              /\ grants[j] - grants[k] \in Int /\ sends[j] - sends[i] \in Int
          <6> HIDE DEF sent, spare, full, drip, k, paid, gain
          <6>1. sends[i] \in Nat /\ sends[j] \in Nat BY <2>1
          <6>. QED BY <4>2, <6>1
        <5>2. \A a, b \in Int, c \in Nat : a <= b => c * a <= c * b OBVIOUS
        <5>. QED BY <2>2, <5>1, <5>2
      <4>5. sent = paid + spare
        <5>1. j - k + 1 \in Int /\ j - i + 1 = (j - k + 1) + Clones BY <2>1, <4>1
        <5>2. \A a, b, c \in Int : (a + b) * c = a * c + b * c OBVIOUS
        <5>. QED BY <2>1, <2>2, <5>1, <5>2
      <4>6. paid \in Int /\ gain \in Int
        <5>1. j - k + 1 \in Int /\ grants[j] - grants[k] \in Int BY <2>1, <4>1, <4>2
        <5>. QED BY <2>2, <2>3, <5>1
      <4> HIDE DEF sent, spare, full, drip, paid, gain
      <4>. QED BY <2>4, <4>3, <4>4, <4>5, <4>6
    <3>. QED BY <2>1, <3>1, <3>2
  <2>. QED BY <2>4, <2>5
<1>. QED BY <1>1, <1>2, <1>3, ThrottleTypeInvariant, RateInvariant, PTL DEF Spec
=============================================================================
