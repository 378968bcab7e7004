-------------------------- MODULE TokenBucket_proofs --------------------------
(* Proofs about TokenBucket, for any waiters, burst, rate and window bound. *)
EXTENDS TokenBucket, TLAPS

-----------------------------------------------------------------------------
\* Inductive: what was spent in the window and what could be spent now never
\* exceed a full bucket plus the window's refill.
WindowInv == spent + Refilled <= Capacity + Rate * age

\* The capacity is a natural number.
LEMMA CapacityNat == Capacity \in Nat
BY BucketAssumption DEF Capacity

\* What a take finds in the bucket.
LEMMA RefilledBounds ==
  ASSUME TypeOK
  PROVE  Refilled \in 0 .. Capacity
<1>1. Rate * since \in Nat
  BY CapacityNat, BucketAssumption DEF TypeOK
<1>2. QED BY <1>1, CapacityNat DEF TypeOK, Refilled, Smaller

\* A bucket that was refilled just now holds its credit.
LEMMA RefilledNow ==
  ASSUME credit' \in 0 .. Capacity, since' = 0
  PROVE  Refilled' = credit'
<1>1. Rate * since' = 0
  BY BucketAssumption
<1>2. QED BY <1>1, CapacityNat DEF Refilled, Smaller

\* What one clock unit adds to the bucket.
LEMMA RefilledTick ==
  ASSUME TypeOK, Tick
  PROVE  Refilled' = Smaller(Capacity, Refilled + Rate)
<1>1. /\ credit' = credit /\ credit \in Nat /\ since \in Nat /\ since <= Capacity
      /\ since' = IF since + 1 <= Capacity THEN since + 1 ELSE Capacity
      /\ Rate \in Nat /\ Rate >= 1 /\ Capacity \in Nat
  BY CapacityNat, BucketAssumption DEF Tick, TypeOK, Smaller
<1>2. Rate * (since + 1) = Rate * since + Rate /\ Rate * since \in Nat
  BY <1>1
<1>3. CASE since + 1 <= Capacity
  BY <1>1, <1>2, <1>3 DEF Refilled, Smaller
<1>4. CASE since = Capacity
  <2>1. Rate * Capacity >= Capacity
    BY <1>1
  <2>2. since' = Capacity
    BY <1>1, <1>4
  <2>3. QED BY <1>1, <1>2, <1>4, <2>1, <2>2 DEF Refilled, Smaller
<1>5. QED BY <1>1, <1>3, <1>4

\* The wait for some units of credit, cut to whole clock units, refills no more
\* than those and one clock unit more refills more.
LEMMA WaitBounds ==
  ASSUME NEW units \in 0 .. Cost
  PROVE  /\ Wait(units) \in 0 .. Cost
         /\ Rate * Wait(units) <= units
         /\ units < Rate * (Wait(units) + 1)
<1> DEFINE n == units \div Rate
<1>1. units \in Nat /\ Rate \in Nat \ {0} /\ Cost \in Nat
  BY BucketAssumption
<1>2. n \in Nat /\ Rate * n <= units /\ units < Rate * (n + 1)
  BY <1>1
<1>3. n <= Rate * n
  <2> HIDE DEF n
  <2>1. QED BY <1>1, <1>2
<1>4. QED
  <2> HIDE DEF n
  <2>1. n \in 0 .. Cost
    BY <1>1, <1>2, <1>3
  <2>2. n = Wait(units)
    BY DEF n, Wait
  <2>3. QED BY <1>2, <2>1, <2>2

\* The bucket starts full and the window empty.
LEMMA InitBucket == Init => TypeOK /\ WindowInv
<1> SUFFICES ASSUME Init PROVE TypeOK /\ WindowInv
  OBVIOUS
<1>1. TypeOK
  BY CapacityNat, BucketAssumption DEF Init, TypeOK
<1>2. Rate * age = 0 /\ spent = 0
  BY BucketAssumption DEF Init
<1>3. QED
  BY <1>1, <1>2, RefilledBounds, CapacityNat DEF WindowInv

\* A take, granted or refused, keeps the types and the window's balance.
LEMMA TakeBucket ==
  ASSUME TypeOK, WindowInv, NEW w \in Waiters, Take(w)
  PROVE  TypeOK' /\ WindowInv'
<1> USE CapacityNat, RefilledBounds, BucketAssumption
<1>1. CASE Granted(w)
  <2>1. credit' = Refilled - Cost /\ since' = 0 /\ age' = age /\ spent' = spent + Cost
        /\ Refilled >= Cost
    BY <1>1 DEF Take, Granted
  <2>2. credit' \in 0 .. Capacity
    BY <2>1
  <2>3. Refilled' = Refilled - Cost
    BY <2>1, <2>2, RefilledNow
  <2>4. WindowInv'
    <3>1. Rate * age \in Nat /\ spent \in Nat /\ Refilled \in Nat
      BY DEF TypeOK
    <3>2. QED BY <2>1, <2>3, <3>1 DEF WindowInv
  <2>5. TypeOK'
    BY <1>1, <2>1, <2>2 DEF Take, Granted, TypeOK, Sleepers
  <2>6. QED BY <2>4, <2>5
<1>2. CASE Refused(w)
  <2>1. credit' = Refilled /\ since' = 0 /\ age' = age /\ spent' = spent /\ Refilled < Cost
    BY <1>2 DEF Take, Refused, Sleep
  <2>2. Refilled' = Refilled
    BY <2>1, RefilledNow
  <2>3. WindowInv'
    BY <2>1, <2>2 DEF WindowInv
  <2>4. Wait(Cost - Refilled) \in 0 .. Cost
    BY <2>1, WaitBounds
  <2>5. TypeOK'
    BY <1>2, <2>1, <2>4 DEF Take, Refused, Sleep, TypeOK
  <2>6. QED BY <2>3, <2>5
<1>3. QED BY <1>1, <1>2 DEF Take

\* The clock adds at most what the window allows.
LEMMA TickBucket ==
  ASSUME TypeOK, WindowInv, Tick
  PROVE  TypeOK' /\ WindowInv'
<1> USE CapacityNat, RefilledBounds, BucketAssumption
<1>1. since' \in 0 .. Capacity /\ credit' = credit
  BY DEF Tick, Smaller, TypeOK
<1>2. timer' \in [Waiters -> 0 .. Cost]
  BY DEF Tick, TypeOK
<1>3. age' \in 0 .. MaxWindow /\ spent' \in Nat
  BY DEF Tick, TypeOK
<1>4. TypeOK'
  BY <1>1, <1>2, <1>3 DEF Tick, TypeOK
<1>5. Refilled' \in 0 .. Capacity /\ Refilled' <= Refilled + Rate
  BY RefilledTick DEF Smaller
<1>6. WindowInv'
  <2>1. Refilled \in 0 .. Capacity /\ spent \in Nat /\ age \in Nat
    BY DEF TypeOK
  <2>2. (age' = age + 1 /\ spent' = spent) \/ (age' = 0 /\ spent' = 0)
    BY DEF Tick
  <2>3. Rate * (age + 1) = Rate * age + Rate /\ Rate * age \in Nat /\ Rate * 0 = 0
    BY <2>1
  <2>4. /\ spent + Refilled <= Capacity + Rate * age
        /\ Capacity \in Nat /\ Rate \in Nat /\ Refilled' \in Nat /\ Refilled' <= Capacity
    BY <1>5 DEF WindowInv
  <2>5. PICK now \in Nat : now = Refilled'
    BY <2>4
  <2>6. spent' + now <= Capacity + Rate * age'
    <3>1. CASE age' = age + 1 /\ spent' = spent
      <4>1. now <= Refilled + Rate
        BY <1>5, <2>5
      <4>2. QED BY <2>1, <2>3, <2>4, <3>1, <4>1
    <3>2. CASE age' = 0 /\ spent' = 0
      <4>1. now <= Capacity /\ Rate * age' = 0
        BY <2>3, <2>4, <2>5, <3>2
      <4>2. QED BY <2>4, <3>2, <4>1
    <3>3. QED BY <2>2, <3>1, <3>2
  <2>7. QED BY <2>5, <2>6 DEF WindowInv
<1>7. QED BY <1>4, <1>6

\* Every step keeps the types and the window's balance.
LEMMA NextBucket ==
  ASSUME TypeOK, WindowInv, [Next]_vars
  PROVE  TypeOK' /\ WindowInv'
<1>1. ASSUME NEW w \in Waiters, Call(w) \/ Retry(w) PROVE TypeOK' /\ WindowInv'
  BY <1>1, TakeBucket DEF Call, Retry
<1>2. ASSUME NEW w \in Waiters, Cancel(w) PROVE TypeOK' /\ WindowInv'
  BY <1>2, BucketAssumption DEF Cancel, TypeOK, WindowInv, Refilled
<1>3. CASE Tick
  BY <1>3, TickBucket
<1>4. CASE OpenWindow
  <2>1. Refilled' = Refilled /\ Rate * age' = 0 /\ spent' = 0
    BY <1>4, BucketAssumption DEF OpenWindow, Refilled
  <2>2. QED
    BY <1>4, <2>1, CapacityNat, RefilledBounds, BucketAssumption DEF OpenWindow, TypeOK, WindowInv
<1>5. CASE UNCHANGED vars
  BY <1>5 DEF vars, TypeOK, WindowInv, Refilled
<1>6. QED
  BY <1>1, <1>2, <1>3, <1>4, <1>5 DEF Next

\* The types and the window's balance hold in every reachable state.
LEMMA BucketInvHolds == Spec => [](TypeOK /\ WindowInv)
<1>1. TypeOK /\ WindowInv /\ [Next]_vars => TypeOK' /\ WindowInv'
  BY NextBucket
<1>2. QED
  BY <1>1, InitBucket, PTL DEF Spec

\* Every variable keeps its shape: the bucket is never overdrawn or overfull.
THEOREM BucketTypeCorrect == Spec => []TypeOK
BY BucketInvHolds, PTL

\* In every window, the tokens granted are at most the burst plus the refill of
\* the window's length (take in ratelimit.go), for any number of goroutines.
THEOREM RateBoundHolds == Spec => []RateBound
<1>1. TypeOK /\ WindowInv => RateBound
  <2> SUFFICES ASSUME TypeOK, WindowInv PROVE RateBound
    OBVIOUS
  <2>1. Rate * age \in Nat /\ spent \in Nat
    BY BucketAssumption DEF TypeOK
  <2>2. QED BY <2>1, RefilledBounds, CapacityNat DEF WindowInv, RateBound
<1>2. QED
  BY <1>1, BucketInvHolds, PTL

\* One token is at least one unit and fits into the bucket.
LEMMA CostFits == Cost \in Nat \ {0} /\ Cost <= Capacity
<1>1. Cost * 1 <= Cost * Burst
  BY BucketAssumption
<1>2. QED BY <1>1, BucketAssumption DEF Capacity

\* A sleeper that nobody has overtaken wakes no later than its token is due and
\* less than one clock unit before (the deficit that take turns into a Duration).
THEOREM TimelyWakeupHolds == Spec => []TimelyWakeup
<1>1. Init => TimelyWakeup
  BY DEF Init, TimelyWakeup, Sleepers
<1>2. ASSUME TypeOK, TimelyWakeup, [Next]_vars
      PROVE  TimelyWakeup'
  <2> USE <1>2, CapacityNat, CostFits, RefilledBounds, BucketAssumption
  <2>1. ASSUME NEW w \in Waiters, Granted(w), since' = 0 PROVE TimelyWakeup'
    <3>1. Sleepers' \subseteq overtaken'
      BY <2>1 DEF Granted, Sleepers, TypeOK
    <3>2. QED BY <3>1 DEF TimelyWakeup
  <2>2. ASSUME NEW w \in Waiters, Refused(w), since' = 0 PROVE TimelyWakeup'
    <3>1. Refilled' = Refilled /\ Refilled < Cost
      BY <2>2, RefilledNow DEF Refused, Sleep
    <3>2. ASSUME NEW v \in Sleepers', v \notin overtaken'
          PROVE  /\ timer'[v] > 0 => Refilled + Rate * timer'[v] <= Cost
                 /\ Refilled + Rate * (timer'[v] + 1) > Cost
      <4>1. CASE v = w
        <5>1. timer'[v] = Wait(Cost - Refilled) /\ Cost - Refilled \in 0 .. Cost
          BY <2>2, <3>1, <3>2, <4>1 DEF Refused, Sleep, Sleepers, TypeOK
        <5>2. /\ timer'[v] \in Nat /\ Rate * timer'[v] <= Cost - Refilled
              /\ Cost - Refilled < Rate * (timer'[v] + 1)
          BY <5>1, WaitBounds
        <5>3. Rate * timer'[v] \in Nat /\ Rate * (timer'[v] + 1) \in Nat
          BY <5>2
        <5>4. QED BY <5>2, <5>3
      <4>2. CASE v # w
        BY <2>2, <3>2, <4>2 DEF Refused, Sleep, Sleepers, TypeOK, TimelyWakeup
      <4>3. QED BY <4>1, <4>2
    <3>3. QED BY <3>1, <3>2 DEF TimelyWakeup
  <2>3. ASSUME NEW w \in Waiters, Call(w) \/ Retry(w) PROVE TimelyWakeup'
    BY <2>1, <2>2, <2>3 DEF Call, Retry, Take
  <2>4. ASSUME NEW w \in Waiters, Cancel(w) PROVE TimelyWakeup'
    <3>1. /\ Refilled' = Refilled
          /\ \A v \in Sleepers' : v \in Sleepers /\ timer'[v] = timer[v] /\ (v \in overtaken => v \in overtaken')
      BY <2>4 DEF Cancel, Refilled, Sleepers, TypeOK
    <3>2. QED BY <3>1 DEF TimelyWakeup
  <2>5. CASE Tick
    <3>1. Refilled' = IF Capacity <= Refilled + Rate THEN Capacity ELSE Refilled + Rate
      BY <2>5, RefilledTick DEF Smaller
    <3>2. ASSUME NEW v \in Sleepers', v \notin overtaken'
          PROVE  /\ timer'[v] > 0 => Refilled' + Rate * timer'[v] <= Cost
                 /\ Refilled' + Rate * (timer'[v] + 1) > Cost
      <4>1. /\ v \in Waiters /\ timer[v] \in Nat
            /\ timer'[v] = IF timer[v] > 0 THEN timer[v] - 1 ELSE 0
            /\ timer[v] > 0 => Refilled + Rate * timer[v] <= Cost
            /\ Refilled + Rate * (timer[v] + 1) > Cost
        BY <2>5, <3>2 DEF Tick, Sleepers, TypeOK, TimelyWakeup
      <4>2. /\ Refilled \in Nat /\ Refilled' \in Nat /\ Cost \in Nat /\ Rate \in Nat /\ Rate >= 1
            /\ Refilled <= Capacity /\ Cost <= Capacity /\ Capacity \in Nat
        BY <3>1
      <4>3. CASE timer[v] > 0
        <5> DEFINE n == timer'[v]
        <5>1. n \in Nat /\ timer[v] = n + 1
          BY <4>1, <4>3
        <5>2. /\ Rate * (n + 1) = Rate * n + Rate /\ Rate * n \in Nat
              /\ Rate * (n + 1 + 1) = Rate * n + Rate + Rate
          BY <4>2, <5>1
        <5>3. Refilled + Rate * n + Rate <= Cost /\ Refilled + Rate * n + Rate + Rate > Cost
          BY <4>1, <4>2, <4>3, <5>1, <5>2
        <5>4. Refilled' = Refilled + Rate
          BY <3>1, <4>2, <5>2, <5>3
        <5>5. QED BY <4>2, <5>1, <5>2, <5>3, <5>4
      <4>4. CASE timer[v] = 0
        <5>1. timer'[v] = 0 /\ Rate * (0 + 1) = Rate
          BY <4>1, <4>2, <4>4
        <5>2. Refilled + Rate > Cost
          BY <4>1, <4>4, <5>1
        <5>3. Refilled' + Rate > Cost
          BY <3>1, <4>2, <5>2
        <5>4. QED BY <5>1, <5>3
      <4>5. QED BY <4>1, <4>3, <4>4
    <3>3. QED BY <3>2 DEF TimelyWakeup
  <2>6. CASE OpenWindow \/ UNCHANGED vars
    BY <2>6 DEF OpenWindow, vars, TimelyWakeup, Refilled, Sleepers
  <2>7. QED BY <2>3, <2>4, <2>5, <2>6 DEF Next
<1>3. QED
  BY <1>1, <1>2, BucketTypeCorrect, PTL DEF Spec
=============================================================================
