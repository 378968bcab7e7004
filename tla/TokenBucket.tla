----------------------------- MODULE TokenBucket -----------------------------
(***************************************************************************)
(* The rate limiter in front of IGDB (catalog/ratelimit.go): goroutines    *)
(* calling wait, which loops over take (one action: it holds the mutex)    *)
(* and a timer.                                                            *)
(*                                                                         *)
(* A token is Cost units of credit and one clock unit, the nanosecond of   *)
(* time.Duration, refills Rate of them, so that refillPerSec is any        *)
(* fraction and the arithmetic on b.tokens is exact where the code's       *)
(* floats round; a wait is cut to whole clock units as in the code.  Times *)
(* are kept relative: since is now - last, timer[w] the time left on w's   *)
(* timer.                                                                  *)
(***************************************************************************)
EXTENDS Integers

CONSTANTS Waiters,   \* calls of wait
          Burst,     \* tokens the bucket holds
          Cost,      \* units of credit that make one token
          Rate,      \* units of credit that one clock unit refills
          MaxWindow  \* longest window the monitor measures

\* NewIGDBClient replaces a rate or burst that is not positive by its default.
ASSUME BucketAssumption ==
  /\ Burst \in Nat \ {0} /\ Cost \in Nat \ {0} /\ Rate \in Nat \ {0}
  /\ MaxWindow \in Nat \ {0}

VARIABLES credit,   \* the bucket's tokens, in units, as of last
          since,    \* clock units since last
          waiter,   \* waiter[w]: "idle", "asleep", then "granted" or "cancelled"
          timer,    \* timer[w]: clock units until w's timer fires
          \* History: a window opened at any moment, and who was overtaken.
          age, spent, \* the window's age; units granted in it
          overtaken   \* sleepers that saw another waiter take a token

vars == <<credit, since, waiter, timer, age, spent, overtaken>>

Capacity == Burst * Cost

Smaller(a, b) == IF a <= b THEN a ELSE b

\* The bucket's content once take has refilled it.
Refilled == Smaller(Capacity, credit + Rate * since)

Sleepers == {w \in Waiters : waiter[w] = "asleep"}

Init ==
  /\ credit = Capacity /\ since = 0
  /\ waiter = [w \in Waiters |-> "idle"]
  /\ timer = [w \in Waiters |-> 0]
  /\ age = 0 /\ spent = 0 /\ overtaken = {}

-----------------------------------------------------------------------------
\* w runs take: refill, then a token if there is one, else the deficit's wait.
\* (With elapsed = 0 the code leaves last alone: the same values result.)
Granted(w) ==
  /\ Refilled >= Cost
  /\ credit' = Refilled - Cost
  /\ waiter' = [waiter EXCEPT ![w] = "granted"]
  /\ spent' = spent + Cost
  /\ overtaken' = (overtaken \cup Sleepers) \ {w}
  /\ UNCHANGED timer

\* w goes to sleep and leaves some credit in the bucket.
Sleep(w, left, wait) ==
  /\ Refilled < Cost
  /\ credit' = left
  /\ waiter' = [waiter EXCEPT ![w] = "asleep"]
  /\ timer' = [timer EXCEPT ![w] = wait]
  /\ overtaken' = overtaken \ {w}
  /\ UNCHANGED spent

\* The clock units in which an amount of credit is refilled; the conversion to
\* time.Duration drops a fraction of one, so that the wait may be zero.
Wait(units) == units \div Rate

\* Mutants of Refused: the partial token is lost; the wait is a whole period.
RefusedDropsCredit(w) == Sleep(w, 0, Wait(Cost - Refilled))
RefusedWholePeriod(w) == Sleep(w, Refilled, Wait(Cost))

\* No whole token: wait for the missing part.
Refused(w) == Sleep(w, Refilled, Wait(Cost - Refilled))

\* Mutant of Take: last is not moved.
TakeKeepsLast(w) == UNCHANGED <<since, age>> /\ (Granted(w) \/ Refused(w))

Take(w) == since' = 0 /\ UNCHANGED age /\ (Granted(w) \/ Refused(w))

\* wait is called: the context is not looked at before the first take.
Call(w) == waiter[w] = "idle" /\ Take(w)

\* The timer fires and the loop takes again, in no order among the sleepers.
Retry(w) == waiter[w] = "asleep" /\ timer[w] = 0 /\ Take(w)

\* ctx.Done wins the select, even against a timer that has fired.
Cancel(w) ==
  /\ waiter[w] = "asleep"
  /\ waiter' = [waiter EXCEPT ![w] = "cancelled"]
  /\ timer' = [timer EXCEPT ![w] = 0]
  /\ overtaken' = overtaken \ {w}
  /\ UNCHANGED <<credit, since, age, spent>>

\* One clock unit passes.  More than Capacity of them refill no more, and a
\* window older than MaxWindow is given up.
Tick ==
  /\ since' = Smaller(since + 1, Capacity)
  /\ timer' = [w \in Waiters |-> IF timer[w] > 0 THEN timer[w] - 1 ELSE 0]
  /\ IF age < MaxWindow THEN age' = age + 1 /\ UNCHANGED spent ELSE age' = 0 /\ spent' = 0
  /\ UNCHANGED <<credit, waiter, overtaken>>

\* The monitor opens a new window.
OpenWindow ==
  /\ age' = 0 /\ spent' = 0
  /\ UNCHANGED <<credit, since, waiter, timer, overtaken>>

Next == \/ \E w \in Waiters : Call(w) \/ Retry(w) \/ Cancel(w)
        \/ Tick
        \/ OpenWindow

Spec == Init /\ [][Next]_vars

\* Time passes, and a goroutine whose timer has fired runs.
FairSpec == Spec /\ WF_vars(Tick) /\ \A w \in Waiters : WF_vars(Retry(w))

-----------------------------------------------------------------------------
\* The shape of every variable.
TypeOK ==
  /\ credit \in 0 .. Capacity /\ since \in 0 .. Capacity
  /\ waiter \in [Waiters -> {"idle", "asleep", "granted", "cancelled"}]
  /\ timer \in [Waiters -> 0 .. Cost]
  /\ age \in 0 .. MaxWindow /\ spent \in Nat
  /\ overtaken \subseteq Waiters

\* In no window, whenever it starts and however the waiters interleave, are
\* more tokens granted than the burst plus what the window's length refills.
RateBound == spent <= Capacity + Rate * age

\* A sleeper is never woken later than its token is due, and less than one clock
\* unit before: unless another waiter has taken one since, what is in the bucket
\* and what is refilled until its timer fires are at most one token, and one clock
\* unit later they are more. The wait is cut to whole clock units, so a sleeper may
\* wake early and be refused once more, but a token never lies idle for it.
TimelyWakeup == \A w \in Sleepers \ overtaken :
  /\ timer[w] > 0 => Refilled + Rate * timer[w] <= Cost
  /\ Refilled + Rate * (timer[w] + 1) > Cost

\* A waiter that sleeps is granted a token or gives up.
EveryWaiterLeaves == \A w \in Waiters : waiter[w] = "asleep" ~> waiter[w] \in {"granted", "cancelled"}
=============================================================================
