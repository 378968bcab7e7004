---------------------------- MODULE CircuitBreaker ----------------------------
(***************************************************************************)
(* The circuit breaker in front of IGDB (catalog/ratelimit.go) and the way *)
(* IGDBClient.Query uses it: allow, then the call, then recordSuccess or   *)
(* recordFailure.  Each of the three runs under the breaker's mutex, so it *)
(* is one action; the calls overlap, so a result may be recorded long      *)
(* after the state its call was admitted in.                               *)
(***************************************************************************)
EXTENDS Integers

CONSTANTS Calls,             \* goroutines that may be inside Query
          FailureThreshold,  \* failures in a row that open the breaker
          OpenDuration,      \* clock units it stays open
          MaxTime,           \* bound on the clock
          MaxFails           \* bound on consecutiveFails

\* NewIGDBClient replaces values that are not positive by its defaults.
ASSUME BreakerAssumption == /\ FailureThreshold \in Nat \ {0} /\ OpenDuration \in Nat \ {0}
                            /\ MaxTime \in Nat /\ MaxFails \in Nat

VARIABLES state, consecutiveFails, trialInFlight, openedAt,
          now,        \* the clock the breaker reads
          call,       \* call[c]: "idle", or how allow let the running query in
          lastTrial   \* history: when a trial was last let in

breaker == <<state, consecutiveFails, trialInFlight, openedAt>>
vars    == <<breaker, now, call, lastTrial>>

Init ==
  /\ state = "closed" /\ consecutiveFails = 0 /\ trialInFlight = FALSE
  /\ openedAt = 0 /\ now = 0
  /\ call = [c \in Calls |-> "idle"]
  /\ lastTrial = -OpenDuration

-----------------------------------------------------------------------------
\* allow() finds the breaker closed.
AllowClosed(c) ==
  /\ call[c] = "idle" /\ state = "closed"
  /\ call' = [call EXCEPT ![c] = "normal"]
  /\ UNCHANGED <<breaker, now, lastTrial>>

\* allow() lets one trial in: the pause is over, or half-open without a trial.
\* Mutant of TrialDue: the pause is not waited for.
TrialAtOnce == state = "open" \/ (state = "halfOpen" /\ ~trialInFlight)

TrialDue == \/ state = "open" /\ now - openedAt >= OpenDuration
            \/ state = "halfOpen" /\ ~trialInFlight

\* Mutant of AllowTrial: the trial is not noted.
AllowTrialUnmarked(c) ==
  /\ call[c] = "idle" /\ TrialDue
  /\ state' = "halfOpen"
  /\ call' = [call EXCEPT ![c] = "trial"]
  /\ lastTrial' = now
  /\ UNCHANGED <<consecutiveFails, trialInFlight, openedAt, now>>

AllowTrial(c) ==
  /\ call[c] = "idle" /\ TrialDue
  /\ state' = "halfOpen" /\ trialInFlight' = TRUE
  /\ call' = [call EXCEPT ![c] = "trial"]
  /\ lastTrial' = now
  /\ UNCHANGED <<consecutiveFails, openedAt, now>>

\* allow() refuses: Query returns ErrCircuitOpen and records nothing.
Refuse(c) ==
  /\ call[c] = "idle" /\ state # "closed" /\ ~TrialDue
  /\ UNCHANGED vars

\* doQuery returned a body.
RecordSuccess(c) ==
  /\ call[c] # "idle"
  /\ call' = [call EXCEPT ![c] = "idle"]
  /\ state' = "closed" /\ consecutiveFails' = 0 /\ trialInFlight' = FALSE
  /\ UNCHANGED <<openedAt, now, lastTrial>>

\* One more failure is counted; if it opens the breaker, the pause starts at start.
Failure(c, opens, start) ==
  /\ call[c] # "idle" /\ consecutiveFails < MaxFails
  /\ call' = [call EXCEPT ![c] = "idle"]
  /\ consecutiveFails' = consecutiveFails + 1 /\ trialInFlight' = FALSE
  /\ IF opens THEN state' = "open" /\ openedAt' = start ELSE UNCHANGED <<state, openedAt>>
  /\ UNCHANGED <<now, lastTrial>>

AtThreshold == consecutiveFails + 1 >= FailureThreshold

\* Mutants of RecordFailure: one failure too many; a failed trial only makes way
\* for the next.
RecordFailureOffByOne(c) ==
  Failure(c, state = "halfOpen" \/ consecutiveFails >= FailureThreshold, now)
RecordFailureKeepsHalfOpen(c) == Failure(c, state # "halfOpen" /\ AtThreshold, now)

\* doQuery returned an error, of whatever kind.
RecordFailure(c) == Failure(c, state = "halfOpen" \/ AtThreshold, now)

Tick == /\ now < MaxTime /\ now' = now + 1
        /\ UNCHANGED <<breaker, call, lastTrial>>

Finish(c) == RecordSuccess(c) \/ RecordFailure(c)

Next == \/ \E c \in Calls : AllowClosed(c) \/ AllowTrial(c) \/ Refuse(c) \/ Finish(c)
        \/ Tick

Spec == Init /\ [][Next]_vars

\* Each HTTP request has a timeout, so a query that was let in returns.
FairSpec == Spec /\ \A c \in Calls : WF_vars(Finish(c))

-----------------------------------------------------------------------------
\* The shape of every variable.
TypeOK ==
  /\ state \in {"closed", "open", "halfOpen"}
  /\ consecutiveFails \in Nat /\ trialInFlight \in BOOLEAN
  /\ openedAt \in Nat /\ now \in Nat /\ lastTrial \in Int
  /\ call \in [Calls -> {"idle", "normal", "trial"}]

\* The breaker lets calls through freely exactly while fewer than the threshold
\* of failures have been recorded since the last success, whatever order the
\* results of overlapping calls arrive in.
ClosedBelowThreshold == state = "closed" <=> consecutiveFails < FailureThreshold

\* Half-open never outlives its trial: a trial is running that will record a
\* result and so move the breaker on (else every caller would be refused for ever).
HalfOpenHasTrial ==
  /\ state = "halfOpen" <=> trialInFlight
  /\ state = "halfOpen" => \E c \in Calls : call[c] = "trial"

\* A provider that is failing is tried at most once per open period, even when
\* results of calls admitted before the breaker opened come in late.
TrialsSpaced == [][(\E c \in Calls : call[c] # "trial" /\ call'[c] = "trial")
                     => now - lastTrial >= OpenDuration]_vars

\* The breaker does not stay half-open: its trial succeeds or fails.
HalfOpenLeft == state = "halfOpen" ~> state # "halfOpen"
=============================================================================
