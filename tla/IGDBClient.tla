----------------------------- MODULE IGDBClient -----------------------------
(***************************************************************************)
(* IGDBClient.Query (catalog/igdb_client.go): the circuit breaker, then a  *)
(* token from the cache or from Twitch, the rate limiter's wait, and the   *)
(* request.  Each query is a goroutine of a River job; they share the      *)
(* breaker, composed here from its own module, the limiter, and the token  *)
(* cache, whose mutex is held over the HTTP request that fills it.         *)
(*                                                                         *)
(* Of the limiter only what TokenBucket shows of it is used: a wait lasts  *)
(* any time, and ends with a token or the end of the context.  Twitch and  *)
(* IGDB are external: a token is issued some time before its answer is     *)
(* read, lives expires_in from then on, and any request may fail.          *)
(***************************************************************************)
EXTENDS Integers, Sequences

CONSTANTS Queries,           \* goroutines that call Query
          FailureThreshold, OpenDuration, MaxTime, MaxFails,  \* see CircuitBreaker
          RequestTimeout,    \* clock units an HTTP request may last
          Margin,            \* tokenExpirySafetyMargin
          Lifetimes,         \* values of expires_in
          MaxTokens          \* bound on the tokens issued

ASSUME ClientAssumption ==
  /\ FailureThreshold \in Nat \ {0} /\ OpenDuration \in Nat \ {0} /\ MaxTime \in Nat /\ MaxFails \in Nat
  /\ RequestTimeout \in Nat \ {0} /\ Margin \in Nat /\ Lifetimes \subseteq Nat /\ MaxTokens \in Nat

VARIABLES state, consecutiveFails, trialInFlight, openedAt, now, call, lastTrial,
          stage,        \* stage[q]: where q is in Query
          held,         \* held[q]: the token q has got, 0 for none
          mark,         \* mark[q]: when q entered its stage
          token,        \* the cached token, 0 for none
          tokenExpiry,  \* when the cache stops serving it
          issued        \* Twitch: for each token [life, ends]

breakerVars == <<state, consecutiveFails, trialInFlight, openedAt, now, call, lastTrial>>
queryVars   == <<stage, held, mark>>
cacheVars   == <<token, tokenExpiry>>
vars        == <<breakerVars, queryVars, cacheVars, issued>>

Breaker == INSTANCE CircuitBreaker WITH Calls <- Queries

\* The holder of tokenMu is the query that is fetching.
Fetching == {q \in Queries : stage[q] \in {"fetching", "issued"}}

\* Queries with an HTTP request in flight.
OnTheWire == Fetching \cup {q \in Queries : stage[q] = "sending"}

Ends(t) == issued[t].ends

Init ==
  /\ Breaker!Init
  /\ stage = [q \in Queries |-> "idle"]
  /\ held = [q \in Queries |-> 0] /\ mark = [q \in Queries |-> 0]
  /\ token = 0 /\ tokenExpiry = 0 /\ issued = <<>>

\* q enters a stage with a token.
Move(q, to, t) ==
  /\ stage' = [stage EXCEPT ![q] = to]
  /\ held' = [held EXCEPT ![q] = t]
  /\ mark' = [mark EXCEPT ![q] = now]

-----------------------------------------------------------------------------
(* Query.                                                                  *)

\* allow() lets the query in; doQuery calls ensureToken.
Enter(q) ==
  /\ stage[q] = "idle"
  /\ Breaker!AllowClosed(q) \/ Breaker!AllowTrial(q)
  /\ stage' = [stage EXCEPT ![q] = "locking"]
  /\ UNCHANGED <<held, mark, cacheVars, issued>>

\* allow() refuses: ErrCircuitOpen.
Refuse(q) == Breaker!Refuse(q) /\ UNCHANGED <<queryVars, cacheVars, issued>>

\* Mutant of MutexFree: the lock is not held over the request.
MutexAlwaysFree == TRUE

MutexFree == Fetching = {}

Cached == token # 0 /\ now < tokenExpiry

\* tokenMu is taken (whatever has become of the context) and released at once:
\* the cache serves its token.
TakeCached(q) ==
  /\ stage[q] = "locking" /\ MutexFree
  /\ Cached
  /\ Move(q, "waiting", token)
  /\ UNCHANGED <<breakerVars, cacheVars, issued>>

\* tokenMu is taken and kept, and fetchToken sends its request.
Fetch(q) ==
  /\ stage[q] = "locking" /\ MutexFree
  /\ ~Cached
  /\ Move(q, "fetching", 0)
  /\ UNCHANGED <<breakerVars, cacheVars, issued>>

\* External: Twitch issues a token; its answer is under way.
Issue(q) == \E life \in Lifetimes :
  /\ stage[q] = "fetching" /\ Len(issued) < MaxTokens
  /\ issued' = Append(issued, [life |-> life, ends |-> now + life])
  /\ stage' = [stage EXCEPT ![q] = "issued"]
  /\ held' = [held EXCEPT ![q] = Len(issued')]
  /\ UNCHANGED <<breakerVars, mark, cacheVars>>

\* Mutant of Expiry: no safety margin.
ExpiryWithoutMargin(t) == now + issued[t].life

\* When the cache stops serving a token whose answer is read now.
Expiry(t) == now + issued[t].life - Margin

\* fetchToken returns a token; it is cached, the mutex released, and the token
\* returned even if the cache would not serve it.
Store(q) ==
  /\ stage[q] = "issued"
  /\ token' = held[q]
  /\ tokenExpiry' = Expiry(held[q])
  /\ Move(q, "waiting", held[q])
  /\ UNCHANGED <<breakerVars, issued>>

\* The token request fails (transport, timeout, status, undecodable answer, no
\* token, context): the cache keeps what it had.
FetchFails(q) ==
  /\ stage[q] \in {"fetching", "issued"}
  /\ Move(q, "failed", 0)
  /\ UNCHANGED <<breakerVars, cacheVars, issued>>

\* limiter.wait returns nil and the request is sent with the token got before.
Send(q) ==
  /\ stage[q] = "waiting"
  /\ Move(q, "sending", held[q])
  /\ UNCHANGED <<breakerVars, cacheVars, issued>>

\* The context ends during limiter.wait.
WaitCancelled(q) ==
  /\ stage[q] = "waiting"
  /\ Move(q, "failed", 0)
  /\ UNCHANGED <<breakerVars, cacheVars, issued>>

\* A 2xx answer has been read to its end, before the timeout.
Answered(q) ==
  /\ stage[q] = "sending"
  /\ Move(q, "answered", 0)
  /\ UNCHANGED <<breakerVars, cacheVars, issued>>

\* The request fails, or its answer is not 2xx: a 401 for an expired or
\* revoked token is a failure like any other, and leaves the cache alone.
RequestFails(q) ==
  /\ stage[q] = "sending"
  /\ Move(q, "failed", 0)
  /\ UNCHANGED <<breakerVars, cacheVars, issued>>

Leave(q) ==
  /\ stage' = [stage EXCEPT ![q] = "idle"]
  /\ mark' = [mark EXCEPT ![q] = 0]
  /\ UNCHANGED <<held, cacheVars, issued>>

\* Query returns, and the breaker is told, whatever the error was.
ReturnBody(q) == stage[q] = "answered" /\ Breaker!RecordSuccess(q) /\ Leave(q)

\* Mutants of ReturnError: the query is tried again instead; some errors (a
\* cancelled wait) are not recorded.
RetryUntilBody(q) ==
  /\ stage[q] = "failed"
  /\ stage' = [stage EXCEPT ![q] = "locking"]
  /\ UNCHANGED <<breakerVars, held, mark, cacheVars, issued>>
ReturnErrorUnrecorded(q) ==
  /\ stage[q] = "failed"
  /\ \/ Breaker!RecordFailure(q)
     \/ call' = [call EXCEPT ![q] = "idle"]
        /\ UNCHANGED <<state, consecutiveFails, trialInFlight, openedAt, now, lastTrial>>
  /\ Leave(q)

ReturnError(q) == stage[q] = "failed" /\ Breaker!RecordFailure(q) /\ Leave(q)

\* A timeout fires on time: no HTTP request outlives it.
Tick ==
  /\ \A q \in OnTheWire : now - mark[q] < RequestTimeout
  /\ Breaker!Tick
  /\ UNCHANGED <<queryVars, cacheVars, issued>>

-----------------------------------------------------------------------------
Lock(q)     == TakeCached(q) \/ Fetch(q)
FetchEnd(q) == Store(q) \/ FetchFails(q)
WaitEnd(q)  == Send(q) \/ WaitCancelled(q)
SendEnd(q)  == Answered(q) \/ RequestFails(q)
Return(q)   == ReturnBody(q) \/ ReturnError(q)

Next ==
  \/ \E q \in Queries : \/ Enter(q) \/ Refuse(q) \/ Lock(q) \/ Issue(q)
                        \/ FetchEnd(q) \/ WaitEnd(q) \/ SendEnd(q) \/ Return(q)
  \/ Tick

Spec == Init /\ [][Next]_vars

\* HTTP requests have a timeout, the limiter's wait the context of the job that
\* River gives a minute, and Go's mutex does not starve a waiter.
FairSpec ==
  /\ Spec
  /\ \A q \in Queries : /\ SF_vars(Lock(q)) /\ WF_vars(FetchEnd(q))
                        /\ WF_vars(WaitEnd(q)) /\ WF_vars(SendEnd(q)) /\ WF_vars(Return(q))

-----------------------------------------------------------------------------
Stages == {"idle", "locking", "fetching", "issued", "waiting", "sending", "answered", "failed"}
Tokens == [life : Lifetimes, ends : Nat]

\* The shape of every variable, and which stages hold a token.
TypeOK ==
  /\ Breaker!TypeOK
  /\ stage \in [Queries -> Stages]
  /\ held \in [Queries -> 0 .. Len(issued)] /\ mark \in [Queries -> 0 .. now]
  /\ \A q \in Queries : held[q] # 0 <=> stage[q] \in {"issued", "waiting", "sending"}
  /\ token \in 0 .. Len(issued) /\ tokenExpiry \in Int
  /\ issued \in Seq(Tokens)

\* While the breaker is half-open and refuses everybody else, the query that it
\* let in as its trial is still on its way, and will report.
TrialOnItsWay == state = "halfOpen" => \E q \in Queries : call[q] = "trial" /\ stage[q] # "idle"

Smaller(a, b) == IF a <= b THEN a ELSE b

\* A request goes out with a token that has expired only after a wait in the
\* limiter that, with the longest token request, used up the safety margin (or
\* the token's whole life, for one shorter than the margin).
ExpiredOnlyAfterLongWait == [][\A q \in Queries :
  stage[q] = "waiting" /\ stage'[q] = "sending" /\ now >= Ends(held[q])
    => now - mark[q] >= Smaller(Margin, issued[held[q]].life) - RequestTimeout]_vars

\* Twitch is not asked for a second token while the first is good: a cached
\* token is replaced only within the margin before its end, however many
\* queries find the cache empty at once.
ReplacedOnlyAtEnd == [][token' # token /\ token # 0 => now >= Ends(token) - Margin]_vars

\* Every query that was let in returns, although it waits for the mutex behind
\* the token requests of others, and so no trial holds the breaker half-open.
EveryQueryReturns == \A q \in Queries : stage[q] # "idle" ~> stage[q] = "idle"
=============================================================================
