-------------------------- MODULE IGDBClient_proofs --------------------------
(* Proofs about IGDBClient, for any queries, lifetimes, margin and timeout. *)
EXTENDS IGDBClient, TLAPS

-----------------------------------------------------------------------------
(* The inductive invariant behind the safety properties. *)

\* The breaker counts as running exactly the queries that are.
Matching == \A q \in Queries : call[q] = "idle" <=> stage[q] = "idle"

\* When Twitch issued t.
IssuedAt(t) == Ends(t) - issued[t].life

\* A request in flight has not used up its timeout; one that has been answered
\* with a token was sent before the token was issued.
OnTime == \A q \in OnTheWire : now - mark[q] <= RequestTimeout
Issued == \A q \in Queries : stage[q] = "issued" =>
            mark[q] <= IssuedAt(held[q]) /\ IssuedAt(held[q]) <= now

\* The cache serves a token until the margin before its end, give or take what
\* its answer was under way; nobody fetches another while it does.
CacheEnd == token # 0 => /\ Ends(token) - Margin <= tokenExpiry
                         /\ tokenExpiry <= Ends(token) - Margin + RequestTimeout
Mutex == /\ \A q, r \in Fetching : q = r
         /\ Fetching # {} => ~Cached

\* A query that waits in the limiter got its token while much of its life was left.
Fresh == \A q \in Queries : stage[q] = "waiting" =>
           mark[q] <= Ends(held[q]) - Smaller(Margin, issued[held[q]].life) + RequestTimeout

CacheInv == OnTime /\ Issued /\ CacheEnd /\ Mutex /\ Fresh
ClientInv == TypeOK /\ Matching /\ CacheInv

\* The breaker does not notice the step.
BreakerKept == UNCHANGED breakerVars

-----------------------------------------------------------------------------
(* The client uses the breaker as its callers must.                        *)

\* Each step of the client is a step of the breaker's specification, or leaves
\* the breaker alone.
LEMMA ClientStepsBreaker ==
  ASSUME [Next]_vars
  PROVE  [Breaker!Next]_(Breaker!vars)
<1>1. BreakerKept => UNCHANGED Breaker!vars
  BY DEF BreakerKept, breakerVars, Breaker!vars, Breaker!breaker
<1>2. ASSUME NEW q \in Queries, Enter(q) \/ Refuse(q) PROVE Breaker!Next
  BY <1>2 DEF Enter, Refuse, Breaker!Next
<1>3. ASSUME NEW q \in Queries, Return(q) PROVE Breaker!Next
  BY <1>3 DEF Return, ReturnBody, ReturnError, Breaker!Next, Breaker!Finish
<1>4. ASSUME NEW q \in Queries, Lock(q) \/ Issue(q) \/ FetchEnd(q) \/ WaitEnd(q) \/ SendEnd(q)
      PROVE  BreakerKept
  BY <1>4 DEF Lock, TakeCached, Fetch, Issue, FetchEnd, Store, FetchFails, WaitEnd, Send,
     WaitCancelled, SendEnd, Answered, RequestFails, BreakerKept
<1>5. Tick => Breaker!Next
  BY DEF Tick, Breaker!Next
<1>6. UNCHANGED vars => BreakerKept
  BY DEF vars, BreakerKept
<1>7. QED BY <1>1, <1>2, <1>3, <1>4, <1>5, <1>6 DEF Next

\* The client is composed from the breaker's actions, so that what is proved of
\* every behaviour of the breaker can be used of the client (IGDBClient.Query).
LEMMA ClientIsBreaker == Spec => Breaker!Spec
<1>1. Init => Breaker!Init
  BY DEF Init
<1>2. [Next]_vars => [Breaker!Next]_(Breaker!vars)
  BY ClientStepsBreaker
<1>3. QED BY <1>1, <1>2, PTL DEF Spec, Breaker!Spec

-----------------------------------------------------------------------------
(* The token cache.                                                        *)

\* Each step of the breaker keeps the shape of its variables.
LEMMA BreakerTyped ==
  ASSUME Breaker!TypeOK, [Breaker!Next]_(Breaker!vars)
  PROVE  Breaker!TypeOK'
<1> USE DEF Breaker!TypeOK, Breaker!breaker
<1>1. ASSUME NEW q \in Queries, Breaker!AllowClosed(q) \/ Breaker!AllowTrial(q) PROVE Breaker!TypeOK'
  <2>1. CASE Breaker!AllowClosed(q)
    BY <2>1 DEF Breaker!AllowClosed
  <2>2. CASE Breaker!AllowTrial(q)
    BY <2>2 DEF Breaker!AllowTrial
  <2>3. QED BY <1>1, <2>1, <2>2
<1>2. ASSUME NEW q \in Queries, Breaker!RecordSuccess(q) PROVE Breaker!TypeOK'
  BY <1>2 DEF Breaker!RecordSuccess
<1>3. ASSUME NEW q \in Queries, Breaker!RecordFailure(q) PROVE Breaker!TypeOK'
  <2>1. PICK opens : Breaker!Failure(q, opens, now)
    BY <1>3 DEF Breaker!RecordFailure
  <2>2. /\ trialInFlight' = FALSE /\ consecutiveFails' \in Nat /\ UNCHANGED <<now, lastTrial>>
        /\ call' \in [Queries -> {"idle", "normal", "trial"}]
    BY <2>1 DEF Breaker!Failure
  <2>3. state' \in {"closed", "open", "halfOpen"} /\ openedAt' \in Nat
    BY <2>1 DEF Breaker!Failure
  <2>4. QED BY <2>2, <2>3
<1>4. CASE Breaker!Tick \/ UNCHANGED Breaker!vars
  BY <1>4 DEF Breaker!Tick, Breaker!vars
<1>5. ASSUME NEW q \in Queries, Breaker!Refuse(q) PROVE Breaker!TypeOK'
  BY <1>5 DEF Breaker!Refuse, Breaker!vars
<1>6. QED BY <1>1, <1>2, <1>3, <1>4, <1>5 DEF Breaker!Next, Breaker!Finish

\* Nothing is cached and nobody queries.
LEMMA InitClientInv == Init => ClientInv
<1> SUFFICES ASSUME Init PROVE ClientInv
  OBVIOUS
<1> USE ClientAssumption DEF Init, Breaker!Init
<1>1. TypeOK
  <2>1. trialInFlight \in BOOLEAN
    BY Zenon
  <2>2. Breaker!TypeOK
    BY <2>1 DEF Breaker!TypeOK
  <2>3. now = 0 /\ Len(issued) = 0 /\ issued \in Seq(Tokens)
    OBVIOUS
  <2>4. QED BY <2>2, <2>3 DEF TypeOK, Stages
<1>2. Matching
  BY DEF Matching
<1>3. CacheInv
  BY DEF CacheInv, OnTime, Issued, CacheEnd, Mutex, Fresh, OnTheWire, Fetching
<1>4. QED BY <1>1, <1>2, <1>3 DEF ClientInv

\* What Twitch said of a token stays.
LEMMA TokenShape ==
  ASSUME TypeOK, NEW t \in 1 .. Len(issued)
  PROVE  issued[t].life \in Nat /\ Ends(t) \in Nat /\ IssuedAt(t) \in Int
<1>1. issued[t] \in Tokens
  BY DEF TypeOK
<1>2. issued[t].life \in Nat /\ issued[t].ends \in Nat
  BY <1>1, ClientAssumption DEF Tokens
<1>3. QED BY <1>2 DEF Ends, IssuedAt

\* q enters a stage, with or without a token; then only the cache and, if q is
\* to wait with a token, that token's freshness is left to show.
LEMMA MoveInv ==
  ASSUME ClientInv, NEW q \in Queries, stage[q] # "idle",
         NEW to \in Stages \ {"idle", "issued"}, NEW t \in 0 .. Len(issued),
         t # 0 <=> to \in {"waiting", "sending"},
         Move(q, to, t), UNCHANGED <<breakerVars, issued>>,
         token' \in 0 .. Len(issued), tokenExpiry' \in Int, CacheEnd', Mutex',
         to = "waiting" => now <= Ends(t) - Smaller(Margin, issued[t].life) + RequestTimeout
  PROVE  ClientInv'
<1>1. /\ stage' = [stage EXCEPT ![q] = to] /\ held' = [held EXCEPT ![q] = t]
      /\ mark' = [mark EXCEPT ![q] = now] /\ UNCHANGED <<breakerVars, issued>>
      /\ TypeOK /\ now \in Nat /\ now' = now /\ call' = call
  BY DEF Move, breakerVars, ClientInv, TypeOK, Breaker!TypeOK
<1>2. /\ stage' \in [Queries -> Stages] /\ stage'[q] = to
      /\ held' \in [Queries -> 0 .. Len(issued)] /\ held'[q] = t
      /\ mark' \in [Queries -> 0 .. now] /\ mark'[q] = now
      /\ \A r \in Queries \ {q} : stage'[r] = stage[r] /\ held'[r] = held[r] /\ mark'[r] = mark[r]
  BY <1>1 DEF TypeOK
<1>3. TypeOK'
  <2>1. Breaker!TypeOK'
    BY <1>1 DEF TypeOK, Breaker!TypeOK, breakerVars
  <2>2. \A r \in Queries : held'[r] # 0 <=> stage'[r] \in {"issued", "waiting", "sending"}
    BY <1>1, <1>2 DEF TypeOK
  <2>3. QED BY <1>1, <1>2, <2>1, <2>2 DEF TypeOK
<1>4. Matching'
  BY <1>1, <1>2 DEF ClientInv, TypeOK, Matching
<1>5. OnTime'
  <2>1. ASSUME NEW r \in OnTheWire' PROVE now' - mark'[r] <= RequestTimeout
    <3>1. CASE r = q
      BY <1>1, <1>2, <3>1, ClientAssumption
    <3>2. CASE r # q
      <4>1. r \in OnTheWire
        BY <1>2, <3>2 DEF OnTheWire, Fetching
      <4>2. QED BY <1>1, <1>2, <3>2, <4>1 DEF ClientInv, CacheInv, OnTime, OnTheWire, Fetching
    <3>3. QED BY <3>1, <3>2
  <2>2. QED BY <2>1 DEF OnTime
<1>6. Issued'
  BY <1>1, <1>2 DEF ClientInv, CacheInv, Issued, IssuedAt, Ends
<1>7. Fresh'
  BY <1>1, <1>2 DEF ClientInv, CacheInv, Fresh, Ends, Smaller
<1>8. QED BY <1>3, <1>4, <1>5, <1>6, <1>7 DEF ClientInv, CacheInv

\* The cache's token is fresh when it is served.
LEMMA TakeCachedInv ==
  ASSUME ClientInv, NEW q \in Queries, TakeCached(q)
  PROVE  ClientInv'
<1>1. /\ stage[q] = "locking" /\ Fetching = {} /\ token # 0 /\ now < tokenExpiry
      /\ Move(q, "waiting", token) /\ UNCHANGED <<breakerVars, cacheVars, issued>>
  BY DEF TakeCached, MutexFree, Cached
<1>2. token \in 1 .. Len(issued) /\ tokenExpiry \in Int /\ now \in Nat /\ TypeOK
  BY <1>1 DEF ClientInv, TypeOK, Breaker!TypeOK
<1>3. CacheEnd'
  BY <1>1 DEF ClientInv, CacheInv, CacheEnd, cacheVars, Ends
<1>4. Fetching' = {}
  BY <1>1, <1>2 DEF Fetching, Move, TypeOK
<1>5. Mutex'
  BY <1>4 DEF Mutex
<1>6. now <= Ends(token) - Smaller(Margin, issued[token].life) + RequestTimeout
  BY <1>1, <1>2, TokenShape, ClientAssumption DEF ClientInv, CacheInv, CacheEnd, Smaller
<1>7. "waiting" \in Stages \ {"idle", "issued"} /\ token' = token /\ tokenExpiry' = tokenExpiry
  BY <1>1 DEF Stages, cacheVars
<1>8. QED BY <1>1, <1>2, <1>3, <1>5, <1>6, <1>7, MoveInv

\* The mutex is free when a fetch begins, and the cache serves nothing.
LEMMA FetchInv ==
  ASSUME ClientInv, NEW q \in Queries, Fetch(q)
  PROVE  ClientInv'
<1>1. /\ stage[q] = "locking" /\ Fetching = {} /\ ~Cached
      /\ Move(q, "fetching", 0) /\ UNCHANGED <<breakerVars, cacheVars, issued>>
  BY DEF Fetch, MutexFree
<1>2. token \in 0 .. Len(issued) /\ tokenExpiry \in Int /\ TypeOK /\ Len(issued) \in Nat
  BY DEF ClientInv, TypeOK
<1>3. CacheEnd'
  BY <1>1 DEF ClientInv, CacheInv, CacheEnd, cacheVars, Ends
<1>4. Fetching' = {q}
  BY <1>1, <1>2 DEF Fetching, Move, TypeOK
<1>5. Mutex'
  BY <1>1, <1>4 DEF Mutex, Cached, cacheVars, breakerVars
<1>6. "fetching" \in Stages \ {"idle", "issued"} /\ token' = token /\ tokenExpiry' = tokenExpiry
  BY <1>1 DEF Stages, cacheVars
<1>7. QED BY <1>1, <1>2, <1>3, <1>5, <1>6, MoveInv

\* A stored token was issued while its request was in flight.
LEMMA StoreInv ==
  ASSUME ClientInv, NEW q \in Queries, Store(q)
  PROVE  ClientInv'
<1> DEFINE t == held[q]
<1>1. /\ stage[q] = "issued" /\ token' = t /\ tokenExpiry' = now + issued[t].life - Margin
      /\ Move(q, "waiting", t) /\ UNCHANGED <<breakerVars, issued>>
  BY DEF Store, Expiry
<1>2. TypeOK /\ t \in 1 .. Len(issued) /\ now \in Nat /\ mark[q] \in Nat /\ now' = now
  BY <1>1 DEF ClientInv, TypeOK, Breaker!TypeOK, breakerVars
<1>3. /\ mark[q] <= IssuedAt(t) /\ IssuedAt(t) <= now /\ now - mark[q] <= RequestTimeout
  BY <1>1 DEF ClientInv, CacheInv, Issued, OnTime, OnTheWire, Fetching
<1>4. issued[t].life \in Nat /\ Ends(t) \in Nat /\ IssuedAt(t) = Ends(t) - issued[t].life
  BY <1>2, TokenShape DEF IssuedAt
<1> HIDE DEF t
<1>5. CacheEnd'
  <2>1. /\ Ends(t) - Margin <= tokenExpiry' /\ tokenExpiry' <= Ends(t) - Margin + RequestTimeout
    BY <1>1, <1>2, <1>3, <1>4, ClientAssumption
  <2>2. Ends(token)' = Ends(t)
    BY <1>1 DEF Ends
  <2>3. QED BY <2>1, <2>2 DEF CacheEnd
<1>6. Fetching' = {}
  <2>1. Fetching = {q}
    BY <1>1 DEF ClientInv, CacheInv, Mutex, Fetching
  <2>2. QED BY <1>1, <1>2, <2>1 DEF Fetching, Move, TypeOK
<1>7. Mutex'
  BY <1>6 DEF Mutex
<1>8. now <= Ends(t) - Smaller(Margin, issued[t].life) + RequestTimeout
  BY <1>2, <1>3, <1>4, ClientAssumption DEF Smaller
<1>9. "waiting" \in Stages \ {"idle", "issued"} /\ tokenExpiry' \in Int
  BY <1>1, <1>2, <1>4, ClientAssumption DEF Stages
<1>10. QED BY <1>1, <1>2, <1>5, <1>7, <1>8, <1>9, MoveInv

\* The stages after that, and the failures, leave the cache alone.
LEMMA LaterInv ==
  ASSUME ClientInv, NEW q \in Queries,
         FetchFails(q) \/ Send(q) \/ WaitCancelled(q) \/ Answered(q) \/ RequestFails(q)
  PROVE  ClientInv'
<1>1. PICK to \in {"failed", "sending", "answered"}, t \in {0, held[q]} :
        /\ Move(q, to, t) /\ UNCHANGED <<breakerVars, cacheVars, issued>>
        /\ to = "sending" <=> t # 0
        /\ stage[q] \in {"fetching", "issued", "waiting", "sending"}
  <2>1. /\ stage[q] = "waiting" => held[q] # 0
        /\ 0 \in {0, held[q]} /\ held[q] \in {0, held[q]}
    BY DEF ClientInv, TypeOK
  <2>2. CASE Send(q)
    BY <2>1, <2>2 DEF Send
  <2>3. CASE FetchFails(q) \/ WaitCancelled(q) \/ RequestFails(q)
    BY <2>1, <2>3 DEF FetchFails, WaitCancelled, RequestFails
  <2>4. CASE Answered(q)
    BY <2>1, <2>4 DEF Answered
  <2>5. QED BY <2>2, <2>3, <2>4
<1>2. token \in 0 .. Len(issued) /\ tokenExpiry \in Int /\ TypeOK /\ Len(issued) \in Nat
  BY DEF ClientInv, TypeOK
<1>3. CacheEnd'
  BY <1>1 DEF ClientInv, CacheInv, CacheEnd, cacheVars, Ends
<1>4. Fetching' \subseteq Fetching
  BY <1>1, <1>2 DEF Fetching, Move, TypeOK
<1>5. Mutex'
  BY <1>1, <1>4 DEF ClientInv, CacheInv, Mutex, Cached, cacheVars, breakerVars
<1>6. /\ to \in Stages \ {"idle", "issued"} /\ to # "waiting" /\ stage[q] # "idle"
      /\ token' = token /\ tokenExpiry' = tokenExpiry /\ t \in 0 .. Len(issued)
      /\ t # 0 <=> to \in {"waiting", "sending"}
  BY <1>1, <1>2 DEF Stages, cacheVars, TypeOK
<1>7. QED BY <1>1, <1>2, <1>3, <1>5, <1>6, MoveInv

\* A token is issued between the request and its answer.
LEMMA IssueInv ==
  ASSUME ClientInv, NEW q \in Queries, Issue(q)
  PROVE  ClientInv'
<1>1. PICK life \in Lifetimes :
        /\ stage[q] = "fetching" /\ issued' = Append(issued, [life |-> life, ends |-> now + life])
        /\ stage' = [stage EXCEPT ![q] = "issued"] /\ held' = [held EXCEPT ![q] = Len(issued')]
        /\ UNCHANGED <<breakerVars, mark, cacheVars>>
  BY DEF Issue
<1> DEFINE new == [life |-> life, ends |-> now + life]
           n == Len(issued) + 1
<1>2. TypeOK /\ now \in Nat /\ life \in Nat /\ mark[q] \in 0 .. now /\ Len(issued) \in Nat
  BY ClientAssumption DEF ClientInv, TypeOK, Breaker!TypeOK
<1>3. new \in Tokens /\ new.life = life /\ new.ends = now + life
  BY <1>2 DEF Tokens
<1> HIDE DEF new
<1>4. /\ issued' = Append(issued, new) /\ issued' \in Seq(Tokens) /\ Len(issued') = n
      /\ issued'[n] = new /\ \A t \in 1 .. Len(issued) : issued'[t] = issued[t]
  BY <1>1, <1>2, <1>3 DEF new, TypeOK
<1>5. /\ stage' \in [Queries -> Stages] /\ stage'[q] = "issued" /\ held'[q] = n
      /\ held' \in [Queries -> 0 .. n] /\ now' = now
      /\ \A r \in Queries \ {q} : stage'[r] = stage[r] /\ held'[r] = held[r]
  BY <1>1, <1>2, <1>4 DEF TypeOK, Stages, breakerVars
<1>6. TypeOK'
  <2>1. Breaker!TypeOK'
    BY <1>1, <1>2 DEF TypeOK, Breaker!TypeOK, breakerVars
  <2>2. \A r \in Queries : held'[r] # 0 <=> stage'[r] \in {"issued", "waiting", "sending"}
    <3>1. held'[q] # 0 /\ stage'[q] = "issued"
      BY <1>2, <1>5
    <3>2. ASSUME NEW r \in Queries \ {q}
          PROVE  held'[r] # 0 <=> stage'[r] \in {"issued", "waiting", "sending"}
      BY <1>2, <1>5 DEF TypeOK
    <3>3. QED BY <3>1, <3>2
  <2>3. token' \in 0 .. n /\ tokenExpiry' \in Int /\ mark' \in [Queries -> 0 .. now']
    BY <1>1, <1>2, <1>5 DEF TypeOK, cacheVars
  <2>4. QED BY <1>4, <1>5, <2>1, <2>2, <2>3 DEF TypeOK
<1>7. Matching'
  BY <1>1, <1>5 DEF ClientInv, Matching, breakerVars
<1>8. Fetching' = Fetching /\ OnTheWire' = OnTheWire /\ Cached' = Cached
  BY <1>1, <1>5 DEF Fetching, OnTheWire, Cached, breakerVars, cacheVars
<1>9. OnTime' /\ Mutex'
  BY <1>1, <1>5, <1>8 DEF ClientInv, CacheInv, OnTime, Mutex
<1>10. \A t \in 1 .. Len(issued) : Ends(t)' = Ends(t) /\ issued'[t].life = issued[t].life
  BY <1>4 DEF Ends
<1>11. Issued'
  <2>1. \A r \in Queries : stage'[r] = "issued" => r = q
    BY <1>1, <1>5 DEF ClientInv, CacheInv, Mutex, Fetching
  <2>2. IssuedAt(held[q])' = now
    BY <1>2, <1>3, <1>4, <1>5 DEF IssuedAt, Ends
  <2>3. QED BY <1>1, <1>2, <1>5, <2>1, <2>2 DEF Issued
<1>12. CacheEnd'
  BY <1>1, <1>2, <1>10 DEF ClientInv, CacheInv, CacheEnd, TypeOK, cacheVars
<1>13. Fresh'
  BY <1>1, <1>2, <1>5, <1>10 DEF ClientInv, CacheInv, Fresh, TypeOK
<1>14. QED BY <1>6, <1>7, <1>9, <1>11, <1>12, <1>13 DEF ClientInv, CacheInv
\* A query that begins or ends holds no token and is not on the wire.
LEMMA EntryInv ==
  ASSUME ClientInv, NEW q \in Queries, [Breaker!Next]_(Breaker!vars), now' = now,
         \/ stage[q] = "idle" /\ stage' = [stage EXCEPT ![q] = "locking"] /\ mark' = mark
            /\ call'[q] # "idle"
         \/ stage[q] \in {"answered", "failed"} /\ stage' = [stage EXCEPT ![q] = "idle"]
            /\ mark' = [mark EXCEPT ![q] = 0] /\ call'[q] = "idle",
         \A r \in Queries \ {q} : call'[r] = call[r],
         UNCHANGED <<held, cacheVars, issued>>
  PROVE  ClientInv'
<1>1. TypeOK /\ now \in Nat
  BY DEF ClientInv, TypeOK, Breaker!TypeOK
<1>2. /\ stage' \in [Queries -> Stages] /\ held[q] = 0
      /\ stage[q] \in {"idle", "answered", "failed"} /\ stage'[q] \in {"locking", "idle"}
      /\ mark' \in [Queries -> 0 .. now]
      /\ stage'[q] = "idle" <=> call'[q] = "idle"
      /\ \A r \in Queries \ {q} : stage'[r] = stage[r] /\ mark'[r] = mark[r]
  <2>1. CASE stage[q] = "idle"
    BY <1>1, <2>1 DEF TypeOK, Stages
  <2>2. CASE stage[q] # "idle"
    <3>1. /\ stage[q] \in {"answered", "failed"} /\ stage' = [stage EXCEPT ![q] = "idle"]
          /\ mark' = [mark EXCEPT ![q] = 0] /\ call'[q] = "idle"
      BY <2>2
    <3>2. /\ stage' \in [Queries -> Stages] /\ stage'[q] = "idle"
          /\ \A r \in Queries \ {q} : stage'[r] = stage[r]
      BY <1>1, <3>1 DEF TypeOK, Stages
    <3>3. mark' \in [Queries -> 0 .. now] /\ \A r \in Queries \ {q} : mark'[r] = mark[r]
      BY <1>1, <3>1 DEF TypeOK
    <3>4. held[q] = 0
      BY <1>1, <3>1 DEF TypeOK
    <3>5. QED BY <3>1, <3>2, <3>3, <3>4
  <2>3. QED BY <2>1, <2>2
<1>3. TypeOK'
  <2>1. Breaker!TypeOK'
    BY <1>1, BreakerTyped DEF TypeOK
  <2>2. \A r \in Queries : held'[r] # 0 <=> stage'[r] \in {"issued", "waiting", "sending"}
    BY <1>1, <1>2 DEF TypeOK
  <2>3. QED BY <1>1, <1>2, <2>1, <2>2 DEF TypeOK, cacheVars
<1>4. Matching'
  BY <1>2 DEF ClientInv, Matching
<1>5. Fetching' = Fetching /\ OnTheWire' = OnTheWire /\ Cached' = Cached
  BY <1>2 DEF Fetching, OnTheWire, Cached, cacheVars
<1>6. OnTime' /\ Mutex'
  BY <1>2, <1>5 DEF ClientInv, CacheInv, OnTime, Mutex, OnTheWire, Fetching
<1>7. Issued' /\ CacheEnd' /\ Fresh'
  BY <1>2 DEF ClientInv, CacheInv, Issued, IssuedAt, CacheEnd, Fresh, Ends, Smaller, cacheVars
<1>8. QED BY <1>3, <1>4, <1>6, <1>7 DEF ClientInv, CacheInv

\* A query that the breaker lets in holds nothing yet.
LEMMA EnterInv ==
  ASSUME ClientInv, NEW q \in Queries, Enter(q)
  PROVE  ClientInv'
<1>1. /\ stage[q] = "idle" /\ stage' = [stage EXCEPT ![q] = "locking"]
      /\ UNCHANGED <<held, mark, cacheVars, issued>>
      /\ Breaker!AllowClosed(q) \/ Breaker!AllowTrial(q)
  BY DEF Enter
<1>2. /\ now' = now /\ call'[q] # "idle" /\ \A r \in Queries \ {q} : call'[r] = call[r]
  BY <1>1 DEF Breaker!AllowClosed, Breaker!AllowTrial, ClientInv, TypeOK, Breaker!TypeOK
<1>3. Breaker!Next
  BY <1>1 DEF Breaker!Next
<1>4. QED BY <1>1, <1>2, <1>3, EntryInv

\* A query that returns drops its token.
LEMMA ReturnInv ==
  ASSUME ClientInv, NEW q \in Queries, Return(q)
  PROVE  ClientInv'
<1>1. /\ stage[q] \in {"answered", "failed"} /\ Leave(q)
      /\ Breaker!RecordSuccess(q) \/ Breaker!RecordFailure(q)
  BY DEF Return, ReturnBody, ReturnError
<1>2. /\ now' = now /\ call'[q] = "idle" /\ \A r \in Queries \ {q} : call'[r] = call[r]
  BY <1>1 DEF Breaker!RecordSuccess, Breaker!RecordFailure, Breaker!Failure, ClientInv, TypeOK,
     Breaker!TypeOK
<1>3. Breaker!Next
  BY <1>1 DEF Breaker!Next, Breaker!Finish
<1>4. QED BY <1>1, <1>2, <1>3, EntryInv DEF Leave

\* The clock waits for the timeouts of the requests in flight.
LEMMA TickInv ==
  ASSUME ClientInv, Tick
  PROVE  ClientInv'
<1>1. /\ \A q \in OnTheWire : now - mark[q] < RequestTimeout
      /\ now' = now + 1 /\ call' = call /\ Breaker!Next
      /\ UNCHANGED <<stage, held, mark, token, tokenExpiry, issued>>
  BY DEF Tick, Breaker!Tick, Breaker!Next, queryVars, cacheVars
<1>2. TypeOK /\ now \in Nat /\ \A q \in Queries : mark[q] \in 0 .. now
  BY DEF ClientInv, TypeOK, Breaker!TypeOK
<1>3. TypeOK'
  <2>1. Breaker!TypeOK'
    BY <1>1, <1>2, BreakerTyped DEF TypeOK
  <2>2. mark' \in [Queries -> 0 .. now']
    BY <1>1, <1>2 DEF TypeOK
  <2>3. QED BY <1>1, <1>2, <2>1, <2>2 DEF TypeOK
<1>4. Matching'
  BY <1>1 DEF ClientInv, Matching
<1>5. Fetching' = Fetching /\ OnTheWire' = OnTheWire /\ OnTheWire \subseteq Queries
  BY <1>1 DEF Fetching, OnTheWire
<1>6. OnTime'
  BY <1>1, <1>2, <1>5, ClientAssumption DEF OnTime
<1>7. Mutex'
  <2>1. ~Cached => ~Cached'
    BY <1>1, <1>2 DEF Cached, TypeOK
  <2>2. QED BY <1>5, <2>1 DEF ClientInv, CacheInv, Mutex
<1>8. Issued'
  <2>1. ASSUME NEW q \in Queries, stage[q] = "issued"
        PROVE  mark[q] <= IssuedAt(held[q]) /\ IssuedAt(held[q]) <= now + 1
    <3>1. held[q] \in 1 .. Len(issued) /\ mark[q] <= IssuedAt(held[q]) /\ IssuedAt(held[q]) <= now
      BY <1>2, <2>1 DEF ClientInv, CacheInv, Issued, TypeOK
    <3>2. IssuedAt(held[q]) \in Int
      BY <1>2, <3>1, TokenShape
    <3>3. QED BY <1>2, <3>1, <3>2
  <2>2. QED BY <1>1, <2>1 DEF Issued, IssuedAt, Ends
<1>9. CacheEnd' /\ Fresh'
  BY <1>1 DEF ClientInv, CacheInv, CacheEnd, Fresh, Ends, Smaller
<1>10. QED BY <1>3, <1>4, <1>6, <1>7, <1>8, <1>9 DEF ClientInv, CacheInv

\* Every step of the client keeps the invariant.
LEMMA NextClientInv ==
  ASSUME ClientInv, [Next]_vars
  PROVE  ClientInv'
<1>1. ASSUME UNCHANGED vars PROVE ClientInv'
  <2> USE <1>1 DEF vars, breakerVars, queryVars, cacheVars
  <2>1. TypeOK'
    BY DEF ClientInv, TypeOK, Breaker!TypeOK
  <2>2. Matching' /\ OnTime' /\ Mutex'
    BY DEF ClientInv, CacheInv, Matching, OnTime, OnTheWire, Mutex, Fetching, Cached
  <2>3. Issued' /\ CacheEnd' /\ Fresh'
    BY DEF ClientInv, CacheInv, Issued, IssuedAt, CacheEnd, Fresh, Ends, Smaller
  <2>4. QED BY <2>1, <2>2, <2>3 DEF ClientInv, CacheInv
<1>2. ASSUME NEW q \in Queries, Refuse(q) PROVE ClientInv'
  <2>1. UNCHANGED vars
    BY <1>2 DEF Refuse, Breaker!Refuse, Breaker!vars, Breaker!breaker, vars, breakerVars
  <2>2. QED BY <1>1, <2>1
<1>3. QED
  BY <1>1, <1>2, EnterInv, TakeCachedInv, FetchInv, IssueInv, StoreInv, LaterInv, ReturnInv, TickInv
     DEF Next, Lock, FetchEnd, WaitEnd, SendEnd

\* The inductive invariant of the client: who may hold tokenMu, and how far the
\* cache's idea of a token's end can be from Twitch's (ensureToken, fetchToken).
THEOREM ClientInvHolds == Spec => []ClientInv
<1>1. QED BY InitClientInv, NextClientInv, PTL DEF Spec

\* The shape of every variable, and which stages hold a token.
THEOREM ClientTypeCorrect == Spec => []TypeOK
<1>1. ClientInv => TypeOK
  BY DEF ClientInv
<1>2. QED BY <1>1, ClientInvHolds, PTL

\* An expired token is sent only after a wait in the limiter that, with the
\* longest token request, used up the safety margin (ensureToken, wait, doQuery).
THEOREM ExpiredOnlyAfterLongWaitHolds == Spec => ExpiredOnlyAfterLongWait
<1>1. ASSUME ClientInv, NEW q \in Queries, stage[q] = "waiting", now >= Ends(held[q])
      PROVE  now - mark[q] >= Smaller(Margin, issued[held[q]].life) - RequestTimeout
  <2>1. TypeOK /\ held[q] \in 1 .. Len(issued) /\ now \in Nat /\ mark[q] \in Nat
    BY <1>1 DEF ClientInv, TypeOK, Breaker!TypeOK
  <2>2. issued[held[q]].life \in Nat /\ Ends(held[q]) \in Nat
    BY <2>1, TokenShape
  <2>3. mark[q] <= Ends(held[q]) - Smaller(Margin, issued[held[q]].life) + RequestTimeout
    BY <1>1 DEF ClientInv, CacheInv, Fresh
  <2>4. Smaller(Margin, issued[held[q]].life) \in Nat
    BY <2>2, ClientAssumption DEF Smaller
  <2>5. QED BY <1>1, <2>1, <2>2, <2>3, <2>4, ClientAssumption
<1>2. ClientInv => [\A q \in Queries :
        stage[q] = "waiting" /\ stage'[q] = "sending" /\ now >= Ends(held[q])
          => now - mark[q] >= Smaller(Margin, issued[held[q]].life) - RequestTimeout]_vars
  BY <1>1
<1>3. QED BY <1>2, ClientInvHolds, PTL DEF ExpiredOnlyAfterLongWait

\* A good token is not replaced before the margin (tokenMu over fetchToken).
THEOREM ReplacedOnlyAtEndHolds == Spec => ReplacedOnlyAtEnd
<1>1. ASSUME ClientInv, Next, token' # token, token # 0
      PROVE  now >= Ends(token) - Margin
  <2>1. PICK q \in Queries : Store(q)
    BY <1>1 DEF Next, Enter, Refuse, Lock, TakeCached, Fetch, Issue, FetchEnd, FetchFails, WaitEnd,
       Send, WaitCancelled, SendEnd, Answered, RequestFails, Return, ReturnBody, ReturnError, Leave,
       Tick, cacheVars
  <2>2. q \in Fetching
    BY <2>1 DEF Store, Fetching
  <2>3. ~(now < tokenExpiry) /\ Ends(token) - Margin <= tokenExpiry
    BY <1>1, <2>2 DEF ClientInv, CacheInv, Mutex, Cached, CacheEnd
  <2>4. TypeOK /\ token \in 1 .. Len(issued) /\ now \in Nat /\ tokenExpiry \in Int
    BY <1>1 DEF ClientInv, TypeOK, Breaker!TypeOK
  <2>5. Ends(token) \in Nat
    BY <2>4, TokenShape
  <2>6. QED BY <2>3, <2>4, <2>5, ClientAssumption
<1>2. ClientInv /\ [Next]_vars
        => [token' # token /\ token # 0 => now >= Ends(token) - Margin]_vars
  BY <1>1
<1>3. QED BY <1>2, ClientInvHolds, PTL DEF Spec, ReplacedOnlyAtEnd
-----------------------------------------------------------------------------
(* What the breaker's own proofs say of the client.                        *)

BreakerProofs == INSTANCE CircuitBreaker_proofs WITH Calls <- Queries

\* The breaker inside the client is the one CircuitBreaker_proofs is about.
LEMMA SameBreaker == Breaker!Spec => BreakerProofs!Spec
<1>1. Breaker!Init => BreakerProofs!Init
  BY DEF Breaker!Init, BreakerProofs!Init
<1>2. [Breaker!Next]_(Breaker!vars) => [BreakerProofs!Next]_(BreakerProofs!vars)
  BY DEF Breaker!Next, BreakerProofs!Next, Breaker!vars, BreakerProofs!vars, Breaker!breaker,
     BreakerProofs!breaker, Breaker!Tick, BreakerProofs!Tick, Breaker!AllowClosed,
     BreakerProofs!AllowClosed, Breaker!AllowTrial, BreakerProofs!AllowTrial, Breaker!TrialDue,
     BreakerProofs!TrialDue, Breaker!Refuse, BreakerProofs!Refuse, Breaker!Finish,
     BreakerProofs!Finish, Breaker!RecordSuccess, BreakerProofs!RecordSuccess,
     Breaker!RecordFailure, BreakerProofs!RecordFailure, Breaker!Failure, BreakerProofs!Failure,
     Breaker!AtThreshold, BreakerProofs!AtThreshold
<1>3. QED BY <1>1, <1>2, PTL DEF Breaker!Spec, BreakerProofs!Spec

\* A half-open breaker's trial is still somewhere in Query, whatever failed on
\* its way (allow, doQuery, recordSuccess, recordFailure).
THEOREM TrialOnItsWayHolds == Spec => []TrialOnItsWay
<1>1. Spec => []BreakerProofs!HalfOpenHasTrial
  <2>1. BreakerProofs!BreakerAssumption
    BY ClientAssumption DEF BreakerProofs!BreakerAssumption
  <2>2. BreakerProofs!Spec => []BreakerProofs!HalfOpenHasTrial
    BY <2>1, BreakerProofs!HalfOpenHasTrialHolds
  <2>3. Spec => Breaker!Spec
    BY ClientIsBreaker
  <2>4. QED BY <2>2, <2>3, SameBreaker, PTL
<1>2. ClientInv /\ BreakerProofs!HalfOpenHasTrial => TrialOnItsWay
  BY DEF ClientInv, Matching, BreakerProofs!HalfOpenHasTrial, TrialOnItsWay
<1>3. QED BY <1>1, <1>2, ClientInvHolds, PTL
=============================================================================
