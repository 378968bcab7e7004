# Verification of the BGL backend

BGL is a games-tracking service: a Go API server (`backend/cmd/api`), a Go worker
(`backend/cmd/worker`) that runs River jobs, one PostgreSQL database that both share, and a Next.js
front end. This directory holds TLA+ modules that model the backend's own logic, the TLC
configurations that check them, and theorems about them that TLAPS checks. Paths below are relative
to the repository's `backend/internal` unless they say otherwise.

## 1. Inventory

| Component | State | Operations | Interacts with | Hard behaviour |
|---|---|---|---|---|
| Account handlers `modules/auth/{register,verify_email,login,logout,forgot,reset}.go` | tables `auth.users`, `auth.verification_tokens`, `auth.sessions` (migration 00003) | six HTTP operations, each one to six SQL statements, four of them in a transaction | PostgreSQL (row locks, unique indexes), River's `InsertTx`, `library.CreateDefaultProfile` | any two requests interleave between statements at READ COMMITTED; any statement fails; commit answers get lost; tokens and sessions expire |
| Session middleware `modules/auth/session.go` | `auth.sessions.last_seen_at`, the user in the request context | authenticate a cookie, `RequireAuth` | every other route | races with logout, reset, expiry and deletion of the account |
| Mail workers `modules/auth/{jobs,email}.go` | none (River's job row) | `Work` of two job kinds | River, SMTP | at-least-once execution; a crash between sending and completing |
| Default profile `modules/library/bootstrap.go` | `library.profiles`, `library.lists` | `CreateDefaultProfile` | runs in register's transaction | must never exist without its account, or the reverse |
| Rate limiter `modules/catalog/ratelimit.go:9-63` | `tokens`, `last` under a mutex | `take`, `wait` | its callers' timers and contexts | sleepers wake in no order, newcomers take tokens first |
| Circuit breaker `ratelimit.go:65-138` | `state`, `consecutiveFails`, `trialInFlight`, `openedAt` under a mutex | `allow`, `recordSuccess`, `recordFailure` | `IGDBClient.Query` | results of calls admitted in one state are recorded in another |
| IGDB client `modules/catalog/igdb_client.go` | cached token and its expiry under `tokenMu` | `Query`, `ensureToken`, `fetchToken` | breaker, limiter, two HTTP services | the token ages while the limiter makes its holder wait |
| Payload normalisation `modules/catalog/igdb_normalize.go` | none | pure functions | import | zero and missing fields |
| Import `modules/catalog/{import,import_media,jobs}.go` | the catalog tables (migration 00004) | `ImportGame` in one transaction; media; the import job | PostgreSQL, IGDB client | concurrent imports of games that share companies, genres, parents |
| Job queue and worker `platform/jobs/jobs.go`, `backend/cmd/worker/main.go` | River's tables | work, retry, shut down | every job | ten slots; a shared shutdown deadline |
| API process `backend/cmd/api`, `platform/httpx/server.go`, `internal/apiserver` | listener | mount routes, serve, shut down | handlers | shutdown with requests in flight |
| HTTP helpers `platform/{apperr,httpx,requestid}` | none | error envelope, unmatched routes, request ids | handlers | boundary values |
| Pool, logging, OpenAPI generator, migrations, web front end, CI and docker files | none of their own | start-up and configuration | | none |

What makes each of them correct:

* **Accounts.** Live accounts have distinct addresses and names; an account comes with its profile,
  wishlist and verification token or not at all; a link works once, for its purpose, for its
  account, before it expires; the password changes only by such a link; a session that was logged
  out, revoked, expired or orphaned never authenticates; a reset ends the sessions of its account;
  every request is answered.
* **Mail.** A mailed link names a token that is in the database.
* **Limiter.** In every window at most the burst plus the window's refill is granted; a sleeper wakes
  not later than its token is due, and less than one clock unit early; sleepers leave.
* **Breaker.** Closed means fewer failures than the threshold since the last success; half-open has
  a trial running; trials are an open period apart; half-open ends.
* **IGDB client.** A token is sent after its expiry only if the limiter's wait used up the safety
  margin; a cached token is replaced only near its end; while the breaker is half-open its trial is
  on its way, however queries fail; every query returns.
* **Normalisation.** Whatever category and roles IGDB sends, the schema's CHECKs accept what is made
  of them; references, credits and media are
  those of the payload, each once, in order.
* **Import.** One game per IGDB id and per slug; a game's columns, links and media come from one
  payload; a parent that was there is linked; a later import never goes back behind what it found;
  every import ends, also after a deadlock.
* **Queue and worker.** Work is done before its job is completed, at least once; a job that has ended
  never moves; an orderly stop leaves no job behind; two runs of one job overlap only after one of
  its runs has outlived its context.
* **API process.** Every answer can be traced by one id, the client's if it sent one, through header,
  body and log; the code agrees with the status; exit code 0 means that every accepted request was answered; a signal ends it.

The hazards of the code, each at its line and with the properties that cover it, are the `hazards`
of `PROJECT.json`.

## 2. Plan

Done:

1. `Accounts`, statement by statement; its abstract specification `AccountLedger` and the refinement
   `AccountsRefinement`; `Accounts_proofs` for both.
2. `CircuitBreaker` and `TokenBucket` with their proofs.
3. `IGDBClient`: `Query`, the token cache and the composition with the breaker's module, with
   `IGDBClient_proofs`.
4. `Normalize` with `Normalize_proofs`; `CatalogImport`, with PostgreSQL's locks and deadlock
   detection; its abstract specification `GameCatalog` and the refinement `CatalogRefinement`;
   `CatalogImport_proofs` for both.
5. `AtLeastOnce`, the promise of the job queue, and `JobQueue`, which implements it, with
   `JobQueue_proofs`.
6. `ApiServer`: the process and the layers of a request, with `ApiServer_proofs`.

Every safety property, action property and refinement that a passing run checks is a theorem. What
is left is liveness, which only TLC can check. The safety facts that lie beneath it are proved: nobody
waits in a circle (`NoCircularWait` for `EveryRequestAnswered`, `NoSelfDeadlock` for imports of one
game), a half-open breaker has its trial under way (`TrialOnItsWay` for `HalfOpenLeft`), a query that
waits for `tokenMu` waits for one that is fetching (`Mutex` in `ClientInv`, for `EveryQueryReturns`),
and a job that the table calls running without a run was cut off, or its runs hang
(`OrphansWereCut`, for `EveryJobEnds`).

## 3. The modules

### Accounts

`Requests` are the HTTP requests of one behaviour; each is served once. A request's identity doubles
as that of everything it generates: the id of the user it registers, the opaque token it issues, the
session it opens, the password hash it stores, the job it inserts. The code draws all of these at
random (`gen_random_uuid`, `newOpaqueToken`, the salt of the hash), so distinct requests generating
distinct values is the only assumption. Looking a token up by its SHA-256 is looking it up.

| Variables | Code |
|---|---|
| `pc`, `args`, `subject`, `seenHash`, `reply` | the handler goroutine's position, input, `userID`, `passwordHash`, response |
| `pend`, `revoked` | rows written, and session rows deleted, by the open transaction: invisible to others but as locks |
| `inTime` | what `expires_at > now()` will say: `now()` is the transaction's start |
| `users`, `deleted`, `hash`, `verifiedBy` | `auth.users` and its `deleted_at`, `password_hash`, `email_verified_at` |
| `profiles`, `wishlists` | the rows `CreateDefaultProfile` writes |
| `tokens`, `usedBy`, `sessions`, `expired` | `auth.verification_tokens` with `used_at`, `auth.sessions`, and whose `expires_at` has passed |
| `jobs`, `inbox` | River's available jobs; links whose mail the SMTP server took |
| `dead`, `prior` | history: requests whose credential was void on arrival; the sessions that were there when a reset arrived |

Each SQL statement is an action (`ConsumeToken`, `SetPassword`, ...; the INSERT of the user is two), `Arrive` is the validation and
the beginning of the transaction, `Commit` publishes the transaction's rows together and may report
an error although it did, `Fail` is any statement failing, including the death of the API process:
the deferred rollback drops what was written. What a client is told of a failure depends on the
handler (`FailureAnswers`): a failing UPDATE of the token is answered like a bad link. Locks are read
off the open transactions. The INSERT of a user enters the two partial unique indexes one after the
other (`EmailKey`, `UsernameKey`), and at each may wait for a transaction that has inserted the same
key or is updating the row that has it (`HoldsEmail`, `HoldsUsername`); while it waits for the name it
already holds the address. A second UPDATE of a token, user or session waits (`TokenLocked`,
`UserLocked`, `SessionLocked`) and then evaluates its WHERE clause again.

The clients present the links that reached an inbox and the cookies some login set; an unknown token
or cookie matches no row and leaves no trace. `SoftDelete` is an operator setting `deleted_at`: no
code does. Every SELECT of a user filters on it; the UPDATEs of `verify_email.go:70` and `reset.go:72`
do not, so a link of a deleted account still works, on an account that nobody can sign in to. A foreign-key check takes a key-share lock, which conflicts
with none of the UPDATEs here.

`Waits(r, q)` reads off these guards for whom a statement waits; `NoCircularWait` says that this never
goes in a circle, so no handler is ever aborted by PostgreSQL's deadlock detector.

### CircuitBreaker

One action per method under the mutex, split where `allow` answers differently (`AllowClosed`,
`AllowTrial`, `Refuse`). `call` remembers how a running `Query` was let in, so that results of calls
admitted while closed may be recorded while open or half-open.

### TokenBucket

`Take` is the critical section, `Call` and `Retry` the two places `wait` runs it, `Cancel` the
context's end. A token is `Cost` units of credit and a clock unit, the nanosecond of
`time.Duration`, refills `Rate`, so arithmetic is on integers and a rate is any fraction. `Wait`
drops a fraction of a clock unit as the conversion to `time.Duration` does: a sleeper may wake early,
find its token not quite there and sleep again, for less than a clock unit, which is zero. Times are relative (`since`, `timer`), which keeps the state space finite without a bound
on the clock. `age`/`spent` are a monitor that opens a window at any moment.

### AccountLedger and AccountsRefinement

The account service as its clients see it: a register, a reset, a login is one atomic change of the
committed tables. `AccountsRefinement` reads the ledger's accounts and links off `Accounts`' tables
(the address and name of an account are its registration's arguments, `libraries` are the accounts
that have a profile and a wishlist, `present` the sessions there were when a reset arrived) and states `KeepsLedger == Ledger!Spec`: every statement before
the deciding one is a stutter, and the deciding one is a whole operation; the arrival of a reset is
the ledger's `Ask`. The ledger's `Reset` sets the password and ends, in one step, sessions of that
account only and all of them that were there at `Ask`; those opened in between may survive it (see
the finding below). The rows are named
(`Account`, `Link`, `Session`) so that the proof can say which of them a step changes, and `LedgerInv`
(in `Accounts_proofs`) is what that proof needs of the handlers besides the account service's own
invariant.

### IGDBClient

`stage[q]` is where a `Query` stands, `held[q]` the token it has, `mark[q]` when it got there;
`token` and `tokenExpiry` are the cache, `Fetching` the holder of `tokenMu`. The breaker is not
modelled again: the client's actions are composed from those of `CircuitBreaker` (INSTANCE), so that
by construction it is a behaviour of that module's specification. The limiter's wait lasts any time
(`TokenBucket` says how long). Twitch and IGDB are external: `Issue` fixes a token's life before its
answer is read, every request may fail, and `RequestTimeout` bounds it. `TrialOnItsWay` relates the two
modules' states: a half-open breaker, which refuses everybody else, still has its trial among the
queries that are under way.

### Normalize

`NormalizeIGDBGame` and `importGameMedia`, one action per iteration of a loop, over payloads whose
ids, slugs and flags matter and whose texts do not. `list` is a loop's `seen` and `out`. The
properties define the results by sets and sequences of the payload, without loops. `PayloadAssumption`
only says what a payload decodes to: records of those types, with any integer as the category and
lists of any length. `AcceptedBySchema` is about the CHECKs on type and role; a title or slug that the
database refuses is not in the model.

### CatalogImport

A job is a run of `Work`: `Query` fetches the payload, then each statement is an action, split where
PostgreSQL may make it wait more than once: an UPDATE of a game waits for its row (`LockGame`), for
the unique index on the slug (`WriteSlug`), and for the key-share lock on the parent
(`ReferenceParent`). `tx[j]` holds what j's transaction has written; `WaitsFor` reads the blockers
off the others' transactions, and `Deadlock` aborts a member of a cycle. `Commit` publishes and may
report an error although it did. `Fail` is any statement failing or the worker dying.
`ImportAssumption` says of IGDB that a game keeps its id and its versions only grow, which is what
`version` means, and of a payload that its references are lists.

River's jobs of one kind and game are not unique, so several imports of one game may run at once.
`Rivals(j)` are those among them that j waits for, and `NoSelfDeadlock` says that they line up and
never deadlock, whatever row or index they meet at. Imports of different games do deadlock (references
written in the order of each payload); PostgreSQL then aborts one and River repeats it.

### GameCatalog and CatalogRefinement

The catalog as its readers see it: of each IGDB id the description that is `shown` (slug, columns,
links, media, parent) and the key, `game`, by which libraries know it. `Say` is IGDB giving a
description; `Import` replaces the whole of one game's description by one that was given, with the
parent linked or left out, keeps the game's key, and takes no slug from another game. `CatalogRefinement`
reads `shown` and `game` off the committed tables through `external_game_ids`, as the code's lookups
do, and states `KeepsCatalog == Catalog!Spec`: a job's `Commit` is the whole `Import`, also when it
reports an error although it committed; `Publish` is `Say`; every other statement, failure, abort or
repetition is a stutter.

### AtLeastOnce and JobQueue

`AtLeastOnce` is what the handlers and `Work` methods rely on. `JobQueue` has the river_job row
(`state`, `attempt`), the worker processes with the phases of `main` (`up`, `closing` in
`server.Shutdown`, `draining` in `riverClient.Stop`, both on one deadline), and the runs of `Work`:
returned (`done`), hanging in an SMTP dialogue (`hung`), cut off by the end of their process (`cut`,
history; `late` is the history of which jobs had a run that hung). River is a library: `Fetch`, `Promote`, `Rescue` and `Record` are modelled from its use and
marked external. `Record` changes a row only while it says "running", so that the late result of a
rescued run can be taken for that of a later one; the promise holds all the same. Where a failure
leaves the row (`AfterFailure`) depends on the attempt that the run was fetched with, for the rescuer
on the row's: the late failure of an earlier attempt sends a job back that is in its last one, and
the job is then fetched more than `MaxAttempts` times. Each attempt can do so once, so `MaxFetches`,
which bounds the fetches, is never reached (a job held back by it would violate `EveryJobEnds`).

### ApiServer

`phase` follows `RunUntilSignal` and `main`; `pc[r]` is the layer that handles a request: session
middleware, mux with its handlers, logging. `status` is `statusWriter`'s, `reply` what the client
gets, `log` the lines. `sent[r]` is the X-Request-ID that came with the request, `chosen` (history) the
requests whose error an operation gave a code of its own; all other errors, Huma's included, should
have the code of their status. The paths without a pattern are an unknown one, a wrong method and an
unclean one, to which ServeMux alone would answer 404, 405 and a redirect; `Redirect` is the unclean
path that a pattern matches. `Hang` is a handler whose statement is not answered: only `/readyz` gives its
ping a deadline.

## 4. Runs

| Run | Question | Result |
|---|---|---|
| `accounts_all` | every operation together (4 requests): are void credentials refused, do resets end earlier sessions, and is what the database shows a sequence of whole operations (`KeepsLedger`)? | yes |
| `accounts_register` | overlapping registrations, 2 addresses, 2 names, with their mails | unique, atomic, no mail without its token; no circle of waits at the two keys |
| `accounts_tokens` | links raced, replayed, expired, misdirected (5 requests) | redeemed once, own effect only; no circle of waits |
| `accounts_fair` | does everyone get an answer (4 requests)? | yes |
| `accounts_stale` | does every session in the table belong to the current password? | **no** |
| `breaker` | three overlapping calls, threshold 2, pause 2 | hold, and half-open ends |
| `bucket` | four waiters, burst 2, waits that are truncated | the bound holds, no sleeper wakes late, and every one leaves |
| `igdb` | two queries, tokens shorter and longer than the margin | a half-open breaker's trial always on its way; an expired token only after a long wait; every query returns |
| `normalize` | every small payload | as defined by sets |
| `import` | two jobs on one game that is renamed, on a game and its add-on with shared genres in opposite order, or on two games that exchange slugs | readers see whole imports only (`KeepsCatalog`), one row per game, parent resolved, no deadlock among imports of one game, every import ends |
| `jobs` | two jobs of three attempts, a process of two slots that stops, crashes and hangs | promise kept, orphans only where a run was cut or hangs, runs of a job overlap only after one hung; every job ends unless hanging runs take every slot |
| `api` | two requests, with or without an id, every route and answer, a hanging handler, shutdown at any point | traceable, codes agree with statuses, clean exit, ends after a signal |

Where a run checks liveness it uses the specification with fairness (`FairSpec`), which has the same
reachable states, so its safety properties are checked in the same run.

What these runs make precise and a reader of the code may not expect:

* An expired token is sent when the limiter's wait lasts longer than the margin less the longest token
  request, and a token that lives no longer than the margin is used by the query that fetched it but
  never served from the cache (`ExpiredOnlyAfterLongWait`, `ReplacedOnlyAtEnd` hold with exactly
  these bounds).
* An import may overwrite a newer version if its query came first and its commit last. `NoRegression`
  holds only for imports that began after the newer one was committed; an overlap is repaired by the
  next import, not by this code.
* Imports of one game may wait for each other, but never in a circle. This rests on the lookup taking
  no lock, so that the UPDATE's own is the first: with `FOR SHARE` in the lookup (the property's
  mutant) two imports would hold what the other needs.
* An add-on imported before its parent keeps a NULL parent until it is imported again
  (`ParentResolved` speaks of imports that begin with the parent there).
* A run that hangs is rescued, and its late result is recorded on the row of the run that followed:
  with a third attempt the row then goes back and a further run starts while that one still works. So
  runs that send mail may overlap although only the first hung; imports, which observe their context,
  never do (`OverlapOnlyAfterHang`; with two attempts the weaker case cannot be seen).
* Work may be done although its job is discarded, and done twice; never is a job completed whose
  work was neither done nor skipped for want of a mailer or IGDB client.

**Finding** (`accounts_stale`). `reset_test.go:82` says "a valid token changes the password and
revokes existing sessions". Login reads the hash and inserts the session in two statements without a
transaction (`login.go:87`, `:125`); a reset that commits between them deletes the sessions it can
see, and the login then adds one opened with the old password, which stays valid for 30 days. What
does hold, and is checked, is `ResetRevokesPrior`: every session that existed when the reset arrived
is gone.

### Bounds

* Requests: 3 to 5. The longest interesting scenario (register, two forgots, two resets of one
  account; or register, forgot, reset and two logins) has five requests. Larger numbers are what
  the theorems are for.
* `Kinds` restricts each instance to the operations its question needs; `accounts_all` has all but the
  end of a mail job, which `accounts_register` has.
* One address and name, except where registrations compete: two of each give same-address,
  same-name, both-same and disjoint pairs. One good password suffices, since properties compare
  hashes, which are fresh per request; `weak` exercises the early return.
* `MaxFails`, `MaxTime` stop the breaker's two counters; both are far beyond the threshold and two
  open periods. `MaxWindow` covers a full refill of the bucket; `Cost = 3` with `Rate = 2` makes a period
  one and a half clock units, so that waits are truncated, some to zero.
* Imports: two jobs overlap in every way or follow each other, and two attempts let a lost commit answer
  be followed by a repetition. `versions` starts as any of three worlds (`MCCatalogImport`): one game in
  two versions with a company in two roles, which another game shares; a parent and a child with two
  shared genres in opposite order; two games that exchange slugs. `target` starts as any assignment of
  ids to jobs. Two jobs show every deadlock of two imports; that no longer chain arises is
  `NoSelfDeadlockHolds`.
* `JobQueue`: one process of two slots, so that a job overlaps with itself and a healthy run shares
  the process with a hanging one; its restarts stand for further processes, and the theorems are for
  any number. `MaxAttempts = 3` lets the late result of a rescued run meet the next and start a third;
  `MaxStops = 2` bounds shutdowns and crashes together: a job may be left behind twice.
* `IGDBClient`: margin 2, lives 1 and 3, timeout 1: a token may be shorter than the margin, expire
  during a wait, and be replaced; threshold 1 opens the breaker within the instance.
* `ApiServer`: two requests are enough for one to hang while the other is served; the layers of a
  request share nothing with other requests but the log. Both may come with the same id `x`, or none.
* `Normalize`: lists of up to four elements over two ids have every pattern of repetition of two keys;
  categories are those of the map, the next ones, -1 and 999.
* Symmetry over requests only in runs without liveness.
* `Finished` lets `Accounts` stop when all requests are answered, so TLC's deadlock check is on
  in every module with such a final state: no request, import or query can be stuck with everyone else
  waiting. The `jobs` run switches it off: a worker without jobs has nothing to do.

### Fairness

* `Accounts!FairSpec`: each request's next statement is weakly fair. `net/http` runs a goroutine per
  request, and PostgreSQL answers a statement that waits for no lock. Failures need no fairness.
* `CircuitBreaker!FairSpec`: an admitted query returns: the HTTP calls have `RequestTimeout`.
  Nothing is assumed of new calls or of which result comes.
* `IGDBClient!FairSpec`: HTTP requests have `requestTimeout`, the limiter's wait has the context of the
  job, to which River gives a minute, and Go's mutex is fair to a waiter in the long run (strong
  fairness of `Lock`). Twitch and IGDB owe nothing.
* `CatalogImport!FairSpec`: River runs an available job, PostgreSQL answers a statement that waits for
  no lock and resolves some deadlock while there is one. Failures need no fairness.
* `JobQueue!FairSpec`: River's loops run, a run that does not hang returns, a deadline passes, and
  somebody (an orchestrator; nothing in the repository) restarts the worker.
* `ApiServer!FairSpec`: goroutines run unless they hang, and Shutdown's context has a deadline.
* `TokenBucket!FairSpec`: time passes and a fired timer's goroutine runs. Each call of `wait` happens
  once: with endless newcomers a sleeper can starve, and no property says otherwise.

## 5. Theorems

All proofs are for arbitrary constants under the named assumptions only (`IdentifiersDisjoint`,
`NoneIsNew`, `KindsOK`, `BreakerAssumption`, `BucketAssumption`, `ClientAssumption`,
`PayloadAssumption`, `ImportAssumption`, `QueueAssumption`, `ServerAssumption`), which TLC evaluates in
every run of their modules. A module's inductive invariant stands at the head of its proofs module;
TLC checked each on the instance of the module's run before it was proved.

* `Accounts_proofs`: `TypeCorrect`, `UniqueLiveHolds`, `OutboxSoundHolds`, `RedeemedOnceHolds`,
  `UsedOnceHolds`. None of the last four is inductive. `Progress` says that the position of a
  request determines which rows its transaction has written and that an unanswered request has
  published nothing; almost every argument starts there. `KeysReserved` says of each of the two keys
  that a pending one is neither taken nor pending elsewhere: `EmailKey` and `UsernameKey` establish it
  by waiting, and it makes publishing the keys at Commit safe. `Issued`, `Spending` and `Spent` say a token being spent is unused and
  locked by its spender alone, and that `usedBy` names the request that presented it: two commits
  can therefore never spend one token. Each step lemma first disposes of the steps that do not touch
  the facts in question (`QuietKeys`, `QuietTokens`), then treats the few that do.
* `Accounts_proofs`, what the operations do: `RegistrationAtomicHolds`, `PasswordNeedsTokenHolds`,
  `VerifiedByOwnTokenHolds`, `ResetRevokesPriorHolds`, `DeadCredentialRefusedHolds`. Their common
  ground is that only a commit publishes (`OnlyCommitPublishes`, and `CommitPublishes` for what it
  publishes, by its operation). `CommitSpends` says what a commit that spends a token has locked: an
  unused token of its own purpose, issued for its account. `OwnToken` adds that a registration's
  token is for the account it registers, which `VerifiedByOwnToken` needs to be inductive.
  `Revoking` says that when a reset is about to commit, the sessions it found on arrival are gone or
  among its pending deletes. `RevokedInv` is the induction for void credentials: a session's
  account is in the tables (`LoginKnown`), a request presents what some login or link gave it
  (`Presented`), and what is void stays void (`StaysVoid`), since no row is inserted twice and
  neither `expired`, `usedBy` nor `deleted` is ever undone.
  `AccountsInvHolds` collects the inductive parts.
* `Accounts_proofs`, `NoCircularWaitHolds`: the locks are ordered (address, name; token, user, sessions),
  and `WaitsForward` says that who is waited for is past the statement that the other waits at, so
  that a registration that holds its address while it waits for its name waits for one that has both: `Progress`
  says where a transaction that has written a row stands, and `RevokesOwn` where one that has deleted a
  session does. Two applications give chains of at most two waits.
* `Accounts_proofs`, `KeepsLedgerHolds`: the refinement of `AccountLedger`. Besides `AccountsInv` it
  needs `LedgerInv`: a redeemed link came by mail (`Mailed`), a reset link is issued for an account
  that exists (`ForgotKnown`), so is a session (`LoginKnown`), and only a reset that is about to
  commit has deleted sessions, all of its own account (`RevokesOwn`). None of these follows from what
  a single operation does: `ForgotKnown` and `LoginKnown` hold because no account ever leaves the
  table between two statements, `RevokesOwn` because whom a session belongs to is fixed by then.
  `NextFollows` has one step per action: a commit is the ledger's Register, Forgot, Verify or Reset
  (`CommitRegisters`, `CommitForgets`, `CommitRedeems`, of which a reset needs `Revoking`: the sessions of
  its arrival are gone or among its deletes), the arrival of a reset its Ask (`StartAsks`), an INSERT or DELETE of a session outside a
  transaction its Login or Logout (`InsertLogsIn`, `DeleteLogsOut`), mails, deletions and expiry its
  own (`WorldFollows`), and every other statement leaves the tables and so the ledger as they are
  (`TablesFollow`, with `RowsFixed` for what a row says once it is written).
* `CircuitBreaker_proofs`: `BreakerInv` is inductive; `ClockOrder` (a trial is never younger than the
  opening that follows it) is what `TrialsSpacedHolds` needs beyond the invariants themselves.
* `TokenBucket_proofs`: `WindowInv` strengthens `RateBound` by what could still be granted now.
  `TimelyWakeup` is inductive with the types: while nobody takes a token, each clock unit moves `Rate`
  units from the timer to the bucket, and `WaitBounds` says what the truncated division leaves.
* `JobQueue_proofs`: `QueueInv` is inductive: `Queued` (a run's row exists), `WorkDone` (a run that returned nil did
  or skipped its job), `OneWorks` (the only run of a job none of whose runs hung, and its row says
  "running") and `RunOrCut` (a row says "running" for a run that goes on or was cut off). The last two
  give `OverlapOnlyAfterHangHolds` and `OrphansWereCutHolds`. `Record` and the end of a process, which
  several operations share, have lemmas of their own. `PromiseHolds` is the refinement of
  `AtLeastOnce`: `StageMoves` and `FailureMoves` say how the promise's view of a row moves, and
  `NextKeepsPromise` maps each operation to a step of the promise or a stutter; recording a success
  needs `WorkDone`, and a result that finds its row no longer "running" is a stutter.
* `IGDBClient_proofs`: `ClientStepsBreaker` maps each action to the action of the breaker it contains, or
  to a stutter, which makes the client a behaviour of the breaker (`ClientIsBreaker`). The invariants of `CircuitBreaker_proofs` then
  hold of the client's breaker (`SameBreaker`), and `HalfOpenHasTrial` with `Matching` (the breaker
  counts as running exactly the queries that are) gives `TrialOnItsWayHolds`. `CacheInv` is the
  invariant on times: `OnTime` and `Issued` place a token's issue between its request and now,
  `CacheEnd` places `tokenExpiry` within one request's duration of the margin before the token's end,
  `Mutex` says that one query fetches, and only while the cache is void, and `Fresh` that a query enters
  the limiter while much of its token's life is left. `ExpiredOnlyAfterLongWaitHolds` is `Fresh` at
  the end of the wait, and `ReplacedOnlyAtEndHolds` is `CacheEnd` with `Mutex`.
* `Normalize_proofs`: `LoopInv` says what a loop has made of the items before its index: the first
  occurrences among them, their credits, the gallery of those with an image. One lemma per list says
  how its definition grows by an item (`FirstsGrow`, `CreditsGrow`, `ShownGrow`, `GalleryGrows`),
  and `AddAppends` and `AddOnce` what the shared step on `seen` and `out` does. At the end of a loop its
  index has passed the list and `GameNormalizedHolds` and `MediaReplacedHolds` are what is left.
* `CatalogImport_proofs`: `ImportInv` has the catalog's own properties and, for each run, `Position` (how
  far it has come says what its transaction has written), `OwnGame` (it writes a new row of its own
  or has locked the one of its id), `Reserved` and `Apart` (what it has put into a unique index is
  neither committed nor pending elsewhere, and no other run has locked its row), `Answer` (its payload
  is one of its id, no older than the row it found), `Parent` (the parent it found is the payload's)
  and `Loop` (the links so far are those of the tables and references passed). None of the
  properties is inductive alone: a commit publishes a whole transaction, and that it may do so depends on
  what every other transaction holds. A step of one run disturbs only its own part, and what it adds to
  the locks (`LocalStep`, `WriteShape`); `CommitCatalog` treats the publication. Of the references'
  loop only one step at a time is needed (`HeadAndTail`), so nothing is proved by induction over them.
* `CatalogImport_proofs`, `KeepsCatalogHolds`: the refinement of `GameCatalog`. `ImportInv` is enough for
  it. `CommitImports` shows that a commit is one `Import`: `KeyOfGame` and `KeyCases` say, by
  `OneGamePerId`, which row a reader finds for an id after it, `IdCases` that the parent's row is still
  read as the same id, and `Reserved` is the guard on slugs and on a new game's key. `Unseen` is a step
  that leaves the committed tables alone, `PublishSays` the one of IGDB, and `NextKeepsCatalog` has a step
  per action.
* `CatalogImport_proofs`, `NoSelfDeadlockHolds`: `RivalWaits` says at which of three places an import
  waits for another of its game (the game's row, the index on slugs, the index on external ids) and what
  the other has written; `OneWriter` that only one of them holds the row or has inserted the id. So one
  that is waited for has passed the row's lock or inserted the slug, and the only chain of two waits ends
  with an update that waits, at the index on slugs, for an insert that waits for nobody.
  One strengthening is needed: `ForeignParent`, a game inserted by a run does not have itself as the
  parent that the run found, since otherwise its key-share lock on that row would be one more
  place to wait at.
* `ApiServer_proofs`: `RequestInv` says that a request a layer still works on has no answer, and
  one that has its answer carries one id in header, body and log, and that the lines under a new id are
  its own (`OwnLines`, which every other request's step must keep: `Kept`); `ClosedLast` that nothing runs any
  more when the deferred calls do. `WriteInv`, `SuccessInv`, `EnvelopeInv` and `ErrorInv` treat the ways to answer
  once for all the layers that use them.

Only model-checked: the liveness properties (`EveryRequestAnswered`, `HalfOpenLeft`,
`EveryWaiterLeaves`, `EveryQueryReturns`, `EveryImportEnds`, `EveryJobEnds`, `StopsAfterSignal`), since fairness and
ENABLED are beyond the prover, and the property that the finding refutes. Proved and in no run: the inductive invariants
(`AccountsInv`, `LedgerInv`, `ClockOrder`, `WindowInv`, `ClientInv`, `NormalizeInv`, `ImportInv`,
`QueueInv`, `ServerInv`, `ForeignParent`), `UsedOnce`, `UniqueSlugs` (which `KeepsCatalog` contains),
and the `TypeOK` of the modules whose runs check deeper properties.

## 6. Not modelled

`last_seen_at`, user agent and IP hash; the argon2 parameters and the timing-safe dummy comparison;
rendering of mails and the SMTP dialogue's commands; the rounding of float64 in the limiter;
titles, texts and URLs of the catalog and the names in its reference tables; how a request id is
generated and encoded (`requestid.go`, a conversion without state: `ApiServer` only needs ids to be
distinct); panics of handlers, the
server's read and write timeouts, the Allow header that MuxErrors drops; River's own connections and
intervals; and the components marked `not_modelled` in `PROJECT.json`, with the reason there: opening
a pool, configuring a logger and printing the OpenAPI document are start-up glue without state, and
the front end has no protocol state of its own. The 503 answers of a server without a database are in
`ApiServer`, not in `Accounts`.

A statement that waits for a row lock is one action, taken when the wait ends: PostgreSQL evaluates
the WHERE clause again on the row's new version then, and what it saw before the wait has no effect.
The exception is `now()`, which is the transaction's start and is kept in `inTime`.
