------------------------------ MODULE Accounts ------------------------------
(***************************************************************************)
(* The account service of the API server (backend/internal/modules/auth,   *)
(* with the default-profile hook of modules/library): register, verify     *)
(* e-mail, log in, log out, forgot password, reset password and the        *)
(* session middleware, run as concurrent HTTP requests against one         *)
(* PostgreSQL database at READ COMMITTED, plus the River jobs that mail    *)
(* the tokens.                                                             *)
(*                                                                         *)
(* A request is one element of Requests and is served once; its identity   *)
(* doubles as the identity of everything it generates (user id, opaque     *)
(* token, session token, password hash, job), all of which the code draws  *)
(* at random.  Each SQL statement is one action.  A statement inside a     *)
(* transaction writes to pend[r] (and revoked[r]), invisible to the other  *)
(* requests except as a row lock or a pending unique key; Commit publishes *)
(* it, Fail drops it.                                                      *)
(***************************************************************************)

CONSTANTS Requests,       \* the requests clients send
          Emails,         \* e-mail addresses, up to citext equality
          Usernames,      \* user names, up to lower()
          Passwords,      \* passwords a client may send
          WeakPasswords,  \* those validatePassword refuses
          Kinds,          \* operations and outside events this instance enables
          None            \* "no value": NULL in a column, an absent argument

Ops == {"register", "verify", "login", "logout", "forgot", "reset", "whoami"}
Events == {"mail", "endjob", "expire", "softdelete"}

\* Validation keeps '@' out of user names and requires it in e-mails
\* (validate.go), so a login identifier cannot be read both ways.
ASSUME IdentifiersDisjoint == Emails \cap Usernames = {}
ASSUME NoneIsNew == /\ None \notin Requests
                    /\ None \notin Emails \cup Usernames \cup Passwords \cup Ops
ASSUME KindsOK == Kinds \subseteq Ops \cup Events /\ WeakPasswords \subseteq Passwords

VARIABLES
  \* The requests.
  pc,        \* pc[r]: the statement r executes next, "idle" or "done"
  args,      \* args[r]: what the client sent
  subject,   \* subject[r]: the user id r works on
  seenHash,  \* seenHash[r]: the password_hash login r has read
  inTime,    \* requests whose token had not expired when their transaction began
  pend,      \* pend[r]: the rows r has written in its open transaction
  revoked,   \* revoked[r]: the session rows deleted in r's open transaction
  reply,     \* reply[r]: "none" before the answer, then "ok", "rejected", "error"
  \* The committed database.
  users, deleted, profiles, wishlists, hash, verifiedBy,
  tokens, usedBy, sessions, expired, jobs,
  \* The outside world.
  inbox,     \* tokens whose mail has been accepted by the SMTP server
  \* History, read by properties only.
  dead,      \* requests whose credential was already void when they arrived
  prior      \* prior[r]: the sessions that existed when reset r arrived

reqVars  == <<pc, args, subject, seenHash, inTime, pend, revoked, reply, dead, prior>>
userVars == <<users, deleted, profiles, wishlists, hash, verifiedBy>>
credVars == <<tokens, usedBy, sessions, expired>>
mailVars == <<jobs, inbox>>
vars     == <<reqVars, userVars, credVars, mailVars>>

NoArgs == [op |-> None, email |-> None, username |-> None, password |-> None, cred |-> None]

Stages == {"idle", "emailKey", "usernameKey", "createProfile", "lookupEmail", "insertToken", "insertJob",
           "consume", "setVerified", "setPassword", "revokeSessions", "lookupLogin",
           "insertSession", "deleteSession", "authenticate", "commit", "done"}

Arguments == [op : Ops \cup {None}, email : Emails \cup Usernames \cup {None},
              username : Usernames \cup {None}, password : Passwords \cup {None},
              cred : Requests \cup {None}]

Rows == {"email", "user", "profile", "wishlist", "token", "job", "consume", "verify", "password"}

Init ==
  /\ pc = [r \in Requests |-> "idle"]
  /\ args = [r \in Requests |-> NoArgs]
  /\ subject = [r \in Requests |-> None]
  /\ seenHash = [r \in Requests |-> None]
  /\ pend = [r \in Requests |-> {}]
  /\ revoked = [r \in Requests |-> {}]
  /\ reply = [r \in Requests |-> "none"]
  /\ prior = [r \in Requests |-> {}]
  /\ inTime = {} /\ dead = {}
  /\ users = {} /\ deleted = {} /\ profiles = {} /\ wishlists = {}
  /\ hash = [u \in Requests |-> None]
  /\ verifiedBy = [u \in Requests |-> None]
  /\ tokens = {} /\ sessions = {} /\ expired = {}
  /\ usedBy = [t \in Requests |-> None]
  /\ jobs = {} /\ inbox = {}

-----------------------------------------------------------------------------
(* What the statements read.                                               *)

Live == users \ deleted                         \* rows with deleted_at IS NULL

\* The SELECT of login, forgot: at most one live row (see UniqueLive).
Lookup(ident) == {u \in Live : ident \in {args[u].email, args[u].username}}

SameEmail(r, q)    == args[q].email = args[r].email
SameUsername(r, q) == args[q].username = args[r].username
SameKey(r, q)      == SameEmail(r, q) \/ SameUsername(r, q)

\* q's transaction has locked u's row.
HoldsUser(q, u) == pend[q] \cap {"verify", "password"} # {} /\ subject[q] = u

\* q's transaction decides whether r's key may enter the partial unique index: it
\* has inserted the same key, or it is updating the row that has the key.
HoldsEmail(q, r) == \/ "email" \in pend[q] /\ SameEmail(q, r)
                    \/ \E u \in Live : SameEmail(u, r) /\ HoldsUser(q, u)
HoldsUsername(q, r) == \/ "user" \in pend[q] /\ SameUsername(q, r)
                       \/ \E u \in Live : SameUsername(u, r) /\ HoldsUser(q, u)

\* Keys that are committed there.
EmailTaken(r)    == \E u \in Live : SameEmail(u, r)
UsernameNeverTaken(r) == FALSE   \* mutant: no unique index on the user name
UsernameTaken(r) == \E u \in Live : SameUsername(u, r)

Purpose(t) == IF args[t].op = "register" THEN "verify" ELSE "reset"

\* Mutant of Consumable: the purpose is not compared.
ConsumableAnyPurpose(r) == LET t == args[r].cred IN
  t \in tokens /\ usedBy[t] = None /\ r \in inTime

\* The WHERE clause of consumeVerificationToken; now() is the start of the
\* transaction, hence inTime.
Consumable(r) == LET t == args[r].cred IN
  t \in tokens /\ Purpose(t) = args[r].op /\ usedBy[t] = None /\ r \in inTime

TokenUnlocked(r) == FALSE   \* mutant: the token is read, then updated
TokenLocked(r) == \E q \in Requests \ {r} : "consume" \in pend[q] /\ args[q].cred = args[r].cred
UserLocked(u, r) == \E q \in Requests \ {r} : HoldsUser(q, u)
SessionLocked(s) == \E q \in Requests : s \in revoked[q]

\* The WHERE clause of the session middleware.
SessionValid(s) == s \in sessions \ expired /\ subject[s] \in Live

\* The credential can never work again: for the history variable dead.
Void(a) == \/ a.op \in {"verify", "reset"} /\ (a.cred \in expired \/ usedBy[a.cred] # None)
           \/ a.op = "whoami" /\ ~SessionValid(a.cred)

-----------------------------------------------------------------------------
(* Steps common to the handlers.                                           *)

\* A request arrives; its arguments are validated and, where the handler's
\* first statement is Begin, the transaction starts.
Arrive(r, a, next) ==
  /\ pc[r] = "idle" /\ a.op \in Kinds
  /\ args' = [args EXCEPT ![r] = a]
  /\ pc' = [pc EXCEPT ![r] = next]
  /\ reply' = [reply EXCEPT ![r] = IF next = "done" THEN "rejected" ELSE "none"]
  /\ inTime' = IF a.cred \in expired THEN inTime ELSE inTime \cup {r}
  /\ dead' = IF Void(a) THEN dead \cup {r} ELSE dead
  /\ prior' = IF a.op = "reset" THEN [prior EXCEPT ![r] = sessions] ELSE prior
  /\ UNCHANGED <<subject, seenHash, pend, revoked, userVars, credVars, mailVars>>

\* The request writes rows in its open transaction and goes on.
Write(r, rows, next) ==
  /\ pend' = [pend EXCEPT ![r] = @ \cup rows]
  /\ pc' = [pc EXCEPT ![r] = next]

\* Mutant of Answer: the deferred Rollback is missing.
AnswerWithoutRollback(r, answer) ==
  /\ pc' = [pc EXCEPT ![r] = "done"]
  /\ reply' = [reply EXCEPT ![r] = answer]
  /\ UNCHANGED <<pend, revoked>>

\* The handler returns: an open transaction is rolled back by its defer.
Answer(r, answer) ==
  /\ pc' = [pc EXCEPT ![r] = "done"]
  /\ reply' = [reply EXCEPT ![r] = answer]
  /\ pend' = [pend EXCEPT ![r] = {}]
  /\ revoked' = [revoked EXCEPT ![r] = {}]

InTx(r, at) == pc[r] = at /\ UNCHANGED <<args, inTime, dead, prior>>
NoDbChange == UNCHANGED <<userVars, credVars, mailVars>>

\* tx.Commit, for every handler that has one: the rows written become visible
\* together.  The reply may be lost or report an error although the server
\* has committed; forgot answers the same in every case.
Commit(r) ==
  LET wrote(row) == row \in pend[r]
      publish(row) == IF wrote(row) THEN {r} ELSE {}
      u == subject[r]
  IN
  /\ InTx(r, "commit")
  /\ \E answer \in (IF args[r].op = "forgot" THEN {"ok"} ELSE {"ok", "error"}) : Answer(r, answer)
  /\ users' = users \cup publish("user")
  /\ profiles' = profiles \cup publish("profile")
  /\ wishlists' = wishlists \cup publish("wishlist")
  /\ tokens' = tokens \cup publish("token")
  /\ jobs' = jobs \cup publish("job")
  /\ hash' = IF wrote("user") \/ wrote("password") THEN [hash EXCEPT ![u] = r] ELSE hash
  /\ usedBy' = IF wrote("consume") THEN [usedBy EXCEPT ![args[r].cred] = r] ELSE usedBy
  /\ verifiedBy' = IF wrote("verify") /\ verifiedBy[u] = None
                   THEN [verifiedBy EXCEPT ![u] = r] ELSE verifiedBy
  /\ sessions' = sessions \ revoked[r]
  /\ UNCHANGED <<subject, seenHash, deleted, expired, inbox>>

\* Any statement, Begin or Commit may fail (connection lost, context
\* cancelled, API process killed): nothing written is kept.  Only the answer
\* depends on the handler; a failing UPDATE of the token is answered like a bad
\* link, unlike a failing Begin before it.
FailureAnswers(r) ==
  IF args[r].op \in {"forgot", "logout"} THEN {"ok"}
  ELSE IF args[r].op = "whoami" THEN {"rejected"}
  ELSE IF pc[r] = "consume" THEN {"rejected", "error"} ELSE {"error"}

Fail(r) ==
  /\ pc[r] \notin {"idle", "done"}
  /\ \E answer \in FailureAnswers(r) : Answer(r, answer)
  /\ UNCHANGED <<args, subject, seenHash, inTime, dead, prior>>
  /\ NoDbChange

-----------------------------------------------------------------------------
(* POST /v1/auth/register                                                  *)

Register(r) == \E e \in Emails, n \in Usernames, p \in Passwords :
  Arrive(r, [op |-> "register", email |-> e, username |-> n, password |-> p, cred |-> None],
         IF p \in WeakPasswords THEN "done" ELSE "emailKey")

\* INSERT INTO auth.users: the row enters the two indexes in their order, and
\* each may make it wait, the second while the first has its key.  A committed
\* key is 23505.
EmailKey(r) ==
  /\ InTx(r, "emailKey") /\ NoDbChange
  /\ \A q \in Requests \ {r} : ~HoldsEmail(q, r)
  /\ IF EmailTaken(r) THEN Answer(r, "rejected")
     ELSE Write(r, {"email"}, "usernameKey") /\ UNCHANGED <<revoked, reply>>
  /\ UNCHANGED <<subject, seenHash>>

UsernameKey(r) ==
  /\ InTx(r, "usernameKey") /\ NoDbChange
  /\ \A q \in Requests \ {r} : ~HoldsUsername(q, r)
  /\ IF UsernameTaken(r)
     THEN Answer(r, "rejected") /\ UNCHANGED <<subject, seenHash>>
     ELSE /\ Write(r, {"user"}, "createProfile")
          /\ subject' = [subject EXCEPT ![r] = r]
          /\ UNCHANGED <<seenHash, revoked, reply>>

InsertUser(r) == EmailKey(r) \/ UsernameKey(r)

\* Mutant of CreateDefaultProfile: the wishlist is forgotten.
CreateProfileOnly(r) ==
  /\ InTx(r, "createProfile") /\ NoDbChange
  /\ Write(r, {"profile"}, "insertToken")
  /\ UNCHANGED <<subject, seenHash, revoked, reply>>

CreateDefaultProfile(r) ==
  /\ InTx(r, "createProfile") /\ NoDbChange
  /\ Write(r, {"profile", "wishlist"}, "insertToken")
  /\ UNCHANGED <<subject, seenHash, revoked, reply>>

\* INSERT INTO auth.verification_tokens, of register and of forgot.
InsertToken(r) ==
  /\ InTx(r, "insertToken") /\ NoDbChange
  /\ Write(r, {"token"}, "insertJob")
  /\ UNCHANGED <<subject, seenHash, revoked, reply>>

\* Mutant of InsertJob: Jobs.Insert, outside the transaction.
InsertJobOutsideTx(r) ==
  /\ InTx(r, "insertJob")
  /\ Write(r, {}, "commit")
  /\ jobs' = jobs \cup {r}
  /\ UNCHANGED <<subject, seenHash, revoked, reply, userVars, credVars, inbox>>

\* Jobs.InsertTx, of register and of forgot: the job row is in the transaction.
InsertJob(r) ==
  /\ InTx(r, "insertJob") /\ NoDbChange
  /\ Write(r, {"job"}, "commit")
  /\ UNCHANGED <<subject, seenHash, revoked, reply>>

-----------------------------------------------------------------------------
(* POST /v1/auth/password/forgot                                           *)

Forgot(r) == \E e \in Emails :
  Arrive(r, [op |-> "forgot", email |-> e, username |-> None, password |-> None, cred |-> None],
         "lookupEmail")

\* The SELECT runs before the transaction; an unknown address gets the same answer.
LookupEmail(r) ==
  /\ InTx(r, "lookupEmail") /\ NoDbChange
  /\ IF Lookup(args[r].email) = {}
     THEN Answer(r, "ok") /\ UNCHANGED <<subject, seenHash>>
     ELSE /\ \E u \in Lookup(args[r].email) : subject' = [subject EXCEPT ![r] = u]
          /\ Write(r, {}, "insertToken")
          /\ UNCHANGED <<seenHash, revoked, reply>>

-----------------------------------------------------------------------------
(* POST /v1/auth/verify-email and POST /v1/auth/password/reset: both redeem *)
(* a token that came by mail, of either purpose.                           *)

VerifyEmail(r) == \E t \in inbox :
  Arrive(r, [op |-> "verify", email |-> None, username |-> None, password |-> None, cred |-> t],
         "consume")

\* The new password is validated before the token is touched.
ResetPassword(r) == \E t \in inbox, p \in Passwords :
  Arrive(r, [op |-> "reset", email |-> None, username |-> None, password |-> p, cred |-> t],
         IF p \in WeakPasswords THEN "done" ELSE "consume")

\* UPDATE auth.verification_tokens SET used_at: a matching row locked by
\* another transaction is waited for, and matched again afterwards.
ConsumeToken(r) ==
  /\ InTx(r, "consume") /\ NoDbChange
  /\ IF Consumable(r)
     THEN /\ ~TokenLocked(r)
          /\ subject' = [subject EXCEPT ![r] = subject[args[r].cred]]
          /\ Write(r, {"consume"}, IF args[r].op = "verify" THEN "setVerified" ELSE "setPassword")
          /\ UNCHANGED <<seenHash, revoked, reply>>
     ELSE Answer(r, "rejected") /\ UNCHANGED <<subject, seenHash>>

\* UPDATE auth.users SET email_verified_at: takes the lock of the user's row.
SetVerified(r) ==
  /\ InTx(r, "setVerified") /\ NoDbChange
  /\ ~UserLocked(subject[r], r)
  /\ Write(r, {"verify"}, "commit")
  /\ UNCHANGED <<subject, seenHash, revoked, reply>>

\* UPDATE auth.users SET password_hash, same lock.
SetPassword(r) ==
  /\ InTx(r, "setPassword") /\ NoDbChange
  /\ ~UserLocked(subject[r], r)
  /\ Write(r, {"password"}, "revokeSessions")
  /\ UNCHANGED <<subject, seenHash, revoked, reply>>

\* Mutant of RevokeSessions: the DELETE is missing.
RevokeNothing(r) ==
  /\ InTx(r, "revokeSessions") /\ NoDbChange
  /\ Write(r, {}, "commit")
  /\ UNCHANGED <<subject, seenHash, revoked, reply>>

\* DELETE FROM auth.sessions WHERE user_id: the rows committed by now.
RevokeSessions(r) ==
  /\ InTx(r, "revokeSessions") /\ NoDbChange
  /\ revoked' = [revoked EXCEPT ![r] = {s \in sessions : subject[s] = subject[r]}]
  /\ Write(r, {}, "commit")
  /\ UNCHANGED <<subject, seenHash, reply>>

-----------------------------------------------------------------------------
(* POST /v1/auth/login, POST /v1/auth/logout, the session middleware       *)

Login(r) == \E i \in Emails \cup Usernames, p \in Passwords :
  Arrive(r, [op |-> "login", email |-> i, username |-> None, password |-> p, cred |-> None],
         "lookupLogin")

\* SELECT of the user and comparison with the hash it returned; a missing
\* user is compared with a dummy hash and refused.
LookupLogin(r) ==
  /\ InTx(r, "lookupLogin") /\ NoDbChange
  /\ \/ \E u \in Lookup(args[r].email) :
          /\ args[hash[u]].password = args[r].password
          /\ subject' = [subject EXCEPT ![r] = u]
          /\ seenHash' = [seenHash EXCEPT ![r] = hash[u]]
          /\ Write(r, {}, "insertSession")
          /\ UNCHANGED <<revoked, reply>>
     \/ /\ \A u \in Lookup(args[r].email) : args[hash[u]].password # args[r].password
        /\ Answer(r, "rejected") /\ UNCHANGED <<subject, seenHash>>

\* INSERT INTO auth.sessions, a statement of its own: it neither re-reads the
\* user nor conflicts with an UPDATE of the user's row.
InsertSession(r) ==
  /\ InTx(r, "insertSession")
  /\ sessions' = sessions \cup {r}
  /\ \E answer \in {"ok", "error"} : Answer(r, answer)
  /\ UNCHANGED <<subject, seenHash, userVars, tokens, usedBy, expired, mailVars>>

\* A client presents a cookie some login has set.
Cookies == {s \in Requests : args[s].op = "login" /\ reply[s] = "ok"}

Logout(r) == \E s \in Cookies :
  Arrive(r, [op |-> "logout", email |-> None, username |-> None, password |-> None, cred |-> s],
         "deleteSession")

DeleteSession(r) ==
  /\ InTx(r, "deleteSession")
  /\ ~SessionLocked(args[r].cred)
  /\ sessions' = sessions \ {args[r].cred}
  /\ Answer(r, "ok")
  /\ UNCHANGED <<subject, seenHash, userVars, tokens, usedBy, expired, mailVars>>

\* Any route behind the middleware that needs a user (RequireAuth, whoami).
Whoami(r) == \E s \in Cookies :
  Arrive(r, [op |-> "whoami", email |-> None, username |-> None, password |-> None, cred |-> s],
         "authenticate")

\* Mutant of Authenticate: deleted accounts are not filtered.
AuthenticateDeleted(r) == LET s == args[r].cred IN
  /\ InTx(r, "authenticate") /\ NoDbChange
  /\ IF s \in sessions \ expired
     THEN /\ ~SessionLocked(s)
          /\ Answer(r, "ok")
          /\ subject' = [subject EXCEPT ![r] = subject[s]]
     ELSE Answer(r, "rejected") /\ UNCHANGED subject
  /\ UNCHANGED seenHash

\* UPDATE auth.sessions ... FROM auth.users ... RETURNING: "ok" puts the user
\* in the request's context, anything else leaves the request anonymous.
Authenticate(r) == LET s == args[r].cred IN
  /\ InTx(r, "authenticate") /\ NoDbChange
  /\ IF SessionValid(s)
     THEN /\ ~SessionLocked(s)
          /\ Answer(r, "ok")
          /\ subject' = [subject EXCEPT ![r] = subject[s]]
     ELSE Answer(r, "rejected") /\ UNCHANGED subject
  /\ UNCHANGED seenHash

-----------------------------------------------------------------------------
(* The worker and the outside world.                                       *)

\* A run of a mail job that reaches the SMTP server: at least once per job,
\* again if the worker stops before the job is marked completed.
SendMail(j) ==
  /\ "mail" \in Kinds /\ j \in jobs
  /\ inbox' = inbox \cup {j}
  /\ UNCHANGED <<reqVars, userVars, credVars, jobs>>

\* River takes the job off the queue: completed after Work returned nil (with
\* no mailer configured nothing was sent), or discarded after its last attempt.
EndJob(j) ==
  /\ "endjob" \in Kinds /\ j \in jobs
  /\ jobs' = jobs \ {j}
  /\ UNCHANGED <<reqVars, userVars, credVars, inbox>>

\* expires_at passes.
Expire(c) ==
  /\ "expire" \in Kinds /\ c \in (tokens \cup sessions) \ expired
  /\ expired' = expired \cup {c}
  /\ UNCHANGED <<reqVars, userVars, tokens, usedBy, sessions, mailVars>>

\* An operator sets deleted_at; no code in the repository does, and every SELECT
\* filters on it.  The UPDATE waits for the row's lock.
SoftDelete(u) ==
  /\ "softdelete" \in Kinds /\ u \in Live
  /\ \A q \in Requests : ~HoldsUser(q, u)
  /\ deleted' = deleted \cup {u}
  /\ UNCHANGED <<reqVars, users, profiles, wishlists, hash, verifiedBy, credVars, mailVars>>

-----------------------------------------------------------------------------
Start(r) == \/ Register(r) \/ VerifyEmail(r) \/ Login(r) \/ Logout(r)
            \/ Forgot(r) \/ ResetPassword(r) \/ Whoami(r)

Statement(r) ==
  \/ InsertUser(r) \/ CreateDefaultProfile(r) \/ InsertToken(r) \/ InsertJob(r)
  \/ LookupEmail(r)
  \/ ConsumeToken(r) \/ SetVerified(r) \/ SetPassword(r) \/ RevokeSessions(r)
  \/ LookupLogin(r) \/ InsertSession(r) \/ DeleteSession(r) \/ Authenticate(r)
  \/ Commit(r)

World == \E c \in Requests : SendMail(c) \/ EndJob(c) \/ Expire(c) \/ SoftDelete(c)

\* Every request has been answered: the system may stop.
Finished == (\A r \in Requests : pc[r] = "done") /\ UNCHANGED vars

Next == \/ \E r \in Requests : Start(r) \/ Statement(r) \/ Fail(r)
        \/ World
        \/ Finished

Spec == Init /\ [][Next]_vars

\* net/http runs each handler on a goroutine of its own and PostgreSQL answers
\* a statement that waits for no lock.
FairSpec == Spec /\ \A r \in Requests : WF_vars(Statement(r))
-----------------------------------------------------------------------------
(* Correctness.                                                            *)

\* The shape of every variable.
TypeOK ==
  /\ pc \in [Requests -> Stages]
  /\ args \in [Requests -> Arguments]
  /\ subject \in [Requests -> Requests \cup {None}]
  /\ seenHash \in [Requests -> Requests \cup {None}]
  /\ pend \in [Requests -> SUBSET Rows]
  /\ revoked \in [Requests -> SUBSET Requests]
  /\ reply \in [Requests -> {"none", "ok", "rejected", "error"}]
  /\ prior \in [Requests -> SUBSET Requests]
  /\ hash \in [Requests -> Requests \cup {None}]
  /\ verifiedBy \in [Requests -> Requests \cup {None}]
  /\ usedBy \in [Requests -> Requests \cup {None}]
  /\ \A set \in {users, deleted, profiles, wishlists, tokens, sessions, expired,
                  jobs, inbox, inTime, dead} : set \subseteq Requests

\* Two live accounts never share an e-mail address or a user name, whatever
\* registrations overlap (the 23505 branch of register, the partial indexes).
UniqueLive == \A u, v \in Live : SameKey(u, v) => u = v

\* An account, its profile, its wishlist and its verification token exist
\* together or not at all, after any failure or lost commit answer, and a
\* client told "created" finds the account.
RegistrationAtomic ==
  /\ users = profiles /\ users = wishlists
  /\ users = {t \in tokens : args[t].op = "register"}
  /\ \A r \in Requests : args[r].op = "register" /\ reply[r] = "ok" => r \in users

\* A mail job, and so a mailed link, always belongs to a token that is in the
\* database: the worker never overtakes the handler's commit.
OutboxSound == jobs \cup inbox \subseteq tokens

\* A token works for one request only, of its own purpose: everyone who was
\* told "ok" is the request that used the token.
RedeemedOnce == \A r \in Requests :
  args[r].op \in {"verify", "reset"} /\ reply[r] = "ok" =>
     /\ usedBy[args[r].cred] = r
     /\ Purpose(args[r].cred) = args[r].op

\* used_at, once committed, is never written again.
UsedOnce == [][\A t \in Requests : usedBy[t] # None => usedBy'[t] = usedBy[t]]_vars

\* The password of an existing account changes only in the step that spends a
\* reset token which a forgot request had issued for that very account.
PasswordNeedsToken == [][\A u \in users : hash'[u] # hash[u] =>
    \E t \in tokens : /\ args[t].op = "forgot" /\ subject[t] = u
                      /\ usedBy[t] = None /\ usedBy'[t] = hash'[u]]_vars

\* An e-mail address is marked verified by the request that spent the token of
\* its own registration, and keeps its first verification.
VerifiedByOwnToken == \A u \in Requests :
  verifiedBy[u] # None => u \in users /\ usedBy[u] = verifiedBy[u]

\* Revocation is final: a request whose link was used or expired, or whose
\* session had been logged out, revoked by a reset, expired or orphaned by the
\* account's deletion before the request arrived, is never served.
DeadCredentialRefused == \A r \in dead : reply[r] # "ok"

\* Once a password reset has spent its token, none of the sessions that
\* existed for that account when the reset arrived is left.
ResetRevokesPrior == \A r \in Requests :
  /\ args[r].op = "reset"
  /\ usedBy[args[r].cred] = r
  => \A s \in sessions \cap prior[r] : subject[s] # subject[r]

\* What reset_test.go says of reset ("a valid token changes the password and
\* revokes existing sessions", "expected all sessions to be revoked"): a
\* session in the table was opened with its account's current password.
SessionsOfCurrentPassword == \A s \in sessions : seenHash[s] = hash[subject[s]]

\* r's next statement waits for a key or a row that q's transaction has written.
Waits(r, q) == q # r /\
  \/ pc[r] = "emailKey" /\ HoldsEmail(q, r)
  \/ pc[r] = "usernameKey" /\ HoldsUsername(q, r)
  \/ pc[r] = "consume" /\ Consumable(r) /\ "consume" \in pend[q] /\ args[q].cred = args[r].cred
  \/ pc[r] \in {"setVerified", "setPassword"} /\ HoldsUser(q, subject[r])
  \/ pc[r] \in {"deleteSession", "authenticate"} /\ args[r].cred \in revoked[q]

\* Waiting never goes in a circle and never for an answered request. A
\* registration that waits for its user name already holds its address, and
\* others may wait for that; a handler that redeems locks its token, then the
\* user, then sessions, and registrations wait for it at the user's keys. Still
\* who is waited for is under way, and waits at most for one that waits for
\* nobody: PostgreSQL never has to abort one of these transactions.
NoCircularWait == \A r, q \in Requests : Waits(r, q) =>
  /\ pc[q] # "done"
  /\ \A p \in Requests : Waits(q, p) => pc[p] # "done" /\ \A o \in Requests : ~Waits(p, o)

\* No request waits for ever on rows or keys locked by others: each is answered.
EveryRequestAnswered == \A r \in Requests :
  pc[r] \notin {"idle", "done"} ~> pc[r] = "done"
=============================================================================
