--------------------------- MODULE Accounts_proofs ---------------------------
(* Proofs about Accounts, for any set of requests and any inputs: what its  *)
(* state looks like, what its operations achieve, and that it implements   *)
(* AccountLedger.                                                          *)
EXTENDS AccountsRefinement, TLAPS

-----------------------------------------------------------------------------
(* The inductive invariant behind the safety properties. *)

\* Where a request can be, by operation.
Stage(op, at) ==
  \/ op = None /\ at = "idle"
  \/ op # None /\ at = "done"
  \/ op = "register" /\ at \in {"emailKey", "usernameKey", "createProfile"}
  \/ op = "forgot" /\ at = "lookupEmail"
  \/ op \in {"register", "forgot"} /\ at \in {"insertToken", "insertJob"}
  \/ op \in {"verify", "reset"} /\ at = "consume"
  \/ op = "verify" /\ at = "setVerified"
  \/ op = "reset" /\ at \in {"setPassword", "revokeSessions"}
  \/ op \in {"register", "forgot", "verify", "reset"} /\ at = "commit"
  \/ op = "login" /\ at \in {"lookupLogin", "insertSession"}
  \/ op = "logout" /\ at = "deleteSession"
  \/ op = "whoami" /\ at = "authenticate"

\* Whether its open transaction has written the row there.
Wrote(op, at, row) ==
  \/ row = "email" /\ op = "register"
       /\ at \in {"usernameKey", "createProfile", "insertToken", "insertJob", "commit"}
  \/ row = "user" /\ op = "register" /\ at \in {"createProfile", "insertToken", "insertJob", "commit"}
  \/ row \in {"profile", "wishlist"} /\ op = "register" /\ at \in {"insertToken", "insertJob", "commit"}
  \/ row = "token" /\ op \in {"register", "forgot"} /\ at \in {"insertJob", "commit"}
  \/ row = "job" /\ op \in {"register", "forgot"} /\ at = "commit"
  \/ row = "consume" /\ op \in {"verify", "reset"}
       /\ at \in {"setVerified", "setPassword", "revokeSessions", "commit"}
  \/ row = "verify" /\ op = "verify" /\ at = "commit"
  \/ row = "password" /\ op = "reset" /\ at \in {"revokeSessions", "commit"}

\* Control and transaction agree; only an answered request has left rows.
Progress == \A r \in Requests :
  /\ Stage(args[r].op, pc[r])
  /\ \A row \in Rows : row \in pend[r] <=> Wrote(args[r].op, pc[r], row)
  /\ pc[r] # "done" => reply[r] = "none" /\ r \notin tokens \cup users \cup sessions
  /\ "user" \in pend[r] => subject[r] = r
  /\ \A s \in prior[r] : pc[s] = "done"

\* A pending key is not taken and not pending elsewhere.
KeysReserved == \A r \in Requests :
  /\ "email" \in pend[r] =>
       /\ ~EmailTaken(r)
       /\ \A q \in Requests \ {r} : "email" \in pend[q] => ~SameEmail(q, r)
  /\ "user" \in pend[r] =>
       /\ ~UsernameTaken(r)
       /\ \A q \in Requests \ {r} : "user" \in pend[q] => ~SameUsername(q, r)

\* Tokens are issued by registrations and forgot requests.
Issued == \A t \in tokens : args[t].op \in {"register", "forgot"}

\* A token being spent is unused, of the right purpose and locked.
Spending == \A r \in Requests :
  /\ args[r].op \in {"verify", "reset", "logout", "whoami"} => args[r].cred \in Requests
  /\ "consume" \in pend[r] =>
       LET t == args[r].cred IN
       /\ t \in tokens /\ usedBy[t] = None /\ Purpose(t) = args[r].op
       /\ subject[r] = subject[t]
       /\ ~TokenLocked(r)

\* usedBy names an answered request that presented the token.
Spent == \A t \in Requests : usedBy[t] # None =>
  /\ pc[usedBy[t]] = "done" /\ args[usedBy[t]].cred = t
  /\ subject[usedBy[t]] = subject[t] /\ pc[t] = "done"

\* At its commit a reset has deleted what it found.
Revoking == \A r \in Requests : pc[r] = "commit" /\ args[r].op = "reset" =>
  \A s \in sessions \cap prior[r] : subject[s] = subject[r] => s \in revoked[r]

\* The parts above in one formula.
AccountsInv == Progress /\ KeysReserved /\ Issued /\ Spending /\ Spent /\ Revoking

-----------------------------------------------------------------------------
(* What the refinement's proof needs besides AccountsInv.                  *)

\* A link reaches its handler by mail only.
Mailed == \A r \in Requests : args[r].op \in {"verify", "reset"} => args[r].cred \in inbox

\* A reset link is issued for an account that is in the database.
ForgotKnown == \A r \in Requests :
  args[r].op = "forgot" /\ pc[r] \in {"insertToken", "insertJob", "commit"} => subject[r] \in users

\* A session's account is in the database when its login is about to insert it.
LoginKnown == \A s \in Requests :
  args[s].op = "login" /\ (pc[s] = "insertSession" \/ reply[s] = "ok") => subject[s] \in users

\* Only a reset about to commit has deleted sessions, those of its own account.
RevokesOwn == \A r \in Requests : \A s \in revoked[r] :
  pc[r] = "commit" /\ args[r].op = "reset" /\ pc[s] = "done" /\ subject[s] = subject[r]

LedgerInv == Mailed /\ ForgotKnown /\ LoginKnown /\ RevokesOwn


-----------------------------------------------------------------------------
(* The shape of a step.                                                    *)

\* What a request is admitted with: its arguments, the stage it enters.
Admitted(a, next) ==
  /\ a \in Arguments /\ a.op \in Ops
  /\ next \in {"emailKey", "consume", "lookupLogin", "deleteSession", "lookupEmail",
              "authenticate", "done"}
  /\ Stage(a.op, next)
  /\ a.op \in {"verify", "reset"} => a.cred \in inbox
  /\ a.op \in {"logout", "whoami"} => a.cred \in Cookies

\* Every way a request can start is an Arrive with admissible arguments.
LEMMA StartIsArrive ==
  ASSUME TypeOK, NEW r \in Requests, Start(r)
  PROVE  \E a, next : Arrive(r, a, next) /\ Admitted(a, next)
<1> USE DEF Admitted, Arguments, Ops, Stage
<1>1. CASE Register(r)
  <2>1. PICK e \in Emails, n \in Usernames, p \in Passwords :
          Arrive(r, [op |-> "register", email |-> e, username |-> n, password |-> p, cred |-> None],
                 IF p \in WeakPasswords THEN "done" ELSE "emailKey")
    BY <1>1 DEF Register
  <2>2. Admitted([op |-> "register", email |-> e, username |-> n, password |-> p, cred |-> None],
                 IF p \in WeakPasswords THEN "done" ELSE "emailKey")
    BY NoneIsNew DEF TypeOK, Cookies
  <2>3. QED BY <2>1, <2>2
<1>2. CASE VerifyEmail(r)
  <2>1. PICK t \in inbox :
          Arrive(r, [op |-> "verify", email |-> None, username |-> None, password |-> None, cred |-> t],
                 "consume")
    BY <1>2 DEF VerifyEmail
  <2>2. Admitted([op |-> "verify", email |-> None, username |-> None, password |-> None, cred |-> t],
                 "consume")
    BY NoneIsNew DEF TypeOK, Cookies
  <2>3. QED BY <2>1, <2>2
<1>3. CASE Login(r)
  <2>1. PICK i \in Emails \cup Usernames, p \in Passwords :
          Arrive(r, [op |-> "login", email |-> i, username |-> None, password |-> p, cred |-> None],
                 "lookupLogin")
    BY <1>3 DEF Login
  <2>2. Admitted([op |-> "login", email |-> i, username |-> None, password |-> p, cred |-> None],
                 "lookupLogin")
    BY NoneIsNew DEF TypeOK, Cookies
  <2>3. QED BY <2>1, <2>2
<1>4. CASE Logout(r)
  <2>1. PICK s \in Cookies :
          Arrive(r, [op |-> "logout", email |-> None, username |-> None, password |-> None, cred |-> s],
                 "deleteSession")
    BY <1>4 DEF Logout
  <2>2. Admitted([op |-> "logout", email |-> None, username |-> None, password |-> None, cred |-> s],
                 "deleteSession")
    BY NoneIsNew DEF TypeOK, Cookies
  <2>3. QED BY <2>1, <2>2
<1>5. CASE Forgot(r)
  <2>1. PICK e \in Emails :
          Arrive(r, [op |-> "forgot", email |-> e, username |-> None, password |-> None, cred |-> None],
                 "lookupEmail")
    BY <1>5 DEF Forgot
  <2>2. Admitted([op |-> "forgot", email |-> e, username |-> None, password |-> None, cred |-> None],
                 "lookupEmail")
    BY NoneIsNew DEF TypeOK, Cookies
  <2>3. QED BY <2>1, <2>2
<1>6. CASE ResetPassword(r)
  <2>1. PICK t \in inbox, p \in Passwords :
          Arrive(r, [op |-> "reset", email |-> None, username |-> None, password |-> p, cred |-> t],
                 IF p \in WeakPasswords THEN "done" ELSE "consume")
    BY <1>6 DEF ResetPassword
  <2>2. Admitted([op |-> "reset", email |-> None, username |-> None, password |-> p, cred |-> t],
                 IF p \in WeakPasswords THEN "done" ELSE "consume")
    BY NoneIsNew DEF TypeOK, Cookies
  <2>3. QED BY <2>1, <2>2
<1>7. CASE Whoami(r)
  <2>1. PICK s \in Cookies :
          Arrive(r, [op |-> "whoami", email |-> None, username |-> None, password |-> None, cred |-> s],
                 "authenticate")
    BY <1>7 DEF Whoami
  <2>2. Admitted([op |-> "whoami", email |-> None, username |-> None, password |-> None, cred |-> s],
                 "authenticate")
    BY NoneIsNew DEF TypeOK, Cookies
  <2>3. QED BY <2>1, <2>2
<1>8. QED
  BY <1>1, <1>2, <1>3, <1>4, <1>5, <1>6, <1>7 DEF Start

-----------------------------------------------------------------------------
(* Type correctness.                                                       *)

\* The empty database and idle requests have the declared shape.
LEMMA InitTypeOK == Init => TypeOK
BY DEF Init, TypeOK, NoArgs, Arguments, Stages

\* Starting a request keeps the types, given admissible arguments.
LEMMA ArriveTypeOK ==
  ASSUME TypeOK, NEW r \in Requests, NEW a, NEW next, Arrive(r, a, next), Admitted(a, next)
  PROVE  TypeOK'
<1>1. a \in Arguments /\ next \in Stages
  BY DEF Admitted, Stages
<1> QED
  BY <1>1 DEF TypeOK, Arrive, userVars, credVars, mailVars

\* The part of the state an answer writes keeps its types.
LEMMA AnswerTypeOK ==
  ASSUME TypeOK, NEW r \in Requests, NEW answer \in {"ok", "rejected", "error"}, Answer(r, answer)
  PROVE  /\ pc' \in [Requests -> Stages]
         /\ pend' \in [Requests -> SUBSET Rows]
         /\ revoked' \in [Requests -> SUBSET Requests]
         /\ reply' \in [Requests -> {"none", "ok", "rejected", "error"}]
BY DEF TypeOK, Answer, Stages

\* The part of the state a write in a transaction changes keeps its types.
LEMMA WriteTypeOK ==
  ASSUME TypeOK, NEW r \in Requests, NEW rows \in SUBSET Rows, NEW next \in Stages,
         Write(r, rows, next)
  PROVE  pc' \in [Requests -> Stages] /\ pend' \in [Requests -> SUBSET Rows]
BY DEF TypeOK, Write

\* Every statement keeps the types.
LEMMA StatementTypeOK ==
  ASSUME TypeOK, NEW r \in Requests, Statement(r)
  PROVE  TypeOK'
<1> USE DEF InTx, NoDbChange, userVars, credVars, mailVars
<1>1. CASE InsertUser(r)
  <2>1. CASE EmailKey(r)
    BY <2>1, AnswerTypeOK, WriteTypeOK DEF EmailKey, TypeOK, Rows, Stages
  <2>2. CASE UsernameKey(r)
    BY <2>2, AnswerTypeOK, WriteTypeOK DEF UsernameKey, TypeOK, Rows, Stages
  <2>3. QED BY <1>1, <2>1, <2>2 DEF InsertUser
<1>2. CASE CreateDefaultProfile(r)
  BY <1>2, WriteTypeOK DEF CreateDefaultProfile, TypeOK, Rows, Stages
<1>3. CASE InsertToken(r)
  BY <1>3, WriteTypeOK DEF InsertToken, TypeOK, Rows, Stages
<1>4. CASE InsertJob(r)
  BY <1>4, WriteTypeOK DEF InsertJob, TypeOK, Rows, Stages
<1>5. CASE LookupEmail(r)
  <2>1. CASE Lookup(args[r].email) = {}
    BY <1>5, <2>1, AnswerTypeOK DEF LookupEmail, TypeOK
  <2>2. CASE Lookup(args[r].email) # {}
    <3>1. Lookup(args[r].email) \subseteq Requests
      BY DEF Lookup, Live, TypeOK
    <3>2. QED BY <1>5, <2>2, <3>1, WriteTypeOK DEF LookupEmail, TypeOK, Rows, Stages
  <2>3. QED BY <2>1, <2>2
<1>6. CASE ConsumeToken(r)
  <2>1. CASE Consumable(r)
    <3>1. args[r].cred \in Requests
      BY <2>1 DEF Consumable, TypeOK
    <3>2. QED BY <1>6, <2>1, <3>1, WriteTypeOK DEF ConsumeToken, TypeOK, Rows, Stages
  <2>2. CASE ~Consumable(r)
    BY <1>6, <2>2, AnswerTypeOK DEF ConsumeToken, TypeOK
  <2>3. QED BY <2>1, <2>2
<1>7. CASE SetVerified(r)
  BY <1>7, WriteTypeOK DEF SetVerified, TypeOK, Rows, Stages
<1>8. CASE SetPassword(r)
  BY <1>8, WriteTypeOK DEF SetPassword, TypeOK, Rows, Stages
<1>9. CASE RevokeSessions(r)
  BY <1>9, WriteTypeOK DEF RevokeSessions, TypeOK, Rows, Stages
<1>10. CASE LookupLogin(r)
  <2>1. Lookup(args[r].email) \subseteq Requests
    BY DEF Lookup, Live, TypeOK
  <2>2. ASSUME NEW u \in Lookup(args[r].email),
               subject' = [subject EXCEPT ![r] = u],
               seenHash' = [seenHash EXCEPT ![r] = hash[u]],
               Write(r, {}, "insertSession"), UNCHANGED <<revoked, reply>>
        PROVE  TypeOK'
    BY <1>10, <2>1, <2>2, WriteTypeOK DEF LookupLogin, TypeOK, Rows, Stages
  <2>3. ASSUME Answer(r, "rejected"), UNCHANGED <<subject, seenHash>>
        PROVE  TypeOK'
    BY <1>10, <2>3, AnswerTypeOK DEF LookupLogin, TypeOK
  <2>4. QED BY <1>10, <2>2, <2>3 DEF LookupLogin
<1>11. CASE InsertSession(r)
  BY <1>11, AnswerTypeOK DEF InsertSession, TypeOK
<1>12. CASE DeleteSession(r)
  BY <1>12, AnswerTypeOK DEF DeleteSession, TypeOK
<1>13. CASE Authenticate(r)
  <2>1. CASE SessionValid(args[r].cred)
    <3>1. args[r].cred \in Requests
      BY <2>1 DEF SessionValid, TypeOK
    <3>2. QED BY <1>13, <2>1, <3>1, AnswerTypeOK DEF Authenticate, TypeOK
  <2>2. CASE ~SessionValid(args[r].cred)
    BY <1>13, <2>2, AnswerTypeOK DEF Authenticate, TypeOK
  <2>3. QED BY <2>1, <2>2
<1>14. CASE Commit(r)
  <2>1. PICK answer \in {"ok", "error"} : Answer(r, answer)
    BY <1>14 DEF Commit
  <2>2. /\ pc' \in [Requests -> Stages] /\ pend' \in [Requests -> SUBSET Rows]
        /\ revoked' \in [Requests -> SUBSET Requests]
        /\ reply' \in [Requests -> {"none", "ok", "rejected", "error"}]
    BY <2>1, AnswerTypeOK
  <2>3. /\ hash' \in [Requests -> Requests \cup {None}]
        /\ verifiedBy' \in [Requests -> Requests \cup {None}]
        /\ usedBy' \in [Requests -> Requests \cup {None}]
    BY <1>14 DEF Commit, TypeOK
  <2>4. QED
    BY <1>14, <2>2, <2>3 DEF Commit, TypeOK
<1>15. QED
  BY <1>1, <1>2, <1>3, <1>4, <1>5, <1>6, <1>7, <1>8, <1>9, <1>10, <1>11, <1>12, <1>13, <1>14
     DEF Statement

\* Every step keeps the types.
LEMMA NextTypeOK ==
  ASSUME TypeOK, [Next]_vars
  PROVE  TypeOK'
<1>1. ASSUME NEW r \in Requests, Start(r) PROVE TypeOK'
  BY <1>1, StartIsArrive, ArriveTypeOK
<1>2. ASSUME NEW r \in Requests, Statement(r) PROVE TypeOK'
  BY <1>2, StatementTypeOK
<1>3. ASSUME NEW r \in Requests, Fail(r) PROVE TypeOK'
  <2>1. PICK answer \in {"ok", "rejected", "error"} : Answer(r, answer)
    BY <1>3 DEF Fail, FailureAnswers
  <2>2. QED
    BY <1>3, <2>1, AnswerTypeOK DEF Fail, TypeOK, NoDbChange, userVars, credVars, mailVars
<1>4. CASE World
  BY <1>4 DEF World, SendMail, EndJob, Expire, SoftDelete, TypeOK, Live,
              reqVars, userVars, credVars, mailVars
<1>5. CASE UNCHANGED vars
  BY <1>5 DEF TypeOK, vars, reqVars, userVars, credVars, mailVars
<1>6. QED
  BY <1>1, <1>2, <1>3, <1>4, <1>5 DEF Next, Finished

\* Every variable keeps its shape, for any number of requests.
THEOREM TypeCorrect == Spec => []TypeOK
<1>1. Init => TypeOK
  BY InitTypeOK
<1>2. TypeOK /\ [Next]_vars => TypeOK'
  BY NextTypeOK
<1>3. QED
  BY <1>1, <1>2, PTL DEF Spec

-----------------------------------------------------------------------------
(* Control, open transactions and committed rows agree.                    *)

\* Idle requests have written nothing.
LEMMA InitProgress == Init => Progress
<1> SUFFICES ASSUME Init, NEW r \in Requests
             PROVE  /\ args[r].op = None /\ pc[r] = "idle" /\ pend[r] = {} /\ prior[r] = {}
                    /\ reply[r] = "none" /\ tokens \cup users \cup sessions = {}
                    /\ \A row \in Rows : ~Wrote(None, "idle", row)
  BY Zenon DEF Progress, Stage
<1>1. args[r].op = None
  BY DEF Init, NoArgs
<1>2. \A row : ~Wrote(None, "idle", row)
  BY DEF Wrote
<1>3. QED
  BY <1>1, <1>2 DEF Init

\* What an answer and a write leave behind for the other requests.
LEMMA AnswerProgress ==
  ASSUME TypeOK, Progress, NEW r \in Requests, NEW answer, Answer(r, answer),
         pc[r] \notin {"idle", "done"}, UNCHANGED <<args, prior>>,
         tokens' \subseteq tokens \cup {r}, users' \subseteq users \cup {r},
         sessions' \subseteq sessions \cup {r},
         \A q \in Requests \ {r} : subject'[q] = subject[q]
  PROVE  Progress'
<1>1. /\ pc' = [pc EXCEPT ![r] = "done"] /\ pend' = [pend EXCEPT ![r] = {}]
      /\ \A q \in Requests \ {r} : reply'[q] = reply[q]
  BY DEF Answer, TypeOK
<1>2. args[r].op # None
  BY NoneIsNew DEF Progress, Stage, Ops
<1>3. Stage(args[r].op, "done") /\ \A row \in Rows : ~Wrote(args[r].op, "done", row)
  BY <1>2 DEF Stage, Wrote
<1>4. \A q \in Requests : \A s \in prior[q] : s # r
  BY DEF Progress
<1>5. ASSUME NEW q \in Requests
      PROVE  /\ Stage(args'[q].op, pc'[q])
             /\ \A row \in Rows : row \in pend'[q] <=> Wrote(args'[q].op, pc'[q], row)
             /\ pc'[q] # "done" => reply'[q] = "none" /\ q \notin tokens' \cup users' \cup sessions'
             /\ "user" \in pend'[q] => subject'[q] = q
             /\ \A s \in prior'[q] : pc'[s] = "done"
  <2>1. CASE q = r
    BY <2>1, <1>1, <1>3, <1>4 DEF Progress, TypeOK
  <2>2. CASE q # r
    BY <2>2, <1>1, <1>4 DEF Progress, TypeOK
  <2>3. QED BY <2>1, <2>2
<1>6. QED
  BY <1>5 DEF Progress

\* A write moves a request on to the stage that has written those rows.
LEMMA WriteProgress ==
  ASSUME TypeOK, Progress, NEW r \in Requests, NEW rows, NEW next, Write(r, rows, next),
         UNCHANGED <<args, prior, reply, tokens, users, sessions>>,
         pc[r] \notin {"idle", "done"}, next \notin {"idle", "done"},
         Stage(args[r].op, next),
         \A row \in Rows : row \in rows \/ Wrote(args[r].op, pc[r], row)
                             <=> Wrote(args[r].op, next, row),
         \A q \in Requests \ {r} : subject'[q] = subject[q],
         "user" \in pend'[r] => subject'[r] = r
  PROVE  Progress'
<1>1. pc' = [pc EXCEPT ![r] = next] /\ pend' = [pend EXCEPT ![r] = @ \cup rows]
  BY DEF Write
<1>2. \A q \in Requests : \A s \in prior[q] : s # r
  BY DEF Progress
<1>3. ASSUME NEW q \in Requests
      PROVE  /\ Stage(args'[q].op, pc'[q])
             /\ \A row \in Rows : row \in pend'[q] <=> Wrote(args'[q].op, pc'[q], row)
             /\ pc'[q] # "done" => reply'[q] = "none" /\ q \notin tokens' \cup users' \cup sessions'
             /\ "user" \in pend'[q] => subject'[q] = q
             /\ \A s \in prior'[q] : pc'[s] = "done"
  <2>1. CASE q = r
    BY <2>1, <1>1, <1>2 DEF Progress, TypeOK
  <2>2. CASE q # r
    BY <2>2, <1>1, <1>2 DEF Progress, TypeOK
  <2>3. QED BY <2>1, <2>2
<1>4. QED
  BY <1>3 DEF Progress

\* Every step keeps control, open transactions and committed rows in agreement.
LEMMA NextProgress ==
  ASSUME TypeOK, Progress, [Next]_vars
  PROVE  Progress'
<1> USE DEF InTx, NoDbChange, userVars, credVars, mailVars
<1>1. ASSUME NEW r \in Requests, Start(r) PROVE Progress'
  <2>1. PICK a, next : Arrive(r, a, next) /\ Admitted(a, next)
    BY <1>1, StartIsArrive
  <2>2. \A row \in Rows : ~Wrote(a.op, next, row)
    BY <2>1 DEF Admitted, Wrote
  <2>3. pc[r] = "idle" /\ args[r].op = None
    BY <2>1, NoneIsNew DEF Arrive, Progress, Stage
  <2>4. \A s \in sessions : pc[s] = "done" /\ s # r
    BY <2>3 DEF Progress, TypeOK
  <2>5. pend[r] = {}
    BY <2>3, NoneIsNew DEF Progress, TypeOK, Wrote, Ops
  <2>6. QED
    BY <2>1, <2>2, <2>3, <2>4, <2>5 DEF Arrive, Admitted, Progress, TypeOK
<1>2. ASSUME NEW r \in Requests, Statement(r) PROVE Progress'
  <2>1. CASE InsertUser(r)
    <3>1. pc[r] \in {"emailKey", "usernameKey"} /\ UNCHANGED <<args, prior, tokens, users, sessions>>
      BY <2>1 DEF InsertUser, EmailKey, UsernameKey
    <3>2. args[r].op = "register"
      BY <3>1 DEF Progress, Stage
    <3>3. CASE Answer(r, "rejected") /\ UNCHANGED subject
      BY <3>1, <3>3, AnswerProgress
    <3>4. CASE /\ pc[r] = "emailKey" /\ Write(r, {"email"}, "usernameKey")
               /\ UNCHANGED <<reply, subject>>
      <4>1. /\ Stage(args[r].op, "usernameKey")
            /\ \A row \in Rows : row \in {"email"} \/ Wrote(args[r].op, pc[r], row)
                                <=> Wrote(args[r].op, "usernameKey", row)
        BY <3>2, <3>4 DEF Stage, Wrote
      <4>2. "user" \in pend'[r] => subject'[r] = r
        BY <3>4 DEF Progress, Write, TypeOK
      <4>3. QED BY <3>1, <3>4, <4>1, <4>2, WriteProgress
    <3>5. CASE /\ pc[r] = "usernameKey" /\ Write(r, {"user"}, "createProfile")
               /\ UNCHANGED reply /\ subject' = [subject EXCEPT ![r] = r]
      <4>1. /\ Stage(args[r].op, "createProfile")
            /\ \A row \in Rows : row \in {"user"} \/ Wrote(args[r].op, pc[r], row)
                                <=> Wrote(args[r].op, "createProfile", row)
        BY <3>2, <3>5 DEF Stage, Wrote
      <4>2. subject'[r] = r /\ \A q \in Requests \ {r} : subject'[q] = subject[q]
        BY <3>5 DEF TypeOK
      <4>3. QED BY <3>1, <3>5, <4>1, <4>2, WriteProgress
    <3>6. QED BY <2>1, <3>3, <3>4, <3>5 DEF InsertUser, EmailKey, UsernameKey
  <2>2. CASE CreateDefaultProfile(r)
    BY <2>2, WriteProgress DEF CreateDefaultProfile, Progress, Stage, Wrote, TypeOK, Write
  <2>3. CASE InsertToken(r)
    BY <2>3, WriteProgress DEF InsertToken, Progress, Stage, Wrote, TypeOK, Write
  <2>4. CASE InsertJob(r)
    BY <2>4, WriteProgress DEF InsertJob, Progress, Stage, Wrote, TypeOK, Write
  <2>5. CASE LookupEmail(r)
    BY <2>5, AnswerProgress, WriteProgress DEF LookupEmail, Progress, Stage, Wrote, TypeOK, Write
  <2>6. CASE ConsumeToken(r)
    BY <2>6, AnswerProgress, WriteProgress DEF ConsumeToken, Progress, Stage, Wrote, TypeOK, Write
  <2>7. CASE SetVerified(r)
    BY <2>7, WriteProgress DEF SetVerified, Progress, Stage, Wrote, TypeOK, Write
  <2>8. CASE SetPassword(r)
    BY <2>8, WriteProgress DEF SetPassword, Progress, Stage, Wrote, TypeOK, Write
  <2>9. CASE RevokeSessions(r)
    BY <2>9, WriteProgress DEF RevokeSessions, Progress, Stage, Wrote, TypeOK, Write
  <2>10. CASE LookupLogin(r)
    BY <2>10, AnswerProgress, WriteProgress DEF LookupLogin, Progress, Stage, Wrote, TypeOK, Write
  <2>11. CASE InsertSession(r)
    BY <2>11, AnswerProgress DEF InsertSession
  <2>12. CASE DeleteSession(r)
    BY <2>12, AnswerProgress DEF DeleteSession
  <2>13. CASE Authenticate(r)
    BY <2>13, AnswerProgress DEF Authenticate, TypeOK
  <2>14. CASE Commit(r)
    BY <2>14, AnswerProgress DEF Commit
  <2>15. QED
    BY <1>2, <2>1, <2>2, <2>3, <2>4, <2>5, <2>6, <2>7, <2>8, <2>9, <2>10, <2>11, <2>12, <2>13,
       <2>14 DEF Statement
<1>3. ASSUME NEW r \in Requests, Fail(r) PROVE Progress'
  BY <1>3, AnswerProgress DEF Fail
<1>4. CASE World
  BY <1>4 DEF World, SendMail, EndJob, Expire, SoftDelete, Progress, reqVars
<1>5. CASE UNCHANGED vars
  BY <1>5 DEF Progress, vars, reqVars
<1>6. QED
  BY <1>1, <1>2, <1>3, <1>4, <1>5 DEF Next, Finished

\* A request's position in its handler determines what its open transaction has
\* written, and an unanswered request has published nothing (the transactions
\* of register, forgot, verify and reset end in one commit or roll back).
THEOREM ProgressHolds == Spec => []Progress
<1>1. Init => Progress
  BY InitProgress
<1>2. TypeOK /\ Progress /\ [Next]_vars => Progress'
  BY NextProgress
<1>3. QED
  BY <1>1, <1>2, TypeCorrect, PTL DEF Spec

-----------------------------------------------------------------------------
(* Live accounts have distinct keys.                                       *)

\* A step that publishes no user and reserves no key keeps both facts.
LEMMA QuietKeys ==
  ASSUME TypeOK, KeysReserved, UniqueLive, users' = users, deleted \subseteq deleted',
         \A q \in Requests : \A row \in {"email", "user"} : row \in pend'[q] => row \in pend[q],
         \A q \in Requests : \/ args'[q] = args[q]
                             \/ q \notin users /\ pend'[q] \cap {"email", "user"} = {}
  PROVE  KeysReserved' /\ UniqueLive'
<1> USE DEF SameKey, SameEmail, SameUsername
<1>1. UniqueLive'
  BY DEF UniqueLive, Live, TypeOK
<1>2. Live' \subseteq Live /\ \A u \in Live : u \in Requests /\ args'[u] = args[u]
  BY DEF Live, TypeOK
<1>3. ASSUME NEW r \in Requests, "email" \in pend'[r]
      PROVE  /\ ~EmailTaken(r)'
             /\ \A q \in Requests \ {r} : "email" \in pend'[q] => ~SameEmail(q, r)'
  BY <1>2, <1>3 DEF KeysReserved, EmailTaken
<1>4. ASSUME NEW r \in Requests, "user" \in pend'[r]
      PROVE  /\ ~UsernameTaken(r)'
             /\ \A q \in Requests \ {r} : "user" \in pend'[q] => ~SameUsername(q, r)'
  BY <1>2, <1>4 DEF KeysReserved, UsernameTaken
<1>5. KeysReserved'
  BY <1>3, <1>4 DEF KeysReserved
<1>6. QED BY <1>1, <1>5

\* Every step keeps the keys of live accounts distinct and pending keys reserved.
LEMMA NextKeys ==
  ASSUME TypeOK, Progress, KeysReserved, UniqueLive, [Next]_vars
  PROVE  KeysReserved' /\ UniqueLive'
<1> USE DEF InTx, NoDbChange, userVars, credVars, mailVars, reqVars
<1>1. ASSUME NEW r \in Requests, Start(r) PROVE KeysReserved' /\ UniqueLive'
  <2>1. PICK a, next : Arrive(r, a, next)
    BY <1>1, StartIsArrive
  <2>2. r \notin users /\ pend[r] \cap {"email", "user"} = {}
    BY <2>1 DEF Arrive, Progress, Wrote, Rows
  <2>3. QED
    BY <2>1, <2>2, QuietKeys DEF Arrive, TypeOK
<1>2. ASSUME NEW r \in Requests, pend' = [pend EXCEPT ![r] = {}], UNCHANGED <<args, users, deleted>>
      PROVE  KeysReserved' /\ UniqueLive'
  <2>1. \A q \in Requests : \A row \in {"email", "user"} : row \in pend'[q] => row \in pend[q]
    BY <1>2 DEF TypeOK
  <2>2. QED BY <1>2, <2>1, QuietKeys
<1>3. ASSUME NEW r \in Requests, EmailKey(r) PROVE KeysReserved' /\ UniqueLive'
  <2>1. CASE EmailTaken(r)
    BY <1>2, <1>3, <2>1 DEF EmailKey, Answer
  <2>2. CASE ~EmailTaken(r)
    <3>1. /\ pend' = [pend EXCEPT ![r] = @ \cup {"email"}]
          /\ UNCHANGED <<args, users, deleted>>
          /\ \A q \in Requests \ {r} : "email" \in pend[q] => ~SameEmail(q, r)
      BY <1>3, <2>2 DEF EmailKey, Write, HoldsEmail
    <3>2. UniqueLive'
      BY <3>1 DEF UniqueLive, Live, SameKey, SameEmail, SameUsername
    <3>3. KeysReserved'
      BY <2>2, <3>1 DEF KeysReserved, EmailTaken, UsernameTaken, Live, SameEmail, SameUsername, TypeOK
    <3>4. QED BY <3>2, <3>3
  <2>3. QED BY <2>1, <2>2
<1>4. ASSUME NEW r \in Requests, UsernameKey(r) PROVE KeysReserved' /\ UniqueLive'
  <2>1. CASE UsernameTaken(r)
    BY <1>2, <1>4, <2>1 DEF UsernameKey, Answer
  <2>2. CASE ~UsernameTaken(r)
    <3>1. /\ pend' = [pend EXCEPT ![r] = @ \cup {"user"}]
          /\ UNCHANGED <<args, users, deleted>>
          /\ \A q \in Requests \ {r} : "user" \in pend[q] => ~SameUsername(q, r)
      BY <1>4, <2>2 DEF UsernameKey, Write, HoldsUsername
    <3>2. UniqueLive'
      BY <3>1 DEF UniqueLive, Live, SameKey, SameEmail, SameUsername
    <3>3. KeysReserved'
      BY <2>2, <3>1 DEF KeysReserved, EmailTaken, UsernameTaken, Live, SameEmail, SameUsername, TypeOK
    <3>4. QED BY <3>2, <3>3
  <2>3. QED BY <2>1, <2>2
<1>5. ASSUME NEW r \in Requests, Commit(r) PROVE KeysReserved' /\ UniqueLive'
  <2>1. /\ pend' = [pend EXCEPT ![r] = {}]
        /\ UNCHANGED <<args, deleted>> /\ pc[r] = "commit"
        /\ users' = users \cup (IF "user" \in pend[r] THEN {r} ELSE {})
    BY <1>5 DEF Commit, Answer
  <2>2. CASE "user" \notin pend[r]
    BY <1>2, <2>1, <2>2
  <2>3. CASE "user" \in pend[r]
    <3>1. "email" \in pend[r]
      BY <2>1, <2>3 DEF Progress, Wrote, Rows
    <3>2. Live' \subseteq Live \cup {r}
      BY <2>1 DEF Live
    <3>3. /\ ~EmailTaken(r) /\ ~UsernameTaken(r)
          /\ \A q \in Requests \ {r} : /\ "email" \in pend[q] => ~SameEmail(q, r)
                                       /\ "user" \in pend[q] => ~SameUsername(q, r)
      BY <2>3, <3>1 DEF KeysReserved
    <3>4. UniqueLive'
      BY <2>1, <3>2, <3>3 DEF UniqueLive, EmailTaken, UsernameTaken, SameKey, SameEmail, SameUsername
    <3>5. ASSUME NEW q \in Requests, "email" \in pend'[q]
          PROVE  /\ ~EmailTaken(q)'
                 /\ \A p \in Requests \ {q} : "email" \in pend'[p] => ~SameEmail(p, q)'
      <4>1. q # r /\ "email" \in pend[q]
        BY <2>1, <3>5 DEF TypeOK
      <4>2. ~SameEmail(r, q)
        BY <3>3, <4>1 DEF SameEmail
      <4>3. QED
        BY <2>1, <3>2, <4>1, <4>2 DEF KeysReserved, EmailTaken, SameEmail, TypeOK
    <3>6. ASSUME NEW q \in Requests, "user" \in pend'[q]
          PROVE  /\ ~UsernameTaken(q)'
                 /\ \A p \in Requests \ {q} : "user" \in pend'[p] => ~SameUsername(p, q)'
      <4>1. q # r /\ "user" \in pend[q]
        BY <2>1, <3>6 DEF TypeOK
      <4>2. ~SameUsername(r, q)
        BY <3>3, <4>1 DEF SameUsername
      <4>3. QED
        BY <2>1, <3>2, <4>1, <4>2 DEF KeysReserved, UsernameTaken, SameUsername, TypeOK
    <3>7. QED BY <3>4, <3>5, <3>6 DEF KeysReserved
  <2>4. QED BY <2>2, <2>3
<1>6. ASSUME NEW r \in Requests, Statement(r), ~InsertUser(r), ~Commit(r)
      PROVE  KeysReserved' /\ UniqueLive'
  <2>1. users' = users /\ deleted' = deleted /\ args' = args
    BY <1>6 DEF Statement, CreateDefaultProfile, InsertToken, InsertJob, LookupEmail, ConsumeToken,
                SetVerified, SetPassword, RevokeSessions, LookupLogin, InsertSession, DeleteSession,
                Authenticate
  <2>2. \/ \E rows \in SUBSET (Rows \ {"email", "user"}) : \E next : Write(r, rows, next)
        \/ \E answer : Answer(r, answer)
    BY <1>6 DEF Statement, CreateDefaultProfile, InsertToken, InsertJob, LookupEmail, ConsumeToken,
                SetVerified, SetPassword, RevokeSessions, LookupLogin, InsertSession, DeleteSession,
                Authenticate, Rows
  <2>3. \A q \in Requests : \A row \in {"email", "user"} : row \in pend'[q] => row \in pend[q]
    BY <2>2 DEF Write, Answer, TypeOK
  <2>4. QED BY <2>1, <2>3, QuietKeys
<1>7. ASSUME NEW r \in Requests, Fail(r) PROVE KeysReserved' /\ UniqueLive'
  BY <1>2, <1>7 DEF Fail, Answer
<1>8. CASE World
  <2>1. /\ users' = users /\ deleted \subseteq deleted' /\ args' = args /\ pend' = pend
    BY <1>8 DEF World, SendMail, EndJob, Expire, SoftDelete
  <2>2. QED BY <2>1, QuietKeys
<1>9. CASE UNCHANGED vars
  <2>1. /\ users' = users /\ deleted' = deleted /\ args' = args /\ pend' = pend
    BY <1>9 DEF vars
  <2>2. QED BY <2>1, QuietKeys
<1>10. QED
  BY <1>1, <1>3, <1>4, <1>5, <1>6, <1>7, <1>8, <1>9 DEF Next, Finished, InsertUser

\* A key that a transaction has inserted is nobody else's, and the committed ones
\* are distinct.
LEMMA KeysHold == Spec => [](KeysReserved /\ UniqueLive)
<1>1. Init => KeysReserved /\ UniqueLive
  BY DEF Init, KeysReserved, UniqueLive, Live
<1>2. TypeOK /\ Progress /\ KeysReserved /\ UniqueLive /\ [Next]_vars
      => KeysReserved' /\ UniqueLive'
  BY NextKeys
<1>3. QED
  BY <1>1, <1>2, TypeCorrect, ProgressHolds, PTL DEF Spec

\* Concurrent registrations never leave two live accounts with one e-mail
\* address or user name (INSERT in register.go, indexes of migration 00003).
THEOREM UniqueLiveHolds == Spec => []UniqueLive
BY KeysHold, PTL

-----------------------------------------------------------------------------
(* Tokens are redeemed once.                                               *)

TokenInv == Issued /\ Spending /\ Spent /\ RedeemedOnce

\* A step that issues, spends and locks no token and tells nobody "ok" for one.
LEMMA QuietTokens ==
  ASSUME TypeOK, Progress, TokenInv,
         tokens' = tokens, usedBy' = usedBy,
         \A q \in Requests : "consume" \in pend'[q] => "consume" \in pend[q],
         \A q \in Requests : args'[q] = args[q] \/ pc[q] = "idle",
         \A q \in Requests : pc[q] = "idle" => "consume" \notin pend'[q],
         \A q \in Requests : args'[q].op \in {"verify", "reset", "logout", "whoami"}
                             => args'[q].cred \in Requests,
         \A q \in Requests : subject'[q] = subject[q] \/ (pc[q] # "done" /\ "consume" \notin pend'[q]),
         \A q \in Requests : pc[q] = "done" => pc'[q] = "done",
         \A q \in Requests : args'[q].op \in {"verify", "reset"} /\ reply'[q] = "ok"
                             => reply[q] = "ok" /\ args'[q] = args[q]
  PROVE  TokenInv'
<1> USE DEF TokenInv
<1>1. ASSUME NEW t \in Requests, pc[t] = "done"
      PROVE  args'[t] = args[t] /\ subject'[t] = subject[t] /\ pc'[t] = "done"
  BY <1>1
<1>2. \A t \in tokens : pc[t] = "done"
  BY DEF Progress, TypeOK
<1>3. Issued'
  BY <1>1, <1>2 DEF Issued, TypeOK
<1>4. Spent'
  BY <1>1 DEF Spent, TypeOK
<1>5. ASSUME NEW q \in Requests, "consume" \in pend'[q]
      PROVE  /\ args'[q].cred \in tokens' /\ usedBy'[args'[q].cred] = None
             /\ Purpose(args[q].cred)' = args'[q].op
             /\ subject'[q] = subject'[args'[q].cred]
             /\ ~TokenLocked(q)'
  <2>1. "consume" \in pend[q] /\ args'[q] = args[q] /\ subject'[q] = subject[q]
    BY <1>5 DEF Spending
  <2>2. /\ args[q].cred \in tokens /\ usedBy[args[q].cred] = None
        /\ Purpose(args[q].cred) = args[q].op /\ subject[q] = subject[args[q].cred]
        /\ ~TokenLocked(q)
    BY <2>1 DEF Spending
  <2>3. args[q].cred \in Requests /\ pc[args[q].cred] = "done"
    BY <2>2, <1>2 DEF TypeOK
  <2>4. ~TokenLocked(q)'
    <3> SUFFICES ASSUME NEW z \in Requests \ {q}, "consume" \in pend'[z],
                        args'[z].cred = args'[q].cred
                 PROVE  FALSE
      BY DEF TokenLocked
    <3>1. "consume" \in pend[z] /\ args'[z] = args[z]
      OBVIOUS
    <3>2. QED BY <2>1, <2>2, <3>1 DEF TokenLocked
  <2>5. QED
    BY <2>1, <2>2, <2>3, <2>4, <1>1 DEF Purpose
<1>6. Spending'
  BY <1>5 DEF Spending
<1>7. RedeemedOnce'
  <2>1. ASSUME NEW q \in Requests, args'[q].op \in {"verify", "reset"}, reply'[q] = "ok"
        PROVE  usedBy'[args'[q].cred] = q /\ Purpose(args[q].cred)' = args'[q].op
    <3>1. args'[q] = args[q] /\ reply[q] = "ok"
      BY <2>1
    <3>2. usedBy[args[q].cred] = q /\ Purpose(args[q].cred) = args[q].op /\ args[q].cred \in Requests
      BY <2>1, <3>1 DEF RedeemedOnce, Spending
    <3>3. pc[args[q].cred] = "done"
      BY <3>2, NoneIsNew DEF Spent
    <3>4. QED
      BY <3>1, <3>2, <3>3, <1>1 DEF Purpose
  <2>2. QED BY <2>1 DEF RedeemedOnce
<1>8. QED
  BY <1>3, <1>4, <1>6, <1>7

\* The statements that neither lock a token nor commit are quiet.
LEMMA QuietStatement ==
  ASSUME TypeOK, Progress, TokenInv, NEW r \in Requests,
         Statement(r), ~Commit(r), ~(ConsumeToken(r) /\ Consumable(r))
  PROVE  TokenInv'
<1> USE DEF InTx, NoDbChange, userVars, credVars, mailVars
<1> DEFINE Quiet == /\ CreateDefaultProfile(r) \/ InsertToken(r) \/ InsertJob(r) \/ InsertUser(r)
                       \/ LookupEmail(r) \/ (ConsumeToken(r) /\ ~Consumable(r)) \/ SetVerified(r)
                       \/ SetPassword(r) \/ RevokeSessions(r) \/ LookupLogin(r)
                       \/ InsertSession(r) \/ DeleteSession(r) \/ Authenticate(r)
<1>1. Quiet
  BY DEF Statement
<1>2. /\ tokens' = tokens /\ usedBy' = usedBy /\ args' = args
      /\ pc[r] \notin {"idle", "done"}
  BY <1>1 DEF InsertUser, EmailKey, UsernameKey, CreateDefaultProfile, InsertToken, InsertJob,
              LookupEmail, ConsumeToken,
              SetVerified, SetPassword, RevokeSessions, LookupLogin, InsertSession, DeleteSession,
              Authenticate
<1>3. \/ \E rows \in SUBSET (Rows \ {"consume"}) : \E next : Write(r, rows, next) /\ reply' = reply
      \/ \E answer : /\ Answer(r, answer)
                     /\ answer = "ok" => pc[r] \in {"lookupEmail", "insertSession", "deleteSession",
                                                   "authenticate"}
  <2> USE DEF Rows
  <2>1. CASE InsertUser(r)
    BY <2>1 DEF InsertUser, EmailKey, UsernameKey
  <2>2. CASE CreateDefaultProfile(r) \/ InsertToken(r) \/ InsertJob(r) \/ SetVerified(r)
             \/ SetPassword(r) \/ RevokeSessions(r)
    BY <2>2 DEF CreateDefaultProfile, InsertToken, InsertJob, SetVerified, SetPassword, RevokeSessions
  <2>3. CASE LookupEmail(r)
    BY <2>3 DEF LookupEmail
  <2>4. CASE LookupLogin(r)
    BY <2>4 DEF LookupLogin
  <2>5. CASE (ConsumeToken(r) /\ ~Consumable(r)) \/ InsertSession(r) \/ DeleteSession(r)
             \/ Authenticate(r)
    BY <2>5 DEF ConsumeToken, InsertSession, DeleteSession, Authenticate
  <2>6. QED BY <1>1, <2>1, <2>2, <2>3, <2>4, <2>5
<1>4. /\ \A q \in Requests : "consume" \in pend'[q] => "consume" \in pend[q]
      /\ \A q \in Requests : pc[q] = "done" => pc'[q] = "done"
  BY <1>2, <1>3 DEF Write, Answer, TypeOK
<1>5. \A q \in Requests : pc[q] = "idle" => "consume" \notin pend'[q]
  BY <1>4 DEF Progress, Wrote, Rows
<1>6. \A q \in Requests : args[q].op \in {"verify", "reset"} /\ reply'[q] = "ok" => reply[q] = "ok"
  BY <1>3 DEF Write, Answer, TypeOK, Progress, Stage
<1>7. \A q \in Requests \ {r} : subject'[q] = subject[q]
  BY <1>1 DEF InsertUser, EmailKey, UsernameKey, CreateDefaultProfile, InsertToken, InsertJob,
              LookupEmail, ConsumeToken,
              SetVerified, SetPassword, RevokeSessions, LookupLogin, InsertSession, DeleteSession,
              Authenticate, TypeOK
<1>8. subject'[r] = subject[r] \/ "consume" \notin pend'[r]
  <2>1. CASE InsertUser(r) \/ LookupEmail(r) \/ LookupLogin(r)
    BY <2>1, <1>4 DEF InsertUser, EmailKey, UsernameKey, LookupEmail, LookupLogin, Progress,
                      Wrote, Rows
  <2>2. CASE Authenticate(r)
    BY <2>2 DEF Authenticate, Answer, TypeOK
  <2>3. CASE ~(InsertUser(r) \/ LookupEmail(r) \/ LookupLogin(r) \/ Authenticate(r))
    BY <1>1, <2>3 DEF CreateDefaultProfile, InsertToken, InsertJob, ConsumeToken,
              SetVerified, SetPassword, RevokeSessions, InsertSession, DeleteSession
  <2>4. QED BY <2>1, <2>2, <2>3
<1>9. QED
  <2> HIDE DEF Quiet
  <2>1. \A q \in Requests : args'[q].op \in {"verify", "reset", "logout", "whoami"}
                            => args'[q].cred \in Requests
    BY <1>2 DEF TokenInv, Spending
  <2>2. \A q \in Requests : subject'[q] = subject[q] \/ (pc[q] # "done" /\ "consume" \notin pend'[q])
    BY <1>2, <1>7, <1>8
  <2>3. QED
    BY <1>2, <1>4, <1>5, <1>6, <2>1, <2>2, QuietTokens

\* Spending a token takes its lock.
LEMMA ConsumeTokens ==
  ASSUME TypeOK, Progress, TokenInv, NEW r \in Requests, ConsumeToken(r), Consumable(r)
  PROVE  TokenInv'
<1> DEFINE t == args[r].cred
<1> USE DEF InTx, NoDbChange, credVars, TokenInv
<1>1. /\ tokens' = tokens /\ usedBy' = usedBy /\ args' = args /\ reply' = reply
      /\ subject' = [subject EXCEPT ![r] = subject[t]]
      /\ pend' = [pend EXCEPT ![r] = @ \cup {"consume"}]
      /\ pc[r] = "consume" /\ ~TokenLocked(r)
      /\ \A q \in Requests : pc[q] = "done" => pc'[q] = "done"
  BY DEF ConsumeToken, Write, TypeOK
<1>2. t \in tokens /\ usedBy[t] = None /\ Purpose(t) = args[r].op /\ pc[t] = "done" /\ t \in Requests
  BY DEF Consumable, Progress, TypeOK
<1>3. \A q \in Requests : pc[q] = "done" => subject'[q] = subject[q]
  BY <1>1 DEF TypeOK
<1>4. Issued'
  BY <1>1 DEF Issued
<1>5. Spent'
  BY <1>1, <1>3 DEF Spent, TypeOK
<1>6. RedeemedOnce'
  BY <1>1 DEF RedeemedOnce, Purpose
<1>7. ASSUME NEW q \in Requests, "consume" \in pend'[q]
      PROVE  /\ args[q].cred \in tokens /\ usedBy[args[q].cred] = None
             /\ Purpose(args[q].cred) = args[q].op
             /\ subject'[q] = subject'[args[q].cred]
             /\ ~TokenLocked(q)'
  <2>1. CASE q = r
    BY <2>1, <1>1, <1>2, <1>3 DEF TokenLocked, TypeOK
  <2>2. CASE q # r
    <3>1. "consume" \in pend[q] /\ args[q].cred # t
      BY <1>1, <1>7, <2>2 DEF TokenLocked, TypeOK
    <3>2. args[q].cred \in tokens /\ pc[args[q].cred] = "done" /\ args[q].cred \in Requests
      BY <3>1 DEF Spending, Progress, TypeOK
    <3>3. subject'[q] = subject'[args[q].cred]
      BY <3>1, <3>2, <2>2, <1>1, <1>3 DEF Spending, TypeOK
    <3>4. ~TokenLocked(q)'
      BY <3>1, <1>1 DEF Spending, TokenLocked, TypeOK
    <3>5. QED BY <3>1, <3>3, <3>4 DEF Spending
  <2>3. QED BY <2>1, <2>2
<1>8. Spending'
  BY <1>1, <1>7 DEF Spending, Purpose
<1>9. QED BY <1>4, <1>5, <1>6, <1>8

\* A commit publishes a fresh token, or marks the locked one used, or neither.
LEMMA CommitTokens ==
  ASSUME TypeOK, Progress, TokenInv, NEW r \in Requests, Commit(r)
  PROVE  TokenInv'
<1> DEFINE t == args[r].cred
<1> USE DEF InTx, TokenInv
<1>1. /\ args' = args /\ subject' = subject
      /\ pend' = [pend EXCEPT ![r] = {}]
      /\ pc' = [pc EXCEPT ![r] = "done"] /\ pc[r] = "commit"
      /\ \A q \in Requests \ {r} : reply'[q] = reply[q]
      /\ tokens' = tokens \cup (IF "token" \in pend[r] THEN {r} ELSE {})
      /\ usedBy' = IF "consume" \in pend[r] THEN [usedBy EXCEPT ![t] = r] ELSE usedBy
  BY DEF Commit, Answer, TypeOK
<1>2. "token" \in pend[r] <=> args[r].op \in {"register", "forgot"}
  BY <1>1 DEF Progress, Wrote, Rows
<1>3. "consume" \in pend[r] <=> args[r].op \in {"verify", "reset"}
  BY <1>1 DEF Progress, Wrote, Rows
<1>4. "consume" \in pend[r] =>
        /\ t \in tokens /\ t \in Requests /\ usedBy[t] = None /\ Purpose(t) = args[r].op
        /\ subject[r] = subject[t] /\ ~TokenLocked(r) /\ pc[t] = "done"
  BY DEF Spending, Progress, TypeOK
<1>5. Issued'
  BY <1>1, <1>2 DEF Issued
<1>6. Spent'
  BY <1>1, <1>4, NoneIsNew DEF Spent, TypeOK
<1>7. RedeemedOnce'
  <2>1. ASSUME NEW q \in Requests, args[q].op \in {"verify", "reset"}, reply'[q] = "ok"
        PROVE  usedBy'[args[q].cred] = q /\ Purpose(args[q].cred) = args[q].op
    <3>1. CASE q = r
      BY <3>1, <2>1, <1>1, <1>3, <1>4 DEF TypeOK
    <3>2. CASE q # r
      BY <3>2, <2>1, <1>1, <1>4, NoneIsNew DEF RedeemedOnce, Spending, TypeOK
    <3>3. QED BY <3>1, <3>2
  <2>2. QED BY <2>1, <1>1 DEF RedeemedOnce, Purpose
<1>8. ASSUME NEW q \in Requests, "consume" \in pend'[q]
      PROVE  /\ args[q].cred \in tokens' /\ usedBy'[args[q].cred] = None
             /\ Purpose(args[q].cred) = args[q].op
             /\ subject[q] = subject[args[q].cred]
             /\ ~TokenLocked(q)'
  <2>1. q # r /\ "consume" \in pend[q]
    BY <1>1, <1>8 DEF TypeOK
  <2>2. "consume" \in pend[r] => args[q].cred # t
    BY <2>1, <1>4 DEF TokenLocked
  <2>3. ~TokenLocked(q)'
    BY <2>1, <1>1 DEF Spending, TokenLocked, TypeOK
  <2>4. QED BY <2>1, <2>2, <2>3, <1>1, <1>4 DEF Spending, TypeOK
<1>9. Spending'
  BY <1>1, <1>8 DEF Spending, Purpose
<1>10. QED BY <1>5, <1>6, <1>7, <1>9

\* Every step keeps the facts about tokens.
LEMMA NextTokens ==
  ASSUME TypeOK, Progress, TokenInv, [Next]_vars
  PROVE  TokenInv'
<1> USE DEF InTx, NoDbChange, userVars, credVars, mailVars, reqVars
<1>1. ASSUME NEW r \in Requests, Start(r) PROVE TokenInv'
  <2>1. PICK a, next : Arrive(r, a, next) /\ Admitted(a, next)
    BY <1>1, StartIsArrive
  <2>2. /\ tokens' = tokens /\ usedBy' = usedBy /\ subject' = subject /\ pend' = pend
        /\ args' = [args EXCEPT ![r] = a] /\ pc[r] = "idle" /\ pc' = [pc EXCEPT ![r] = next]
        /\ reply' = [reply EXCEPT ![r] = IF next = "done" THEN "rejected" ELSE "none"]
    BY <2>1 DEF Arrive
  <2>3. \A q \in Requests : pc[q] = "idle" => "consume" \notin pend'[q]
    BY <2>2 DEF Progress, Wrote, Rows
  <2>4. a.op \in {"verify", "reset", "logout", "whoami"} => a.cred \in Requests
    BY <2>1 DEF Admitted, Cookies, TypeOK
  <2>5. \A q \in Requests : args'[q].op \in {"verify", "reset", "logout", "whoami"}
                            => args'[q].cred \in Requests
    BY <2>2, <2>4 DEF TokenInv, Spending, TypeOK
  <2>6. \A q \in Requests : args'[q].op \in {"verify", "reset"} /\ reply'[q] = "ok"
                            => reply[q] = "ok" /\ args'[q] = args[q]
    BY <2>2 DEF TypeOK
  <2>7. QED
    BY <2>2, <2>3, <2>5, <2>6, QuietTokens DEF TypeOK
<1>2. ASSUME NEW r \in Requests, Statement(r) PROVE TokenInv'
  <2>1. CASE Commit(r)
    BY <2>1, CommitTokens
  <2>2. CASE ConsumeToken(r) /\ Consumable(r)
    BY <2>2, ConsumeTokens
  <2>3. CASE ~Commit(r) /\ ~(ConsumeToken(r) /\ Consumable(r))
    BY <1>2, <2>3, QuietStatement
  <2>4. QED BY <2>1, <2>2, <2>3
<1>3. ASSUME NEW r \in Requests, Fail(r) PROVE TokenInv'
  <2>1. /\ tokens' = tokens /\ usedBy' = usedBy /\ subject' = subject /\ args' = args
        /\ pend' = [pend EXCEPT ![r] = {}] /\ pc' = [pc EXCEPT ![r] = "done"]
        /\ \A q \in Requests \ {r} : reply'[q] = reply[q]
        /\ reply'[r] \in FailureAnswers(r)
    BY <1>3 DEF Fail, Answer, TypeOK
  <2>2. args[r].op \in {"verify", "reset"} => "ok" \notin FailureAnswers(r)
    BY DEF FailureAnswers
  <2>3. \A q \in Requests : /\ "consume" \in pend'[q] => "consume" \in pend[q]
                            /\ pc[q] = "done" => pc'[q] = "done"
    BY <2>1 DEF TypeOK
  <2>4. \A q \in Requests : pc[q] = "idle" => "consume" \notin pend'[q]
    BY <2>3 DEF Progress, Wrote, Rows
  <2>5. \A q \in Requests : args'[q].op \in {"verify", "reset"} /\ reply'[q] = "ok"
                            => reply[q] = "ok" /\ args'[q] = args[q]
    BY <2>1, <2>2 DEF TypeOK
  <2>6. \A q \in Requests : args'[q].op \in {"verify", "reset", "logout", "whoami"}
                            => args'[q].cred \in Requests
    BY <2>1 DEF TokenInv, Spending
  <2>7. QED
    BY <2>1, <2>3, <2>4, <2>5, <2>6, QuietTokens
<1>4. CASE World \/ UNCHANGED vars
  <2>1. UNCHANGED <<pc, args, subject, pend, reply, tokens, usedBy>>
    BY <1>4 DEF World, SendMail, EndJob, Expire, SoftDelete, vars
  <2>2. \A q \in Requests : pc[q] = "idle" => "consume" \notin pend'[q]
    BY <2>1 DEF Progress, Wrote, Rows
  <2>3. \A q \in Requests : args'[q].op \in {"verify", "reset", "logout", "whoami"}
                            => args'[q].cred \in Requests
    BY <2>1 DEF TokenInv, Spending
  <2>4. QED
    BY <2>1, <2>2, <2>3, QuietTokens
<1>5. QED
  BY <1>1, <1>2, <1>3, <1>4 DEF Next, Finished

\* A mailed token is always in the database: a mail job is published by the
\* commit that publishes its token.
THEOREM OutboxSoundHolds == Spec => []OutboxSound
<1>1. Init => OutboxSound
  BY DEF Init, OutboxSound
<1>2. TypeOK /\ Progress /\ OutboxSound /\ [Next]_vars => OutboxSound'
  <2> SUFFICES ASSUME TypeOK, Progress, OutboxSound, [Next]_vars
               PROVE  OutboxSound'
    OBVIOUS
  <2> USE DEF userVars, credVars, mailVars, NoDbChange
  <2>1. ASSUME NEW r \in Requests, Commit(r) PROVE OutboxSound'
    <3>1. "job" \in pend[r] => "token" \in pend[r]
      BY <2>1 DEF Commit, InTx, Progress, Wrote, Rows
    <3>2. QED BY <2>1, <3>1 DEF Commit, OutboxSound
  <2>2. ASSUME NEW r \in Requests, Start(r) \/ Fail(r) \/ (Statement(r) /\ ~Commit(r))
        PROVE  OutboxSound'
    <3>1. UNCHANGED <<tokens, jobs, inbox>>
      BY <2>2 DEF Start, Register, VerifyEmail, Login, Logout, Forgot, ResetPassword, Whoami, Arrive,
                  Fail, Statement, InsertUser, EmailKey, UsernameKey, CreateDefaultProfile,
                  InsertToken, InsertJob,
                  LookupEmail, ConsumeToken, SetVerified, SetPassword, RevokeSessions, LookupLogin,
                  InsertSession, DeleteSession, Authenticate
    <3>2. QED BY <3>1 DEF OutboxSound
  <2>3. CASE World
    BY <2>3 DEF World, SendMail, EndJob, Expire, SoftDelete, OutboxSound
  <2>4. CASE UNCHANGED vars
    BY <2>4 DEF vars, OutboxSound
  <2>5. QED
    BY <2>1, <2>2, <2>3, <2>4 DEF Next, Finished
<1>3. QED
  BY <1>1, <1>2, TypeCorrect, ProgressHolds, PTL DEF Spec

\* The facts about tokens hold in every reachable state.
LEMMA TokenInvHolds == Spec => []TokenInv
<1>1. Init => TokenInv
  BY NoneIsNew DEF Init, TokenInv, Issued, Spending, Spent, RedeemedOnce, NoArgs, Ops
<1>2. TypeOK /\ Progress /\ TokenInv /\ [Next]_vars => TokenInv'
  BY NextTokens
<1>3. QED
  BY <1>1, <1>2, TypeCorrect, ProgressHolds, PTL DEF Spec

\* However verifications and resets of one token interleave, fail or lose
\* their answers, at most one is answered with success, and it is the one
\* recorded in used_at (verification_tokens.go).
THEOREM RedeemedOnceHolds == Spec => []RedeemedOnce
BY TokenInvHolds, PTL DEF TokenInv

\* used_at is written once (the "used_at IS NULL" of the UPDATE, and its lock).
THEOREM UsedOnceHolds == Spec => UsedOnce
<1>1. TokenInv /\ [Next]_vars =>
        [\A t \in Requests : usedBy[t] # None => usedBy'[t] = usedBy[t]]_vars
  <2> SUFFICES ASSUME TokenInv, [Next]_vars, NEW t \in Requests, usedBy[t] # None
               PROVE  usedBy'[t] = usedBy[t]
    OBVIOUS
  <2> USE DEF userVars, credVars, mailVars, NoDbChange
  <2>1. ASSUME NEW r \in Requests, Commit(r) PROVE usedBy'[t] = usedBy[t]
    BY <2>1 DEF Commit, TokenInv, Spending
  <2>2. ASSUME NEW r \in Requests, Start(r) \/ Fail(r) \/ (Statement(r) /\ ~Commit(r))
        PROVE  usedBy' = usedBy
    BY <2>2 DEF Start, Register, VerifyEmail, Login, Logout, Forgot, ResetPassword, Whoami, Arrive,
                Fail, Statement, InsertUser, EmailKey, UsernameKey, CreateDefaultProfile,
                InsertToken, InsertJob,
                LookupEmail, ConsumeToken, SetVerified, SetPassword, RevokeSessions, LookupLogin,
                InsertSession, DeleteSession, Authenticate
  <2>3. CASE World \/ UNCHANGED vars
    BY <2>3 DEF World, SendMail, EndJob, Expire, SoftDelete, vars
  <2>4. QED
    BY <2>1, <2>2, <2>3 DEF Next, Finished
<1>2. QED
  BY <1>1, TokenInvHolds, PTL DEF Spec, UsedOnce

-----------------------------------------------------------------------------
(* What a step can do.                                                     *)

\* Only a commit writes the tables that transactions write.
LEMMA OnlyCommitPublishes ==
  ASSUME [Next]_vars, \A r \in Requests : ~Commit(r)
  PROVE  UNCHANGED <<users, profiles, wishlists, hash, verifiedBy, tokens, usedBy>>
<1> USE DEF userVars, credVars, mailVars, reqVars, NoDbChange
<1>1. ASSUME NEW r \in Requests, Start(r) \/ Fail(r) \/ Statement(r)
      PROVE  UNCHANGED <<users, profiles, wishlists, hash, verifiedBy, tokens, usedBy>>
  BY <1>1 DEF Start, Register, VerifyEmail, Login, Logout, Forgot, ResetPassword, Whoami, Arrive,
              Fail, Statement, InsertUser, EmailKey, UsernameKey, CreateDefaultProfile,
              InsertToken, InsertJob,
              LookupEmail, ConsumeToken, SetVerified, SetPassword, RevokeSessions, LookupLogin,
              InsertSession, DeleteSession, Authenticate
<1>2. CASE World \/ UNCHANGED vars
  BY <1>2 DEF World, SendMail, EndJob, Expire, SoftDelete, vars
<1>3. QED BY <1>1, <1>2 DEF Next, Finished

\* A commit publishes what the operation has written, and nothing else.
LEMMA CommitPublishes ==
  ASSUME TypeOK, Progress, NEW r \in Requests, Commit(r)
  PROVE  /\ pc[r] = "commit" /\ r \notin tokens \cup users
         /\ args[r].op \in {"register", "forgot", "verify", "reset"}
         /\ args' = args /\ subject' = subject /\ deleted' = deleted
         /\ users' = users \cup (IF args[r].op = "register" THEN {r} ELSE {})
         /\ profiles' = profiles \cup (IF args[r].op = "register" THEN {r} ELSE {})
         /\ wishlists' = wishlists \cup (IF args[r].op = "register" THEN {r} ELSE {})
         /\ tokens' = tokens \cup (IF args[r].op \in {"register", "forgot"} THEN {r} ELSE {})
         /\ args[r].op = "register" => subject[r] = r
         /\ hash' = IF args[r].op \in {"register", "reset"}
                    THEN [hash EXCEPT ![subject[r]] = r] ELSE hash
         /\ usedBy' = IF args[r].op \in {"verify", "reset"}
                      THEN [usedBy EXCEPT ![args[r].cred] = r] ELSE usedBy
         /\ verifiedBy' = IF args[r].op = "verify" /\ verifiedBy[subject[r]] = None
                          THEN [verifiedBy EXCEPT ![subject[r]] = r] ELSE verifiedBy
<1>1. pc[r] = "commit"
  BY DEF Commit, InTx
<1>2. args[r].op \in {"register", "forgot", "verify", "reset"}
  BY <1>1 DEF Progress, Stage
<1>3. /\ "user" \in pend[r] <=> args[r].op = "register"
      /\ "profile" \in pend[r] <=> args[r].op = "register"
      /\ "wishlist" \in pend[r] <=> args[r].op = "register"
      /\ "token" \in pend[r] <=> args[r].op \in {"register", "forgot"}
      /\ "consume" \in pend[r] <=> args[r].op \in {"verify", "reset"}
      /\ "verify" \in pend[r] <=> args[r].op = "verify"
      /\ "password" \in pend[r] <=> args[r].op = "reset"
  BY <1>1 DEF Progress, Wrote, Rows
<1>4. r \notin tokens \cup users /\ (args[r].op = "register" => subject[r] = r)
  BY <1>1, <1>3 DEF Progress
<1>5. QED
  BY <1>1, <1>2, <1>3, <1>4 DEF Commit, InTx

\* A statement, or its failure, leaves the other requests alone.
LEMMA StatementFrame ==
  ASSUME TypeOK, NEW r \in Requests, Statement(r) \/ Fail(r)
  PROVE  /\ UNCHANGED <<args, prior, dead, inTime>>
         /\ pc[r] \notin {"idle", "done"} /\ pc'[r] # "idle"
         /\ \A q \in Requests \ {r} :
              /\ pc'[q] = pc[q] /\ subject'[q] = subject[q] /\ reply'[q] = reply[q]
              /\ pend'[q] = pend[q] /\ revoked'[q] = revoked[q]
<1> USE DEF InTx, TypeOK
<1>1. CASE Fail(r)
  BY <1>1 DEF Fail, Answer
<1>2. CASE InsertUser(r) \/ CreateDefaultProfile(r) \/ InsertToken(r) \/ InsertJob(r)
           \/ LookupEmail(r) \/ ConsumeToken(r)
  BY <1>2 DEF InsertUser, EmailKey, UsernameKey, CreateDefaultProfile, InsertToken, InsertJob,
              LookupEmail,
              ConsumeToken, Answer, Write
<1>3. CASE SetVerified(r) \/ SetPassword(r) \/ RevokeSessions(r) \/ LookupLogin(r)
  BY <1>3 DEF SetVerified, SetPassword, RevokeSessions, LookupLogin, Answer, Write
<1>4. CASE InsertSession(r) \/ DeleteSession(r) \/ Authenticate(r) \/ Commit(r)
  BY <1>4 DEF InsertSession, DeleteSession, Authenticate, Commit, Answer
<1>5. QED BY <1>1, <1>2, <1>3, <1>4 DEF Statement

\* So does the arrival of a request.
LEMMA StartFrame ==
  ASSUME TypeOK, NEW r \in Requests, Start(r)
  PROVE  /\ pc[r] = "idle" /\ UNCHANGED <<subject, pend, revoked>>
         /\ \A q \in Requests \ {r} :
              /\ pc'[q] = pc[q] /\ args'[q] = args[q]
              /\ reply'[q] = reply[q] /\ prior'[q] = prior[q]
              /\ q \in dead' <=> q \in dead
              /\ q \in inTime' <=> q \in inTime
<1>1. PICK a, next : Arrive(r, a, next)
  BY StartIsArrive
<1>2. QED BY <1>1 DEF Arrive, TypeOK

\* And whatever else happens.
LEMMA OtherFrame ==
  ASSUME World \/ UNCHANGED vars
  PROVE  UNCHANGED <<pc, args, subject, pend, revoked, reply, prior, dead, inTime>>
BY DEF World, SendMail, EndJob, Expire, SoftDelete, vars, reqVars

\* An answered request is over.
LEMMA DoneIsFixed ==
  ASSUME TypeOK, Progress, [Next]_vars, NEW q \in Requests, pc[q] = "done"
  PROVE  /\ pc'[q] = "done" /\ args'[q] = args[q] /\ subject'[q] = subject[q]
         /\ reply'[q] = reply[q] /\ prior'[q] = prior[q]
         /\ q \in dead' <=> q \in dead
         /\ q \in inTime' <=> q \in inTime
<1>1. ASSUME NEW r \in Requests, Statement(r) \/ Fail(r)
      PROVE  r # q
  BY <1>1, StatementFrame
<1>2. QED
  BY <1>1, StartFrame, StatementFrame, OtherFrame DEF Next, Finished

\* Who is told "ok": requests that commit, open a session or authenticate, and
\* those whose answer says nothing (forgot, logout).
LEMMA ToldOk ==
  ASSUME TypeOK, Progress, [Next]_vars, NEW q \in Requests, reply'[q] = "ok"
  PROVE  /\ args'[q] = args[q]
         /\ \/ reply[q] = "ok" /\ pc[q] = "done"
            \/ Commit(q)
            \/ InsertSession(q) /\ args[q].op = "login"
            \/ Authenticate(q) /\ SessionValid(args[q].cred) /\ args[q].op = "whoami"
            \/ args[q].op \in {"forgot", "logout"}
<1> USE DEF userVars, credVars, mailVars, reqVars, NoDbChange, InTx, TypeOK
<1>1. reply[q] = "ok" => pc[q] = "done"
  BY DEF Progress
<1>2. ASSUME NEW r \in Requests, Start(r)
      PROVE  reply'[q] = reply[q] /\ args'[q] = args[q]
  <2>1. PICK a, next : Arrive(r, a, next)
    BY <1>2, StartIsArrive
  <2>2. q # r
    BY <2>1 DEF Arrive
  <2>3. QED BY <1>2, <2>2, StartFrame
<1>3. ASSUME NEW r \in Requests, Statement(r) \/ Fail(r), r # q
      PROVE  reply'[q] = reply[q] /\ args'[q] = args[q]
  BY <1>3, StatementFrame
<1>4. CASE Fail(q)
  BY <1>4 DEF Fail, Answer, FailureAnswers, Progress
<1>5. CASE Statement(q)
  <2>1. CASE InsertUser(q) \/ CreateDefaultProfile(q) \/ InsertToken(q) \/ InsertJob(q)
             \/ ConsumeToken(q) \/ SetVerified(q) \/ SetPassword(q) \/ RevokeSessions(q)
             \/ LookupLogin(q)
    BY <1>1, <2>1 DEF InsertUser, EmailKey, UsernameKey, CreateDefaultProfile, InsertToken,
                      InsertJob, ConsumeToken,
             SetVerified, SetPassword, RevokeSessions, LookupLogin, Answer
  <2>2. CASE LookupEmail(q)
    BY <2>2 DEF LookupEmail, Progress, Stage
  <2>3. CASE InsertSession(q)
    BY <2>3 DEF InsertSession, Progress, Stage
  <2>4. CASE DeleteSession(q)
    BY <2>4 DEF DeleteSession, Progress, Stage
  <2>5. CASE Authenticate(q)
    BY <2>5 DEF Authenticate, Answer, Progress, Stage
  <2>6. CASE Commit(q)
    BY <2>6 DEF Commit
  <2>7. QED BY <1>5, <2>1, <2>2, <2>3, <2>4, <2>5, <2>6 DEF Statement
<1>6. CASE World \/ UNCHANGED vars
  BY <1>1, <1>6 DEF World, SendMail, EndJob, Expire, SoftDelete, vars
<1>7. QED BY <1>1, <1>2, <1>3, <1>4, <1>5, <1>6 DEF Next, Finished

-----------------------------------------------------------------------------
(* Accounts are complete.                                                  *)

\* An account never exists without its profile, wishlist and verification
\* token, whichever statement fails and whether or not the commit's answer
\* arrives; a client told "created" has an account (register, bootstrap.go).
THEOREM RegistrationAtomicHolds == Spec => []RegistrationAtomic
<1>1. Init => RegistrationAtomic
  BY DEF Init, RegistrationAtomic
<1>2. ASSUME TypeOK, Progress, RegistrationAtomic, [Next]_vars
      PROVE  RegistrationAtomic'
  <2>1. \A t \in tokens : pc[t] = "done" /\ t \in Requests
    BY <1>2 DEF Progress, TypeOK
  <2>2. \A t \in tokens : args'[t] = args[t]
    BY <1>2, <2>1, DoneIsFixed
  <2>3. /\ users' = profiles' /\ users' = wishlists'
        /\ users' = {t \in tokens' : args'[t].op = "register"}
    <3>1. CASE \E r \in Requests : Commit(r)
      <4>1. PICK r \in Requests : Commit(r)
        BY <3>1
      <4>2. users' = profiles' /\ users' = wishlists'
        BY <1>2, <4>1, CommitPublishes DEF RegistrationAtomic
      <4>3. users' = {t \in tokens' : args'[t].op = "register"}
        <5>2. CASE args[r].op = "register"
          BY <1>2, <4>1, <5>2, CommitPublishes DEF RegistrationAtomic
        <5>3. CASE args[r].op # "register"
          BY <1>2, <4>1, <5>3, CommitPublishes DEF RegistrationAtomic
        <5>4. QED BY <5>2, <5>3
      <4>4. QED BY <4>2, <4>3
    <3>2. CASE \A r \in Requests : ~Commit(r)
      BY <1>2, <3>2, <2>2, OnlyCommitPublishes DEF RegistrationAtomic
    <3>3. QED BY <3>1, <3>2
  <2>4. users \subseteq users'
    BY <1>2, OnlyCommitPublishes, CommitPublishes
  <2>5. ASSUME NEW r \in Requests, args'[r].op = "register", reply'[r] = "ok"
        PROVE  r \in users'
    <3>1. args[r].op = "register" /\ (reply[r] = "ok" \/ Commit(r))
      BY <1>2, <2>5, ToldOk
    <3>2. CASE reply[r] = "ok"
      BY <1>2, <3>1, <3>2, <2>4 DEF RegistrationAtomic
    <3>3. CASE Commit(r)
      BY <1>2, <3>1, <3>3, CommitPublishes
    <3>4. QED BY <3>1, <3>2, <3>3
  <2>6. QED BY <2>3, <2>5 DEF RegistrationAtomic
<1>3. QED
  BY <1>1, <1>2, TypeCorrect, ProgressHolds, PTL DEF Spec

-----------------------------------------------------------------------------
(* Passwords and verifications change by their own token only.             *)

\* The token of a registration belongs to the account it registers.
OwnToken == \A t \in tokens : args[t].op = "register" => subject[t] = t

\* What a commit that spends a token has locked.
LEMMA CommitSpends ==
  ASSUME TypeOK, Progress, TokenInv, NEW r \in Requests, Commit(r), args[r].op \in {"verify", "reset"}
  PROVE  LET t == args[r].cred IN
         /\ t \in tokens /\ t \in Requests /\ usedBy[t] = None /\ Purpose(t) = args[r].op
         /\ args[t].op \in {"register", "forgot"}
         /\ subject[r] = subject[t]
<1>1. "consume" \in pend[r]
  BY DEF Commit, InTx, Progress, Wrote, Rows
<1>2. QED BY <1>1 DEF TokenInv, Spending, Issued, TypeOK

\* The password of an existing account changes only with the reset token that
\* a forgot request issued for it (reset.go, consumeVerificationToken).
THEOREM PasswordNeedsTokenHolds == Spec => PasswordNeedsToken
<1>1. ASSUME TypeOK, Progress, TokenInv, [Next]_vars,
             NEW u \in users, hash'[u] # hash[u]
      PROVE  \E t \in tokens : /\ args[t].op = "forgot" /\ subject[t] = u
                               /\ usedBy[t] = None /\ usedBy'[t] = hash'[u]
  <2>1. PICK r \in Requests : Commit(r)
    BY <1>1, OnlyCommitPublishes
  <2>2. u \in Requests
    BY <1>1 DEF TypeOK
  <2>3. args[r].op = "reset" /\ subject[r] = u /\ hash'[u] = r
    BY <1>1, <2>1, <2>2, CommitPublishes DEF TypeOK
  <2>4. args[args[r].cred].op = "forgot" /\ usedBy'[args[r].cred] = r
    BY <1>1, <2>1, <2>3, CommitSpends, CommitPublishes DEF Purpose, TypeOK
  <2>5. QED BY <1>1, <2>1, <2>3, <2>4, CommitSpends
<1>2. TypeOK /\ Progress /\ TokenInv /\ [Next]_vars =>
        [\A u \in users : hash'[u] # hash[u] =>
           \E t \in tokens : /\ args[t].op = "forgot" /\ subject[t] = u
                             /\ usedBy[t] = None /\ usedBy'[t] = hash'[u]]_vars
  BY <1>1
<1>3. QED
  BY <1>2, TypeCorrect, ProgressHolds, TokenInvHolds, PTL DEF Spec, PasswordNeedsToken

\* An address is verified by the request that spent the token of its own
\* registration, and the first verification stays (COALESCE in verify_email.go).
THEOREM VerifiedByOwnTokenHolds == Spec => []VerifiedByOwnToken
<1>1. Init => VerifiedByOwnToken /\ OwnToken
  BY DEF Init, VerifiedByOwnToken, OwnToken
<1>2. ASSUME TypeOK, Progress, TokenInv, RegistrationAtomic, VerifiedByOwnToken, OwnToken, [Next]_vars
      PROVE  VerifiedByOwnToken' /\ OwnToken'
  <2>1. \A t \in tokens : /\ pc[t] = "done" /\ t \in Requests
                          /\ args'[t] = args[t] /\ subject'[t] = subject[t]
    BY <1>2, DoneIsFixed DEF Progress, TypeOK
  <2>2. CASE \A r \in Requests : ~Commit(r)
    <3>1. UNCHANGED <<users, verifiedBy, tokens, usedBy>>
      BY <1>2, <2>2, OnlyCommitPublishes
    <3>2. QED BY <1>2, <2>1, <3>1 DEF VerifiedByOwnToken, OwnToken
  <2>3. ASSUME NEW r \in Requests, Commit(r)
        PROVE  VerifiedByOwnToken' /\ OwnToken'
    <3>1. OwnToken'
      BY <1>2, <2>1, <2>3, CommitPublishes DEF OwnToken
    <3>2. CASE args[r].op \notin {"verify", "reset"}
      BY <1>2, <2>3, <3>1, <3>2, CommitPublishes DEF VerifiedByOwnToken
    <3>3. CASE args[r].op \in {"verify", "reset"}
      <4> DEFINE t == args[r].cred
      <4>1. /\ t \in tokens /\ t \in Requests /\ usedBy[t] = None /\ Purpose(t) = args[r].op
            /\ args[t].op \in {"register", "forgot"} /\ subject[r] = subject[t]
        BY <1>2, <2>3, <3>3, CommitSpends
      <4>2. verifiedBy[t] = None
        BY <1>2, <4>1 DEF VerifiedByOwnToken
      <4>3. /\ users' = users /\ usedBy' = [usedBy EXCEPT ![t] = r]
            /\ verifiedBy' = IF args[r].op = "verify" /\ verifiedBy[subject[r]] = None
                             THEN [verifiedBy EXCEPT ![subject[r]] = r] ELSE verifiedBy
        BY <1>2, <2>3, <3>3, CommitPublishes
      <4>4. args[r].op = "verify" => subject[r] = t /\ t \in users
        BY <1>2, <4>1 DEF Purpose, OwnToken, RegistrationAtomic
      <4>5. ASSUME NEW u \in Requests, verifiedBy'[u] # None
            PROVE  u \in users' /\ usedBy'[u] = verifiedBy'[u]
        <5>1. CASE u = t
          BY <1>2, <4>1, <4>2, <4>3, <4>4, <4>5, <5>1 DEF TypeOK
        <5>2. CASE u # t
          BY <1>2, <4>3, <4>4, <4>5, <5>2 DEF VerifiedByOwnToken, TypeOK
        <5>3. QED BY <5>1, <5>2
      <4>6. QED BY <3>1, <4>5 DEF VerifiedByOwnToken
    <3>4. QED BY <3>2, <3>3
  <2>4. QED BY <2>2, <2>3
<1>3. QED
  BY <1>1, <1>2, TypeCorrect, ProgressHolds, TokenInvHolds, RegistrationAtomicHolds, PTL DEF Spec

-----------------------------------------------------------------------------
(* Revocation is final.                                                    *)

\* A session row appears only when its login inserts it.
LEMMA SessionsGrow ==
  ASSUME TypeOK, Progress, [Next]_vars
  PROVE  \A s \in sessions' : s \in sessions \/ (s \in Requests /\ InsertSession(s))
<1> USE DEF userVars, credVars, mailVars, reqVars, NoDbChange
<1>1. ASSUME NEW r \in Requests, Start(r) \/ Fail(r) \/ Statement(r)
      PROVE  sessions' \subseteq sessions \/ (InsertSession(r) /\ sessions' = sessions \cup {r})
  BY <1>1 DEF Start, Register, VerifyEmail, Login, Logout, Forgot, ResetPassword, Whoami, Arrive,
              Fail, Statement, InsertUser, EmailKey, UsernameKey, CreateDefaultProfile,
              InsertToken, InsertJob,
              LookupEmail, ConsumeToken, SetVerified, SetPassword, RevokeSessions, LookupLogin,
              InsertSession, DeleteSession, Authenticate, Commit
<1>2. CASE World \/ UNCHANGED vars
  BY <1>2 DEF World, SendMail, EndJob, Expire, SoftDelete, vars
<1>3. QED BY <1>1, <1>2 DEF Next, Finished

\* A request that inserts its session was not finished, so no reset has seen it.
LEMMA InsertIsNew ==
  ASSUME TypeOK, Progress, NEW s \in Requests, InsertSession(s)
  PROVE  pc[s] # "done" /\ \A r \in Requests : s \notin prior[r]
BY DEF InsertSession, InTx, Progress

\* A reset reaches its commit by way of its DELETE.
LEMMA NextRevoking ==
  ASSUME TypeOK, Progress, Revoking, [Next]_vars
  PROVE  Revoking'
<1> USE DEF userVars, credVars, mailVars, reqVars, NoDbChange, InTx, TypeOK
<1>1. ASSUME NEW q \in Requests, pc'[q] = "commit", args'[q].op = "reset",
             NEW s \in sessions', s \in prior'[q], subject'[s] = subject'[q]
      PROVE  s \in revoked'[q]
  <2> DEFINE Same == /\ pc'[q] = pc[q] /\ args'[q] = args[q] /\ subject'[q] = subject[q]
                     /\ prior'[q] = prior[q] /\ revoked'[q] = revoked[q]
  <2>1. RevokeSessions(q) \/ Same
    <3>1. ASSUME NEW r \in Requests, Start(r) PROVE Same
      <4>1. PICK a, next : Arrive(r, a, next) /\ Admitted(a, next)
        BY <3>1, StartIsArrive
      <4>2. q # r
        BY <1>1, <4>1 DEF Arrive, Admitted
      <4>3. QED BY <3>1, <4>2, StartFrame
    <3>2. ASSUME NEW r \in Requests, r # q, Statement(r) \/ Fail(r) PROVE Same
      BY <3>2, StatementFrame
    <3>3. CASE Fail(q)
      BY <1>1, <3>3 DEF Fail, Answer
    <3>4. CASE Statement(q)
      <4>1. args[q].op = "reset"
        BY <1>1, <3>4 DEF Statement, InsertUser, EmailKey, UsernameKey, CreateDefaultProfile,
                          InsertToken, InsertJob,
           LookupEmail, ConsumeToken, SetVerified, SetPassword, RevokeSessions, LookupLogin,
           InsertSession, DeleteSession, Authenticate, Commit
      <4>2. pc[q] \in {"consume", "setPassword", "revokeSessions", "commit"}
        BY <4>1, <3>4 DEF Progress, Stage, Statement, InsertUser, EmailKey, UsernameKey,
                          CreateDefaultProfile, InsertToken,
           InsertJob, LookupEmail, ConsumeToken, SetVerified, SetPassword, RevokeSessions, LookupLogin,
           InsertSession, DeleteSession, Authenticate, Commit
      <4>3. ConsumeToken(q) \/ SetPassword(q) \/ RevokeSessions(q) \/ Commit(q)
        BY <3>4, <4>2 DEF Statement, InsertUser, EmailKey, UsernameKey, CreateDefaultProfile,
                          InsertToken,
           InsertJob, LookupEmail, SetVerified, LookupLogin, InsertSession, DeleteSession, Authenticate
      <4>4. QED
        BY <1>1, <4>1, <4>3 DEF ConsumeToken, SetPassword, Commit, Answer, Write
    <3>5. CASE World \/ UNCHANGED vars
      BY <3>5, OtherFrame
    <3>6. QED BY <3>1, <3>2, <3>3, <3>4, <3>5 DEF Next, Finished
  <2>2. CASE RevokeSessions(q)
    BY <1>1, <2>2 DEF RevokeSessions
  <2>3. CASE Same
    <3>1. s \in Requests /\ pc[s] = "done"
      BY <1>1, <2>3 DEF Progress
    <3>2. s \in sessions /\ subject'[s] = subject[s]
      BY <1>1, <3>1, SessionsGrow, InsertIsNew, DoneIsFixed
    <3>3. QED BY <1>1, <2>3, <3>1, <3>2 DEF Revoking
  <2>4. QED BY <2>1, <2>2, <2>3
<1>2. QED BY <1>1 DEF Revoking

\* A token is marked with its spender by the spender's own commit.
LEMMA CommitlessUse ==
  ASSUME TypeOK, Progress, TokenInv, [Next]_vars, NEW r \in Requests, ~Commit(r),
         args'[r].op \in {"verify", "reset"}, usedBy'[args'[r].cred] = r
  PROVE  args'[r] = args[r] /\ usedBy[args[r].cred] = r /\ pc[r] = "done"
<1>1. TypeOK' /\ TokenInv'
  BY NextTypeOK, NextTokens
<1>2. args'[r].cred \in Requests
  BY <1>1 DEF TokenInv, Spending
<1>3. usedBy[args'[r].cred] = r
  <2>1. CASE \A q \in Requests : ~Commit(q)
    BY <2>1, OnlyCommitPublishes
  <2>2. ASSUME NEW q \in Requests, Commit(q) PROVE usedBy[args'[r].cred] = r
    <3>1. q # r
      BY <2>2
    <3>2. QED BY <1>2, <2>2, <3>1, CommitPublishes DEF TypeOK
  <2>3. QED BY <2>1, <2>2
<1>4. pc[r] = "done"
  BY <1>2, <1>3, NoneIsNew DEF TokenInv, Spent
<1>5. args'[r] = args[r]
  BY <1>4, DoneIsFixed
<1>6. QED BY <1>3, <1>4, <1>5

\* A reset deletes what it found before it commits, and what it found stays gone.
LEMMA RevokingHolds == Spec => [](Revoking /\ ResetRevokesPrior)
<1>1. Init => Revoking /\ ResetRevokesPrior
  BY DEF Init, Revoking, ResetRevokesPrior, NoArgs
<1>2. ASSUME TypeOK, Progress, TokenInv, Revoking, ResetRevokesPrior, [Next]_vars
      PROVE  ResetRevokesPrior'
  <2>1. ASSUME NEW r \in Requests, args'[r].op = "reset", usedBy'[args'[r].cred] = r,
               NEW s \in sessions', s \in prior'[r]
        PROVE  subject'[s] # subject'[r]
    <3>1. CASE Commit(r)
      <4>1. /\ pc[r] = "commit" /\ args' = args /\ subject' = subject /\ prior' = prior
            /\ sessions' = sessions \ revoked[r]
        BY <3>1 DEF Commit, InTx
      <4>2. QED BY <1>2, <2>1, <4>1 DEF Revoking, TypeOK
    <3>2. CASE ~Commit(r)
      <4>1. args[r] = args'[r] /\ usedBy[args[r].cred] = r /\ pc[r] = "done"
        BY <1>2, <2>1, <3>2, CommitlessUse
      <4>2. subject'[r] = subject[r] /\ prior'[r] = prior[r]
        BY <1>2, <4>1, DoneIsFixed
      <4>3. s \in Requests /\ pc[s] = "done"
        BY <1>2, <2>1, <4>2 DEF Progress, TypeOK
      <4>4. s \in sessions /\ subject'[s] = subject[s]
        BY <1>2, <2>1, <4>2, <4>3, SessionsGrow, InsertIsNew, DoneIsFixed
      <4>5. QED BY <1>2, <2>1, <4>1, <4>2, <4>4 DEF ResetRevokesPrior
    <3>3. QED BY <3>1, <3>2
  <2>2. QED BY <2>1 DEF ResetRevokesPrior
<1>3. TypeOK /\ Progress /\ Revoking /\ [Next]_vars => Revoking'
  BY NextRevoking
<1>4. QED
  BY <1>1, <1>2, <1>3, TypeCorrect, ProgressHolds, TokenInvHolds, PTL DEF Spec

\* Once a reset has spent its token, no session of its account that existed
\* when it arrived is left (the DELETE of reset.go, committed with the rest).
THEOREM ResetRevokesPriorHolds == Spec => []ResetRevokesPrior
BY RevokingHolds, PTL

\* The inductive invariant: how far each handler has come says what its transaction
\* has written, and the keys, tokens and sessions it has locked are its own.
THEOREM AccountsInvHolds == Spec => []AccountsInv
BY ProgressHolds, KeysHold, TokenInvHolds, RevokingHolds, PTL DEF AccountsInv, TokenInv

\* What a request was admitted with: cookies come from logins, and whoever
\* spends a token began before it expired.
Presented == \A r \in Requests :
  /\ r \in inTime \cup dead => pc[r] # "idle"
  /\ args[r].op = "whoami" => LET s == args[r].cred IN
       s \in Requests /\ args[s].op = "login" /\ reply[s] = "ok"
  /\ "consume" \in pend[r] => r \in inTime

\* A void credential stays void.
StaysVoid == \A r \in dead :
  /\ args[r].op \in {"verify", "reset", "whoami"}
  /\ args[r].op \in {"verify", "reset"} => r \notin inTime \/ usedBy[args[r].cred] # None
  /\ args[r].op = "whoami" => ~SessionValid(args[r].cred)

RevokedInv == LoginKnown /\ Presented /\ StaysVoid /\ DeadCredentialRefused

\* Users and deletions are for ever.
LEMMA UsersGrow ==
  ASSUME TypeOK, Progress, [Next]_vars
  PROVE  users \subseteq users' /\ deleted \subseteq deleted' /\ expired \subseteq expired'
<1> USE DEF userVars, credVars, mailVars, reqVars, NoDbChange
<1>1. users \subseteq users'
  BY OnlyCommitPublishes, CommitPublishes
<1>2. ASSUME NEW r \in Requests, Start(r) \/ Fail(r) \/ Statement(r)
      PROVE  deleted' = deleted /\ expired' = expired
  BY <1>2 DEF Start, Register, VerifyEmail, Login, Logout, Forgot, ResetPassword, Whoami, Arrive,
              Fail, Statement, InsertUser, EmailKey, UsernameKey, CreateDefaultProfile,
              InsertToken, InsertJob,
              LookupEmail, ConsumeToken, SetVerified, SetPassword, RevokeSessions, LookupLogin,
              InsertSession, DeleteSession, Authenticate, Commit
<1>3. CASE World \/ UNCHANGED vars
  BY <1>3 DEF World, SendMail, EndJob, Expire, SoftDelete, vars
<1>4. QED BY <1>1, <1>2, <1>3 DEF Next, Finished

\* A request that has begun keeps its arguments and its standing.
LEMMA BegunIsFixed ==
  ASSUME TypeOK, Progress, [Next]_vars, NEW q \in Requests, pc[q] # "idle"
  PROVE  /\ pc'[q] # "idle" /\ args'[q] = args[q]
         /\ q \in dead' <=> q \in dead
         /\ q \in inTime' <=> q \in inTime
<1>1. ASSUME NEW r \in Requests, Start(r) PROVE r # q
  BY <1>1, StartFrame
<1>2. QED
  BY <1>1, StartFrame, StatementFrame, OtherFrame DEF Next, Finished

\* How an idle request begins, if it does.
LEMMA IdleBegins ==
  ASSUME TypeOK, Progress, [Next]_vars, NEW q \in Requests, pc[q] = "idle"
  PROVE  \/ \E a, next : Arrive(q, a, next) /\ Admitted(a, next)
         \/ /\ pc'[q] = "idle" /\ args'[q] = args[q] /\ pend'[q] = pend[q]
            /\ q \in dead' <=> q \in dead
            /\ q \in inTime' <=> q \in inTime
<1>1. ASSUME NEW r \in Requests, Statement(r) \/ Fail(r) PROVE r # q
  BY <1>1, StatementFrame
<1>2. CASE Start(q)
  BY <1>2, StartIsArrive
<1>3. CASE ~Start(q)
  BY <1>1, <1>3, StartFrame, StatementFrame, OtherFrame DEF Next, Finished
<1>4. QED BY <1>2, <1>3

\* Only its own UPDATE makes a request a token's spender, and it began in time.
LEMMA SpenderInTime ==
  ASSUME TypeOK, Progress, [Next]_vars, NEW q \in Requests, pc[q] # "idle",
         "consume" \in pend'[q]
  PROVE  "consume" \in pend[q] \/ (ConsumeToken(q) /\ Consumable(q))
<1> USE DEF InTx, TypeOK
<1>1. ASSUME NEW r \in Requests, r # q, Statement(r) \/ Fail(r) PROVE pend'[q] = pend[q]
  BY <1>1, StatementFrame
<1>2. CASE Statement(q) \/ Fail(q)
  <2>1. CASE ConsumeToken(q)
    BY <1>2, <2>1 DEF ConsumeToken, Answer
  <2>2. CASE InsertUser(q) \/ CreateDefaultProfile(q) \/ InsertToken(q) \/ InsertJob(q)
             \/ LookupEmail(q) \/ SetVerified(q) \/ SetPassword(q) \/ RevokeSessions(q)
             \/ LookupLogin(q)
    BY <2>2 DEF InsertUser, EmailKey, UsernameKey, CreateDefaultProfile, InsertToken, InsertJob,
                LookupEmail,
             SetVerified, SetPassword, RevokeSessions, LookupLogin, Answer, Write
  <2>3. CASE InsertSession(q) \/ DeleteSession(q) \/ Authenticate(q) \/ Commit(q) \/ Fail(q)
    BY <2>3 DEF InsertSession, DeleteSession, Authenticate, Commit, Fail, Answer
  <2>4. QED BY <1>2, <2>1, <2>2, <2>3 DEF Statement
<1>3. QED
  BY <1>1, <1>2, StartFrame, OtherFrame DEF Next, Finished

\* A login reaches its INSERT by way of the SELECT that found a live account.
LEMMA LoginEnters ==
  ASSUME TypeOK, Progress, [Next]_vars, NEW q \in Requests, pc'[q] = "insertSession"
  PROVE  \/ LookupLogin(q)
         \/ pc[q] = "insertSession" /\ args'[q] = args[q] /\ subject'[q] = subject[q]
<1> USE DEF InTx, TypeOK
<1>1. ASSUME Start(q) PROVE FALSE
  <2>1. PICK a, next : Arrive(q, a, next) /\ Admitted(a, next)
    BY <1>1, StartIsArrive
  <2>2. QED BY <2>1 DEF Arrive, Admitted
<1>2. ASSUME Statement(q) \/ Fail(q), ~LookupLogin(q) PROVE FALSE
  <2>1. CASE InsertUser(q) \/ CreateDefaultProfile(q) \/ InsertToken(q) \/ InsertJob(q)
             \/ LookupEmail(q) \/ ConsumeToken(q) \/ SetVerified(q) \/ SetPassword(q)
             \/ RevokeSessions(q)
    BY <2>1 DEF InsertUser, EmailKey, UsernameKey, CreateDefaultProfile, InsertToken, InsertJob,
                LookupEmail, ConsumeToken,
             SetVerified, SetPassword, RevokeSessions, Answer, Write
  <2>2. CASE InsertSession(q) \/ DeleteSession(q) \/ Authenticate(q) \/ Commit(q) \/ Fail(q)
    BY <2>2 DEF InsertSession, DeleteSession, Authenticate, Commit, Fail, Answer
  <2>3. QED BY <1>2, <2>1, <2>2 DEF Statement
<1>3. QED
  BY <1>1, <1>2, StartFrame, StatementFrame, OtherFrame DEF Next, Finished

\* Every step keeps what is known of the accounts of logins.
LEMMA NextLoginKnown ==
  ASSUME TypeOK, Progress, LoginKnown, [Next]_vars
  PROVE  LoginKnown'
<1>1. ASSUME NEW s \in Requests, args'[s].op = "login", reply'[s] = "ok"
      PROVE  subject'[s] \in users'
  <2>1. \/ reply[s] = "ok" /\ pc[s] = "done"
        \/ InsertSession(s)
    BY <1>1, ToldOk, CommitPublishes
  <2>2. args'[s] = args[s]
    BY <1>1, ToldOk
  <2>3. subject'[s] = subject[s]
    BY <2>1, DoneIsFixed DEF InsertSession
  <2>4. pc[s] = "insertSession" \/ reply[s] = "ok"
    BY <2>1 DEF InsertSession, InTx
  <2>5. QED BY <1>1, <2>2, <2>3, <2>4, UsersGrow DEF LoginKnown
<1>2. ASSUME NEW s \in Requests, args'[s].op = "login", pc'[s] = "insertSession"
      PROVE  subject'[s] \in users'
  <2>1. CASE LookupLogin(s)
    <3>1. \E u \in Lookup(args[s].email) : subject'[s] = u
      BY <1>2, <2>1 DEF LookupLogin, Answer, TypeOK
    <3>2. QED BY <3>1, UsersGrow DEF Lookup, Live
  <2>2. CASE ~LookupLogin(s)
    BY <1>2, <2>2, LoginEnters, UsersGrow DEF LoginKnown
  <2>3. QED BY <2>1, <2>2
<1>3. QED BY <1>1, <1>2 DEF LoginKnown

\* Every step keeps what requests were admitted with.
LEMMA NextPresented ==
  ASSUME TypeOK, Progress, Presented, [Next]_vars
  PROVE  Presented'
<1>1. ASSUME NEW r \in Requests, pc[r] # "idle"
      PROVE  /\ pc'[r] # "idle"
             /\ args'[r].op = "whoami" => /\ args'[r].cred \in Requests
                                          /\ args'[args'[r].cred].op = "login"
                                          /\ reply'[args'[r].cred] = "ok"
             /\ "consume" \in pend'[r] => r \in inTime'
  <2>1. args'[r] = args[r] /\ pc'[r] # "idle" /\ (r \in inTime' <=> r \in inTime)
    BY <1>1, BegunIsFixed
  <2>2. ASSUME args[r].op = "whoami"
        PROVE  /\ args[r].cred \in Requests /\ args'[args[r].cred].op = "login"
               /\ reply'[args[r].cred] = "ok"
    <3>1. args[r].cred \in Requests /\ args[args[r].cred].op = "login" /\ reply[args[r].cred] = "ok"
      BY <2>2 DEF Presented
    <3>2. pc[args[r].cred] = "done"
      BY <3>1 DEF Progress
    <3>3. QED BY <3>1, <3>2, DoneIsFixed
  <2>3. "consume" \in pend'[r] => r \in inTime
    BY <1>1, SpenderInTime DEF Presented, Consumable
  <2>4. QED BY <2>1, <2>2, <2>3
<1>2. ASSUME NEW r \in Requests, pc[r] = "idle"
      PROVE  /\ r \in inTime' \cup dead' => pc'[r] # "idle"
             /\ args'[r].op = "whoami" => /\ args'[r].cred \in Requests
                                          /\ args'[args'[r].cred].op = "login"
                                          /\ reply'[args'[r].cred] = "ok"
             /\ "consume" \notin pend'[r]
  <2>1. args[r].op = None /\ "consume" \notin pend[r] /\ r \notin inTime \cup dead
    BY <1>2, NoneIsNew DEF Progress, Stage, Wrote, Rows, Presented
  <2>2. ASSUME NEW a, NEW next, Arrive(r, a, next), Admitted(a, next)
        PROVE  /\ pc'[r] # "idle" /\ args'[r] = a /\ pend'[r] = pend[r]
               /\ a.op = "whoami" => /\ a.cred \in Requests /\ args'[a.cred].op = "login"
                                     /\ reply'[a.cred] = "ok"
    <3>1. pc'[r] = next /\ args'[r] = a /\ pend' = pend /\ next # "idle"
      BY <2>2 DEF Arrive, Admitted, TypeOK
    <3>2. ASSUME a.op = "whoami"
          PROVE  a.cred \in Requests /\ args'[a.cred].op = "login" /\ reply'[a.cred] = "ok"
      <4>1. a.cred \in Requests /\ args[a.cred].op = "login" /\ reply[a.cred] = "ok"
        BY <2>2, <3>2 DEF Admitted, Cookies
      <4>2. pc[a.cred] = "done"
        BY <4>1 DEF Progress
      <4>3. QED BY <4>1, <4>2, DoneIsFixed
    <3>3. QED BY <3>1, <3>2
  <2>3. CASE \E a, next : Arrive(r, a, next) /\ Admitted(a, next)
    <3>1. PICK a, next : Arrive(r, a, next) /\ Admitted(a, next)
      BY <2>3
    <3>2. QED BY <2>1, <2>2, <3>1
  <2>4. CASE /\ pc'[r] = "idle" /\ args'[r] = args[r] /\ pend'[r] = pend[r]
             /\ r \in dead' <=> r \in dead
             /\ r \in inTime' <=> r \in inTime
    BY <2>1, <2>4, NoneIsNew DEF Ops
  <2>5. QED BY <1>2, <2>3, <2>4, IdleBegins
<1>3. QED BY <1>1, <1>2 DEF Presented

\* A session that a request may present and that is void stays void.
LEMMA VoidSession ==
  ASSUME TypeOK, Progress, LoginKnown, [Next]_vars,
         NEW s \in Requests, args[s].op = "login", reply[s] = "ok", ~SessionValid(s)
  PROVE  ~SessionValid(s)'
<1>1. pc[s] = "done" /\ subject[s] \in users
  BY DEF Progress, LoginKnown
<1>2. subject'[s] = subject[s] /\ (s \in sessions' => s \in sessions)
  BY <1>1, DoneIsFixed, SessionsGrow, InsertIsNew
<1>3. QED
  BY <1>1, <1>2, UsersGrow DEF SessionValid, Live

\* Every step keeps void credentials void.
LEMMA NextStaysVoid ==
  ASSUME TypeOK, Progress, TokenInv, LoginKnown, Presented, StaysVoid, [Next]_vars
  PROVE  StaysVoid'
<1>1. \A t \in Requests : usedBy[t] # None => usedBy'[t] # None
  BY NoneIsNew, OnlyCommitPublishes, CommitPublishes DEF TypeOK
<1>2. ASSUME NEW r \in dead', pc[r] # "idle"
      PROVE  /\ args'[r].op \in {"verify", "reset", "whoami"}
             /\ args'[r].op \in {"verify", "reset"} => r \notin inTime' \/ usedBy'[args'[r].cred] # None
             /\ args'[r].op = "whoami" => ~SessionValid(args[r].cred)'
  <2>0. r \in Requests
    BY NextTypeOK DEF TypeOK
  <2>1. r \in dead /\ args'[r] = args[r] /\ (r \in inTime' <=> r \in inTime)
    BY <1>2, <2>0, BegunIsFixed
  <2>2. args[r].op \in {"verify", "reset"} /\ usedBy[args[r].cred] # None => usedBy'[args[r].cred] # None
    BY <1>1, <2>0 DEF TokenInv, Spending
  <2>3. ASSUME args[r].op = "whoami" PROVE ~SessionValid(args[r].cred)'
    <3>1. /\ args[r].cred \in Requests /\ args[args[r].cred].op = "login"
          /\ reply[args[r].cred] = "ok" /\ ~SessionValid(args[r].cred)
      BY <2>0, <2>1, <2>3 DEF Presented, StaysVoid
    <3>2. PICK s \in Requests : s = args[r].cred
      BY <3>1
    <3>3. ~SessionValid(s)'
      BY <3>1, <3>2, VoidSession
    <3>4. args'[r].cred = s
      BY <2>1, <3>2
    <3>5. QED BY <2>1, <3>2, <3>3, <3>4 DEF SessionValid, Live
  <2>4. QED BY <2>1, <2>2, <2>3 DEF StaysVoid
<1>3. ASSUME NEW r \in dead', pc[r] = "idle"
      PROVE  /\ args'[r].op \in {"verify", "reset", "whoami"}
             /\ args'[r].op \in {"verify", "reset"} => r \notin inTime' \/ usedBy'[args'[r].cred] # None
             /\ args'[r].op = "whoami" => ~SessionValid(args[r].cred)'
  <2>1. r \in Requests
    BY NextTypeOK DEF TypeOK
  <2>2. r \notin dead /\ r \notin inTime
    BY <1>3, <2>1 DEF Presented
  <2>3. PICK a, next : Arrive(r, a, next)
    BY <1>3, <2>1, <2>2, IdleBegins
  <2>4. /\ args'[r] = a /\ Void(a)
        /\ a.cred \in expired => r \notin inTime'
        /\ UNCHANGED <<usedBy, sessions, expired, subject, users, deleted>>
    BY <1>3, <2>1, <2>2, <2>3 DEF Arrive, TypeOK, userVars, credVars
  <2>5. QED BY <2>4 DEF Void, SessionValid, Live
<1>4. QED
  BY <1>2, <1>3 DEF StaysVoid

\* Every step keeps void credentials unserved.
LEMMA NextRefused ==
  ASSUME TypeOK, Progress, TokenInv, RevokedInv, [Next]_vars
  PROVE  DeadCredentialRefused'
<1> SUFFICES ASSUME NEW r \in dead', reply'[r] = "ok" PROVE FALSE
  BY DEF DeadCredentialRefused
<1>1. r \in Requests
  BY NextTypeOK DEF TypeOK
<1>2. args'[r] = args[r]
  BY <1>1, ToldOk
<1>3. pc[r] # "idle"
  <2>1. /\ \/ reply[r] = "ok" /\ pc[r] = "done"
           \/ Commit(r) \/ InsertSession(r) \/ Authenticate(r)
           \/ args[r].op \in {"forgot", "logout"}
    BY <1>1, ToldOk
  <2>2. pc[r] = "idle" => args[r].op = None
    BY <1>1, NoneIsNew DEF Progress, Stage
  <2>3. QED
    BY <2>1, <2>2, NoneIsNew DEF Commit, InsertSession, Authenticate, InTx, Ops
<1>4. r \in dead
  BY <1>1, <1>3, BegunIsFixed
<1>5. args[r].op \in {"verify", "reset", "whoami"} /\ reply[r] # "ok"
  BY <1>4 DEF RevokedInv, StaysVoid, DeadCredentialRefused
<1>6. CASE Commit(r)
  <2>1. args[r].op \in {"verify", "reset"}
    BY <1>1, <1>5, <1>6, CommitPublishes
  <2>2. "consume" \in pend[r]
    BY <1>1, <1>6, <2>1 DEF Commit, InTx, Progress, Wrote, Rows
  <2>3. r \in inTime /\ usedBy[args[r].cred] = None
    BY <1>1, <1>6, <2>1, <2>2, CommitSpends DEF RevokedInv, Presented
  <2>4. QED BY <1>4, <2>1, <2>3 DEF RevokedInv, StaysVoid
<1>7. CASE SessionValid(args[r].cred) /\ args[r].op = "whoami"
  BY <1>4, <1>7 DEF RevokedInv, StaysVoid
<1>8. QED BY <1>1, <1>5, <1>6, <1>7, ToldOk

\* A link or a session that was void when the request arrived is never served:
\* used or expired links, sessions logged out, revoked, expired or whose
\* account was deleted (consumeVerificationToken, SessionMiddleware).
THEOREM DeadCredentialRefusedHolds == Spec => []DeadCredentialRefused
<1>1. Init => RevokedInv
  BY NoneIsNew DEF Init, RevokedInv, LoginKnown, Presented, StaysVoid, DeadCredentialRefused,
                   NoArgs, Ops
<1>2. TypeOK /\ Progress /\ TokenInv /\ RevokedInv /\ [Next]_vars => RevokedInv'
  BY NextLoginKnown, NextPresented, NextStaysVoid, NextRefused DEF RevokedInv
<1>3. RevokedInv => DeadCredentialRefused
  BY DEF RevokedInv
<1>4. QED
  BY <1>1, <1>2, <1>3, TypeCorrect, ProgressHolds, TokenInvHolds, PTL DEF Spec

-----------------------------------------------------------------------------
(* What the ledger needs to know of requests under way.                    *)

\* A mail that has been accepted cannot be taken back.
LEMMA MailFrame ==
  ASSUME [Next]_vars
  PROVE  inbox \subseteq inbox'
<1> USE DEF userVars, credVars, mailVars, reqVars, NoDbChange
<1>1. ASSUME NEW r \in Requests, Start(r) \/ Fail(r) \/ Statement(r)
      PROVE  inbox' = inbox
  BY <1>1 DEF Start, Register, VerifyEmail, Login, Logout, Forgot, ResetPassword, Whoami, Arrive,
              Fail, Statement, InsertUser, EmailKey, UsernameKey, CreateDefaultProfile,
              InsertToken, InsertJob,
              LookupEmail, ConsumeToken, SetVerified, SetPassword, RevokeSessions, LookupLogin,
              InsertSession, DeleteSession, Authenticate, Commit
<1>2. CASE World \/ UNCHANGED vars
  BY <1>2 DEF World, SendMail, EndJob, Expire, SoftDelete, vars
<1>3. QED BY <1>1, <1>2 DEF Next, Finished

\* Every step keeps links in the mail.
LEMMA NextMailed ==
  ASSUME TypeOK, Progress, Mailed, [Next]_vars
  PROVE  Mailed'
<1> SUFFICES ASSUME NEW r \in Requests, args'[r].op \in {"verify", "reset"}
             PROVE  args'[r].cred \in inbox'
  BY DEF Mailed
<1>1. CASE args'[r] = args[r]
  BY <1>1, MailFrame DEF Mailed
<1>2. CASE args'[r] # args[r]
  <2>1. PICK a, next : Arrive(r, a, next) /\ Admitted(a, next)
    BY <1>2, BegunIsFixed, IdleBegins
  <2>2. args'[r] = a
    BY <2>1 DEF Arrive, TypeOK
  <2>3. QED BY <2>1, <2>2, MailFrame DEF Admitted
<1>3. QED BY <1>1, <1>2

\* A forgot request goes on from the SELECT that found a live account.
LEMMA ForgotEnters ==
  ASSUME TypeOK, Progress, [Next]_vars, NEW q \in Requests,
         args'[q].op = "forgot", pc'[q] \in {"insertToken", "insertJob", "commit"}
  PROVE  \/ LookupEmail(q)
         \/ /\ pc[q] \in {"insertToken", "insertJob", "commit"}
            /\ args'[q] = args[q] /\ subject'[q] = subject[q]
<1> USE DEF InTx, TypeOK
<1>1. ASSUME Start(q) PROVE FALSE
  <2>1. PICK a, next : Arrive(q, a, next) /\ Admitted(a, next)
    BY <1>1, StartIsArrive
  <2>2. QED BY <2>1 DEF Arrive, Admitted
<1>2. ASSUME Statement(q) \/ Fail(q), ~LookupEmail(q)
      PROVE  /\ pc[q] \in {"insertToken", "insertJob", "commit"}
             /\ args'[q] = args[q] /\ subject'[q] = subject[q]
  <2>1. args'[q] = args[q]
    BY <1>2, StatementFrame
  <2>2. pc[q] \in {"insertToken", "insertJob", "commit", "lookupEmail"}
    BY <1>2, <2>1, StatementFrame DEF Progress, Stage
  <2>3. CASE InsertUser(q) \/ CreateDefaultProfile(q) \/ ConsumeToken(q) \/ SetVerified(q)
             \/ SetPassword(q) \/ RevokeSessions(q) \/ LookupLogin(q) \/ InsertSession(q)
             \/ DeleteSession(q) \/ Authenticate(q)
    BY <2>2, <2>3 DEF InsertUser, EmailKey, UsernameKey, CreateDefaultProfile, ConsumeToken,
                      SetVerified, SetPassword,
             RevokeSessions, LookupLogin, InsertSession, DeleteSession, Authenticate
  <2>4. CASE InsertToken(q) \/ InsertJob(q)
    BY <2>1, <2>4 DEF InsertToken, InsertJob
  <2>5. CASE Commit(q) \/ Fail(q)
    BY <2>5 DEF Commit, Fail, Answer
  <2>6. QED BY <1>2, <2>3, <2>4, <2>5 DEF Statement
<1>3. QED
  BY <1>1, <1>2, StartFrame, StatementFrame, OtherFrame DEF Next, Finished

\* Every step keeps the accounts of reset links known.
LEMMA NextForgotKnown ==
  ASSUME TypeOK, Progress, ForgotKnown, [Next]_vars
  PROVE  ForgotKnown'
<1> SUFFICES ASSUME NEW r \in Requests, args'[r].op = "forgot",
                    pc'[r] \in {"insertToken", "insertJob", "commit"}
             PROVE  subject'[r] \in users'
  BY DEF ForgotKnown
<1>1. CASE LookupEmail(r)
  <2>1. \E u \in Lookup(args[r].email) : subject'[r] = u
    BY <1>1 DEF LookupEmail, Answer, TypeOK
  <2>2. QED BY <2>1, UsersGrow DEF Lookup, Live
<1>2. CASE ~LookupEmail(r)
  BY <1>2, ForgotEnters, UsersGrow DEF ForgotKnown
<1>3. QED BY <1>1, <1>2

\* Every step keeps the deletions of resets to their own account.
LEMMA NextRevokesOwn ==
  ASSUME TypeOK, Progress, RevokesOwn, [Next]_vars
  PROVE  RevokesOwn'
<1> USE DEF InTx, TypeOK
<1> SUFFICES ASSUME NEW r \in Requests, NEW s \in revoked'[r]
             PROVE  pc'[r] = "commit" /\ args'[r].op = "reset" /\ pc'[s] = "done" /\ subject'[s] = subject'[r]
  BY DEF RevokesOwn
<1> DEFINE Same == /\ revoked'[r] = revoked[r] /\ pc'[r] = pc[r] /\ subject'[r] = subject[r]
<1>1. Same \/ RevokeSessions(r)
  <2>1. ASSUME NEW q \in Requests, Start(q)
        PROVE  Same
    <3>1. pc[q] = "idle" /\ UNCHANGED <<subject, revoked>>
      BY <2>1, StartFrame
    <3>2. pc[r] = "commit"
      BY <3>1 DEF RevokesOwn
    <3>3. QED BY <2>1, <3>1, <3>2, StartFrame
  <2>2. ASSUME NEW q \in Requests, q # r, Statement(q) \/ Fail(q)
        PROVE  Same
    BY <2>2, StatementFrame
  <2>3. CASE Fail(r) \/ Commit(r) \/ InsertSession(r) \/ DeleteSession(r) \/ Authenticate(r)
    <3>1. revoked'[r] = {}
      BY <2>3 DEF Fail, Commit, InsertSession, DeleteSession, Authenticate, Answer
    <3>2. QED BY <3>1
  <2>4. CASE InsertUser(r) \/ CreateDefaultProfile(r) \/ InsertToken(r) \/ InsertJob(r)
             \/ LookupEmail(r) \/ ConsumeToken(r) \/ SetVerified(r) \/ SetPassword(r) \/ LookupLogin(r)
    <3>1. revoked'[r] = {} \/ revoked'[r] = revoked[r]
      BY <2>4 DEF InsertUser, EmailKey, UsernameKey, CreateDefaultProfile, InsertToken,
                  InsertJob, LookupEmail,
                  ConsumeToken, SetVerified, SetPassword, LookupLogin, Answer
    <3>2. pc[r] # "commit"
      BY <2>4 DEF InsertUser, EmailKey, UsernameKey, CreateDefaultProfile, InsertToken,
                  InsertJob, LookupEmail,
                  ConsumeToken, SetVerified, SetPassword, LookupLogin
    <3>3. QED BY <3>1, <3>2 DEF RevokesOwn
  <2>5. CASE World \/ UNCHANGED vars
    BY <2>5, OtherFrame
  <2>6. QED BY <2>1, <2>2, <2>3, <2>4, <2>5 DEF Next, Finished, Statement
<1>2. CASE Same
  <2>1. pc[r] = "commit" /\ args[r].op = "reset" /\ pc[s] = "done" /\ subject[s] = subject[r] /\ s \in Requests
    BY <1>2 DEF RevokesOwn
  <2>2. args'[r] = args[r]
    BY <2>1, BegunIsFixed
  <2>3. pc'[s] = "done" /\ subject'[s] = subject[s]
    BY <2>1, DoneIsFixed
  <2>4. QED BY <1>2, <2>1, <2>2, <2>3
<1>3. CASE RevokeSessions(r)
  <2>1. /\ s \in sessions /\ subject[s] = subject[r] /\ subject' = subject
        /\ pc'[r] = "commit" /\ args' = args /\ pc[r] = "revokeSessions"
    BY <1>3 DEF RevokeSessions, Write
  <2>2. args[r].op = "reset"
    BY <2>1 DEF Progress, Stage
  <2>3. s \in Requests /\ pc[s] = "done"
    BY <2>1 DEF Progress
  <2>4. QED BY <2>1, <2>2, <2>3, DoneIsFixed
<1>4. QED BY <1>1, <1>2, <1>3

\* What is known of requests under way holds in every reachable state.
LEMMA LedgerInvHolds == Spec => []LedgerInv
<1>1. Init => LedgerInv
  BY NoneIsNew DEF Init, LedgerInv, Mailed, ForgotKnown, LoginKnown, RevokesOwn, NoArgs, Ops
<1>2. TypeOK /\ Progress /\ LedgerInv /\ [Next]_vars => LedgerInv'
  BY NextMailed, NextForgotKnown, NextLoginKnown, NextRevokesOwn DEF LedgerInv
<1>3. QED
  BY <1>1, <1>2, TypeCorrect, ProgressHolds, PTL DEF Spec

-----------------------------------------------------------------------------
(* Nobody waits in a circle.                                               *)

\* Who is waited for has written the row waited for, and is that far on.
LEMMA WaitsForward ==
  ASSUME Progress, RevokesOwn, NEW r \in Requests, NEW q \in Requests, Waits(r, q)
  PROVE  /\ pc[r] \in {"emailKey", "usernameKey", "consume", "setVerified", "setPassword",
                       "deleteSession", "authenticate"}
         /\ pc[q] \notin {"emailKey", "consume", "deleteSession", "authenticate", "done"}
         /\ pc[r] # "emailKey" => pc[q] # "usernameKey"
         /\ pc[r] # "consume" => pc[q] \notin {"setVerified", "setPassword"}
<1>1. ASSUME NEW u, HoldsUser(q, u) PROVE pc[q] \in {"revokeSessions", "commit"}
  <2>1. Wrote(args[q].op, pc[q], "verify") \/ Wrote(args[q].op, pc[q], "password")
    BY <1>1 DEF HoldsUser, Progress, Rows
  <2>2. QED BY <2>1 DEF Wrote
<1>2. CASE pc[r] = "emailKey" /\ HoldsEmail(q, r)
  <2>1. CASE "email" \in pend[q]
    <3>1. Wrote(args[q].op, pc[q], "email")
      BY <2>1 DEF Progress, Rows
    <3>2. pc[q] \in {"usernameKey", "createProfile", "insertToken", "insertJob", "commit"}
      BY <3>1 DEF Wrote
    <3>3. QED BY <1>2, <3>2
  <2>2. CASE "email" \notin pend[q]
    BY <1>1, <1>2, <2>2 DEF HoldsEmail
  <2>3. QED BY <2>1, <2>2
<1>3. CASE pc[r] = "usernameKey" /\ HoldsUsername(q, r)
  <2>1. CASE "user" \in pend[q]
    <3>1. Wrote(args[q].op, pc[q], "user")
      BY <2>1 DEF Progress, Rows
    <3>2. pc[q] \in {"createProfile", "insertToken", "insertJob", "commit"}
      BY <3>1 DEF Wrote
    <3>3. QED BY <1>3, <3>2
  <2>2. CASE "user" \notin pend[q]
    BY <1>1, <1>3, <2>2 DEF HoldsUsername
  <2>3. QED BY <2>1, <2>2
<1>4. CASE pc[r] = "consume" /\ "consume" \in pend[q]
  <2>1. Wrote(args[q].op, pc[q], "consume")
    BY <1>4 DEF Progress, Rows
  <2>2. pc[q] \in {"setVerified", "setPassword", "revokeSessions", "commit"}
    BY <2>1 DEF Wrote
  <2>3. QED BY <1>4, <2>2
<1>5. CASE pc[r] \in {"setVerified", "setPassword"} /\ HoldsUser(q, subject[r])
  BY <1>1, <1>5
<1>6. CASE pc[r] \in {"deleteSession", "authenticate"} /\ args[r].cred \in revoked[q]
  BY <1>6 DEF RevokesOwn
<1>7. QED BY <1>2, <1>3, <1>4, <1>5, <1>6 DEF Waits

\* Any number of requests, whatever they lock, never wait for each other in a
\* circle nor for one that has been answered (register, verify_email, reset,
\* logout, session): who waits while it holds a key or a row waits for one that is
\* further on, and the deferred rollback has freed what an answered one held.
THEOREM NoCircularWaitHolds == Spec => []NoCircularWait
<1>1. Progress /\ RevokesOwn => NoCircularWait
  <2> SUFFICES ASSUME Progress, RevokesOwn, NEW r \in Requests, NEW q \in Requests, Waits(r, q)
               PROVE  /\ pc[q] # "done"
                      /\ \A p \in Requests : Waits(q, p) =>
                           pc[p] # "done" /\ \A o \in Requests : ~Waits(p, o)
    BY DEF NoCircularWait
  <2>1. pc[q] \notin {"emailKey", "consume", "deleteSession", "authenticate", "done"}
    BY WaitsForward
  <2>2. ASSUME NEW p \in Requests, Waits(q, p)
        PROVE  pc[p] # "done" /\ \A o \in Requests : ~Waits(p, o)
    <3>1. pc[p] \notin {"emailKey", "usernameKey", "consume", "deleteSession", "authenticate",
                        "done", "setVerified", "setPassword"}
      BY <2>1, <2>2, WaitsForward
    <3>2. ASSUME NEW o \in Requests, Waits(p, o) PROVE FALSE
      BY <3>1, <3>2, WaitsForward
    <3>3. QED BY <3>1, <3>2
  <2>3. QED BY <2>1, <2>2
<1>2. LedgerInv => RevokesOwn
  BY DEF LedgerInv
<1>3. QED BY <1>1, <1>2, ProgressHolds, LedgerInvHolds, PTL

-----------------------------------------------------------------------------
(* The account service implements the ledger.                              *)

\* A commit queues the mail of the token it publishes, and ends the sessions
\* that its own reset has deleted.
LEMMA CommitMails ==
  ASSUME TypeOK, Progress, RevokesOwn, NEW r \in Requests, Commit(r)
  PROVE  /\ jobs' = jobs \cup (IF args[r].op \in {"register", "forgot"} THEN {r} ELSE {})
         /\ sessions' = sessions \ revoked[r] /\ inbox' = inbox
         /\ args[r].op # "reset" => revoked[r] = {}
         /\ revoked[r] \subseteq Requests
<1>1. "job" \in pend[r] <=> args[r].op \in {"register", "forgot"}
  BY DEF Commit, InTx, Progress, Wrote, Rows
<1>2. args[r].op # "reset" => revoked[r] = {}
  BY DEF RevokesOwn
<1>3. QED BY <1>1, <1>2 DEF Commit, TypeOK

\* A row that is in the database shows the same in every later state.
LEMMA RowsFixed ==
  ASSUME TypeOK, Progress, [Next]_vars
  PROVE  /\ \A u \in users : Account(u)' = Account(u)
         /\ \A t \in tokens : Link(t)' = Link(t)
         /\ \A s \in sessions : Session(s)' = Session(s)
<1>1. \A x \in users \cup tokens \cup sessions :
        args'[x] = args[x] /\ subject'[x] = subject[x]
  BY DoneIsFixed DEF Progress, TypeOK
<1>2. QED BY <1>1 DEF Account, Link, Session, Purpose

\* So a table that keeps its rows, gains one or loses some shows just that.
LEMMA TablesFollow ==
  ASSUME TypeOK, Progress, [Next]_vars
  PROVE  /\ users' = users => AccountRows' = AccountRows
         /\ tokens' = tokens => LinkRows' = LinkRows
         /\ \A r : users' = users \cup {r} => AccountRows' = AccountRows \cup {Account(r)'}
         /\ \A r : tokens' = tokens \cup {r} => LinkRows' = LinkRows \cup {Link(r)'}
         /\ \A r : sessions' = sessions \cup {r} => SessionRows' = SessionRows \cup {Session(r)'}
         /\ \A gone : sessions' = sessions \ gone =>
              SessionRows' = SessionRows \ {Session(s) : s \in gone}
<1>1. /\ AccountRows' = {Account(u)' : u \in users'}
      /\ LinkRows' = {Link(t)' : t \in tokens'}
      /\ SessionRows' = {Session(s)' : s \in sessions'}
  BY DEF AccountRows, LinkRows, SessionRows
<1>2. \A x, y : Session(x) = Session(y) => x = y
  BY DEF Session
<1>3. /\ users' = users => AccountRows' = AccountRows
      /\ \A r : users' = users \cup {r} => AccountRows' = AccountRows \cup {Account(r)'}
  BY <1>1, RowsFixed DEF AccountRows
<1>4. /\ tokens' = tokens => LinkRows' = LinkRows
      /\ \A r : tokens' = tokens \cup {r} => LinkRows' = LinkRows \cup {Link(r)'}
  BY <1>1, RowsFixed DEF LinkRows
<1>5. \A r : sessions' = sessions \cup {r} => SessionRows' = SessionRows \cup {Session(r)'}
  BY <1>1, RowsFixed DEF SessionRows
<1>6. ASSUME NEW gone, sessions' = sessions \ gone
      PROVE  SessionRows' = SessionRows \ {Session(s) : s \in gone}
  BY <1>1, <1>2, <1>6, RowsFixed DEF SessionRows
<1>7. QED BY <1>3, <1>4, <1>5, <1>6

\* A step that leaves the database, the queue and the mail alone, and is no
\* reset's arrival, is none of the ledger's.
LEMMA LedgerStutters ==
  ASSUME TypeOK, Progress, [Next]_vars,
         UNCHANGED <<users, deleted, profiles, wishlists, hash, verifiedBy, tokens, usedBy,
                     sessions, jobs, inbox, prior>>
  PROVE  UNCHANGED Ledger!vars
<1>1. sessions' = sessions \ {}
  OBVIOUS
<1>2. AccountRows' = AccountRows /\ LinkRows' = LinkRows
  BY TablesFollow
<1>3. SessionRows' = SessionRows \ {Session(s) : s \in {}}
  BY <1>1, TablesFollow
<1>4. SessionRows' = SessionRows /\ Libraries' = Libraries
  BY <1>3 DEF Libraries
<1>5. QED
  BY <1>2, <1>4 DEF Ledger!vars, Ledger!accountVars, Ledger!linkVars, Ledger!sessionVars,
                    Ledger!mailVars

\* A request's arrival is a demand for a reset, or nothing to the ledger.
LEMMA StartAsks ==
  ASSUME TypeOK, Progress, [Next]_vars, NEW r \in Requests, Start(r)
  PROVE  Ledger!Ask(r) \/ UNCHANGED Ledger!vars
<1>1. PICK a, next : Arrive(r, a, next)
  BY StartIsArrive
<1>2. UNCHANGED <<users, deleted, profiles, wishlists, hash, verifiedBy, tokens, usedBy,
                  sessions, jobs, inbox>>
  BY <1>1 DEF Arrive, userVars, credVars, mailVars
<1>3. CASE a.op = "reset"
  <2>1. prior' = [prior EXCEPT ![r] = sessions]
    BY <1>1, <1>3 DEF Arrive
  <2>2. sessions = {s.id : s \in SessionRows}
    <3>1. \A x : Session(x).id = x
      BY DEF Session
    <3>2. QED BY <3>1 DEF SessionRows
  <2>3. sessions' = sessions \ {}
    BY <1>2
  <2>4. SessionRows' = SessionRows \ {Session(s) : s \in {}}
    BY <2>3, TablesFollow
  <2>5. AccountRows' = AccountRows /\ LinkRows' = LinkRows /\ SessionRows' = SessionRows
        /\ Libraries' = Libraries
    BY <1>2, <2>4, TablesFollow DEF Libraries
  <2>6. QED
    BY <1>2, <2>1, <2>2, <2>5 DEF Ledger!Ask, Ledger!accountVars, Ledger!linkVars, Ledger!mailVars
<1>4. CASE a.op # "reset"
  BY <1>1, <1>2, <1>4, LedgerStutters DEF Arrive
<1>5. QED BY <1>3, <1>4

\* The tables of accounts and links, unless a commit publishes.
LEMMA CommitlessTables ==
  ASSUME TypeOK, Progress, [Next]_vars, \A r \in Requests : ~Commit(r)
  PROVE  UNCHANGED <<AccountRows, Libraries, hash, verifiedBy, LinkRows, usedBy>>
BY OnlyCommitPublishes, TablesFollow DEF Libraries

\* The commit of a registration opens an account whose keys nobody holds.
LEMMA CommitRegisters ==
  ASSUME TypeOK, Progress, KeysReserved, RevokesOwn, [Next]_vars,
         NEW r \in Requests, Commit(r), args[r].op = "register"
  PROVE  Account(r) \in AccountRows' /\ Ledger!Register(Account(r))
<1>1. /\ users' = users \cup {r} /\ profiles' = profiles \cup {r}
      /\ wishlists' = wishlists \cup {r} /\ tokens' = tokens \cup {r}
      /\ subject[r] = r /\ hash' = [hash EXCEPT ![r] = r]
      /\ args' = args /\ subject' = subject
      /\ UNCHANGED <<deleted, verifiedBy, usedBy, prior>>
  BY CommitPublishes, StatementFrame DEF Statement
<1>2. jobs' = jobs \cup {r} /\ inbox' = inbox /\ sessions' = sessions \ {}
  BY CommitMails
<1>3. Account(r)' = Account(r) /\ Link(r)' = [id |-> r, account |-> r, purpose |-> "verify"]
  BY <1>1 DEF Account, Link, Purpose
<1>4. /\ AccountRows' = AccountRows \cup {Account(r)}
      /\ LinkRows' = LinkRows \cup {[id |-> r, account |-> r, purpose |-> "verify"]}
  BY <1>1, <1>3, TablesFollow
<1>5. SessionRows' = SessionRows
  <2>1. SessionRows' = SessionRows \ {Session(s) : s \in {}}
    BY <1>2, TablesFollow
  <2>2. QED BY <2>1
<1>6. Libraries' = Libraries \cup {r}
  BY <1>1 DEF Libraries
<1>7. ASSUME NEW b \in AccountRows, Ledger!Clash(Account(r), b)
      PROVE  b.id \in deleted
  <2>1. PICK u \in users : b = Account(u)
    BY <1>7 DEF AccountRows
  <2>2. SameEmail(u, r) \/ SameUsername(u, r)
    BY <1>7, <2>1 DEF Ledger!Clash, Account, SameEmail, SameUsername
  <2>3. ~EmailTaken(r) /\ ~UsernameTaken(r)
    BY DEF Commit, InTx, Progress, Wrote, Rows, KeysReserved
  <2>4. u \in deleted
    BY <2>2, <2>3 DEF EmailTaken, UsernameTaken, Live
  <2>5. QED BY <2>1, <2>4 DEF Account
<1>8. Account(r).id = r
  BY DEF Account
<1>9. QED
  BY <1>1, <1>2, <1>4, <1>5, <1>6, <1>7, <1>8
     DEF Ledger!Register, Ledger!Issue, Ledger!sessionVars

\* The commit of a forgot request issues a reset link of a known account.
LEMMA CommitForgets ==
  ASSUME TypeOK, Progress, RevokesOwn, ForgotKnown, [Next]_vars,
         NEW r \in Requests, Commit(r), args[r].op = "forgot"
  PROVE  Link(r) \in LinkRows' /\ Ledger!Forgot(Link(r))
<1>1. /\ users' = users /\ profiles' = profiles /\ wishlists' = wishlists
      /\ tokens' = tokens \cup {r} /\ args' = args /\ subject' = subject
      /\ UNCHANGED <<deleted, hash, verifiedBy, usedBy, prior>>
  BY CommitPublishes, StatementFrame DEF Statement
<1>2. jobs' = jobs \cup {r} /\ inbox' = inbox /\ sessions' = sessions \ {}
  BY CommitMails
<1>3. Link(r)' = Link(r) /\ Link(r).id = r /\ Link(r).account = subject[r] /\ Link(r).purpose = "reset"
  BY <1>1 DEF Link, Purpose
<1>4. AccountRows' = AccountRows /\ LinkRows' = LinkRows \cup {Link(r)}
  BY <1>1, <1>3, TablesFollow
<1>5. SessionRows' = SessionRows /\ Libraries' = Libraries
  <2>1. SessionRows' = SessionRows \ {Session(s) : s \in {}}
    BY <1>2, TablesFollow
  <2>2. QED BY <1>1, <2>1 DEF Libraries
<1>6. \E a \in AccountRows : a.id = subject[r]
  <2>1. subject[r] \in users
    BY DEF ForgotKnown, Commit, InTx
  <2>2. Account(subject[r]) \in AccountRows /\ Account(subject[r]).id = subject[r]
    BY <2>1 DEF AccountRows, Account
  <2>3. QED BY <2>2
<1>7. QED
  BY <1>1, <1>2, <1>3, <1>4, <1>5, <1>6
     DEF Ledger!Forgot, Ledger!Issue, Ledger!accountVars, Ledger!sessionVars

\* The commit of a verification or a reset spends one mailed link, once, and
\* does to the link's account what the link is for; a reset has revoked what it
\* found when it arrived.
LEMMA CommitRedeems ==
  ASSUME TypeOK, Progress, TokenInv, RevokesOwn, Revoking, Mailed, [Next]_vars,
         NEW r \in Requests, Commit(r), args[r].op \in {"verify", "reset"}
  PROVE  \E l \in LinkRows : \/ Ledger!Verify(r, l)
                             \/ \E gone \in SUBSET SessionRows : Ledger!Reset(r, l, gone)
<1> DEFINE t == args[r].cred
           gone == {Session(s) : s \in revoked[r]} \cap SessionRows
<1>1. /\ t \in tokens /\ usedBy[t] = None /\ Purpose(t) = args[r].op /\ subject[r] = subject[t]
      /\ t \in inbox
  BY CommitSpends DEF Mailed
<1>2. /\ users' = users /\ profiles' = profiles /\ wishlists' = wishlists /\ tokens' = tokens
      /\ deleted' = deleted /\ usedBy' = [usedBy EXCEPT ![t] = r]
      /\ hash' = IF args[r].op = "reset" THEN [hash EXCEPT ![subject[t]] = r] ELSE hash
      /\ verifiedBy' = IF args[r].op = "verify" /\ verifiedBy[subject[t]] = None
                       THEN [verifiedBy EXCEPT ![subject[t]] = r] ELSE verifiedBy
      /\ prior' = prior /\ pc[r] = "commit"
  BY <1>1, CommitPublishes, StatementFrame DEF Statement
<1>3. /\ jobs' = jobs /\ inbox' = inbox /\ sessions' = sessions \ revoked[r]
      /\ args[r].op # "reset" => revoked[r] = {}
  BY CommitMails
<1>4. AccountRows' = AccountRows /\ LinkRows' = LinkRows /\ Libraries' = Libraries
  BY <1>2, TablesFollow DEF Libraries
<1>5. SessionRows' = SessionRows \ {Session(s) : s \in revoked[r]}
  BY <1>3, TablesFollow
<1>6. /\ Link(t) \in LinkRows /\ Link(t).id = t /\ Link(t).account = subject[t]
      /\ Link(t).purpose = args[r].op
  BY <1>1 DEF LinkRows, Link
<1>7. Ledger!Spend(r, Link(t))
  BY <1>1, <1>2, <1>6 DEF Ledger!Spend
<1>8. CASE args[r].op = "verify"
  <2>1. SessionRows' = SessionRows
    BY <1>3, <1>5, <1>8
  <2>2. Ledger!Verify(r, Link(t))
    BY <1>2, <1>3, <1>4, <1>6, <1>7, <1>8, <2>1
       DEF Ledger!Verify, Ledger!sessionVars, Ledger!mailVars
  <2>3. QED BY <1>6, <2>2
<1>9. CASE args[r].op = "reset"
  <2>1. SessionRows' = SessionRows \ gone /\ gone \in SUBSET SessionRows
    BY <1>5
  <2>2. \A s \in gone : s.account = subject[t]
    BY <1>1 DEF RevokesOwn, Session
  <2>3. \A s \in SessionRows : s.account = subject[t] /\ s.id \in prior[r] => s \in gone
    <3>1. \A x : Session(x).id = x /\ Session(x).account = subject[x]
      BY DEF Session
    <3>2. ASSUME NEW x \in sessions, subject[x] = subject[t], x \in prior[r]
          PROVE  Session(x) \in gone
      <4>1. x \in revoked[r]
        BY <1>1, <1>2, <1>9, <3>2 DEF Revoking
      <4>2. QED BY <3>2, <4>1 DEF SessionRows
    <3> HIDE DEF gone, t
    <3>3. QED BY <3>1, <3>2 DEF SessionRows
  <2>4. Ledger!Reset(r, Link(t), gone)
    <3> HIDE DEF gone
    <3>1. QED
      BY <1>2, <1>3, <1>4, <1>6, <1>7, <1>9, <2>1, <2>2, <2>3 DEF Ledger!Reset, Ledger!mailVars
  <2>5. QED BY <1>6, <2>1, <2>4
<1>10. QED BY <1>8, <1>9

\* The INSERT of a login opens a session of a known account.
LEMMA InsertLogsIn ==
  ASSUME TypeOK, Progress, LoginKnown, [Next]_vars, NEW r \in Requests, InsertSession(r)
  PROVE  Session(r) \in SessionRows' /\ Ledger!Login(Session(r))
<1> USE DEF userVars, credVars, mailVars, InTx
<1>1. /\ sessions' = sessions \cup {r} /\ subject' = subject /\ pc[r] = "insertSession"
      /\ UNCHANGED <<users, deleted, profiles, wishlists, hash, verifiedBy, tokens, usedBy, jobs, inbox,
                     prior>>
  BY DEF InsertSession
<1>2. Session(r)' = Session(r) /\ Session(r).account = subject[r]
  BY <1>1 DEF Session
<1>3. AccountRows' = AccountRows /\ LinkRows' = LinkRows /\ Libraries' = Libraries
      /\ SessionRows' = SessionRows \cup {Session(r)}
  BY <1>1, <1>2, TablesFollow DEF Libraries
<1>4. \E a \in AccountRows : a.id = subject[r]
  <2>1. subject[r] \in users
    BY <1>1 DEF LoginKnown, Progress, Stage
  <2>2. Account(subject[r]) \in AccountRows /\ Account(subject[r]).id = subject[r]
    BY <2>1 DEF AccountRows, Account
  <2>3. QED BY <2>2
<1>5. QED
  BY <1>1, <1>2, <1>3, <1>4 DEF Ledger!Login, Ledger!accountVars, Ledger!linkVars, Ledger!mailVars

\* The DELETE of a logout ends one session, or finds none.
LEMMA DeleteLogsOut ==
  ASSUME TypeOK, Progress, [Next]_vars, NEW r \in Requests, DeleteSession(r)
  PROVE  (\E s \in SessionRows : Ledger!Logout(s)) \/ UNCHANGED Ledger!vars
<1> DEFINE c == args[r].cred
<1> USE DEF userVars, credVars, mailVars, InTx
<1>1. /\ sessions' = sessions \ {c}
      /\ UNCHANGED <<users, deleted, profiles, wishlists, hash, verifiedBy, tokens, usedBy, jobs, inbox,
                     prior>>
  BY DEF DeleteSession
<1>2. CASE c \in sessions
  <2>1. SessionRows' = SessionRows \ {Session(s) : s \in {c}}
    BY <1>1, TablesFollow
  <2>2. SessionRows' = SessionRows \ {Session(c)} /\ Session(c) \in SessionRows
    BY <1>2, <2>1 DEF SessionRows
  <2>3. AccountRows' = AccountRows /\ LinkRows' = LinkRows /\ Libraries' = Libraries
    BY <1>1, TablesFollow DEF Libraries
  <2>4. Ledger!Logout(Session(c))
    BY <1>1, <2>2, <2>3 DEF Ledger!Logout, Ledger!accountVars, Ledger!linkVars, Ledger!mailVars
  <2>5. QED BY <2>2, <2>4
<1>3. CASE c \notin sessions
  BY <1>1, <1>3, LedgerStutters
<1>4. QED BY <1>2, <1>3

\* What the worker, the clock and an operator do is in the ledger too.
LEMMA WorldFollows ==
  ASSUME TypeOK, Progress, World, [Next]_vars
  PROVE  [Ledger!Next]_(Ledger!vars)
<1> USE DEF userVars, credVars, mailVars, reqVars
<1> DEFINE Same == UNCHANGED <<users, profiles, wishlists, hash, verifiedBy, tokens, usedBy, sessions,
                               prior>>
<1>1. ASSUME Same
      PROVE  UNCHANGED <<AccountRows, Libraries, hash, verifiedBy, LinkRows, usedBy, SessionRows, prior>>
  <2>1. sessions' = sessions \ {}
    BY <1>1
  <2>2. SessionRows' = SessionRows \ {Session(s) : s \in {}}
    BY <2>1, TablesFollow
  <2>3. QED BY <1>1, <2>2, TablesFollow DEF Libraries
<1>2. PICK c \in Requests : SendMail(c) \/ EndJob(c) \/ Expire(c) \/ SoftDelete(c)
  BY DEF World
<1>3. CASE SendMail(c)
  <2>1. Same /\ c \in jobs /\ inbox' = inbox \cup {c} /\ UNCHANGED <<deleted, jobs>>
    BY <1>3 DEF SendMail
  <2>2. Ledger!Mail(c)
    <3> HIDE DEF Same
    <3>1. QED BY <2>1, <1>1 DEF Ledger!Mail, Ledger!accountVars, Ledger!linkVars,
                              Ledger!sessionVars
  <2>3. QED BY <2>1, <2>2 DEF Ledger!Next
<1>4. CASE EndJob(c)
  <2>1. Same /\ c \in jobs /\ jobs' = jobs \ {c} /\ UNCHANGED <<deleted, inbox>>
    BY <1>4 DEF EndJob
  <2>2. Ledger!EndJob(c)
    <3> HIDE DEF Same
    <3>1. QED BY <2>1, <1>1 DEF Ledger!EndJob, Ledger!accountVars, Ledger!linkVars,
                              Ledger!sessionVars
  <2>3. QED BY <2>1, <2>2 DEF Ledger!Next
<1>5. CASE Expire(c)
  BY <1>5, LedgerStutters DEF Expire
<1>6. CASE SoftDelete(c)
  <2>1. Same /\ c \in users /\ deleted' = deleted \cup {c} /\ UNCHANGED <<jobs, inbox>>
    BY <1>6 DEF SoftDelete, Live
  <2>2. Account(c) \in AccountRows /\ Account(c).id = c
    BY <2>1 DEF AccountRows, Account
  <2>3. Ledger!Delete(Account(c))
    <3> HIDE DEF Same
    <3>1. QED BY <2>1, <2>2, <1>1 DEF Ledger!Delete, Ledger!linkVars, Ledger!sessionVars,
                                     Ledger!mailVars
  <2>4. QED BY <2>2, <2>3 DEF Ledger!Next
<1>7. QED BY <1>2, <1>3, <1>4, <1>5, <1>6

\* Every step of the service is one whole operation of the ledger, or nothing.
LEMMA NextFollows ==
  ASSUME TypeOK, Progress, KeysReserved, TokenInv, Revoking, LedgerInv, [Next]_vars
  PROVE  [Ledger!Next]_(Ledger!vars)
<1> USE DEF LedgerInv
<1>1. ASSUME NEW r \in Requests, Commit(r) PROVE Ledger!Next
  <2>1. CASE args[r].op = "register"
    BY <1>1, <2>1, CommitRegisters DEF Ledger!Next
  <2>2. CASE args[r].op = "forgot"
    BY <1>1, <2>2, CommitForgets DEF Ledger!Next
  <2>3. CASE args[r].op \in {"verify", "reset"}
    BY <1>1, <2>3, CommitRedeems DEF Ledger!Next
  <2>4. QED BY <1>1, <2>1, <2>2, <2>3, CommitPublishes
<1>2. ASSUME NEW r \in Requests, InsertSession(r) PROVE Ledger!Next
  BY <1>2, InsertLogsIn DEF Ledger!Next
<1>3. ASSUME NEW r \in Requests, DeleteSession(r) PROVE [Ledger!Next]_(Ledger!vars)
  BY <1>3, DeleteLogsOut DEF Ledger!Next
<1>4. ASSUME NEW r \in Requests, Fail(r) \/ Statement(r),
             ~Commit(r), ~InsertSession(r), ~DeleteSession(r)
      PROVE  UNCHANGED Ledger!vars
  <2>1. UNCHANGED <<users, deleted, profiles, wishlists, hash, verifiedBy, tokens, usedBy,
                    sessions, jobs, inbox>>
    BY <1>4 DEF userVars, credVars, mailVars, NoDbChange, Fail, Statement, InsertUser, EmailKey,
                UsernameKey, CreateDefaultProfile, InsertToken, InsertJob, LookupEmail,
                ConsumeToken, SetVerified, SetPassword, RevokeSessions, LookupLogin, Authenticate
  <2>2. prior' = prior
    BY <1>4, StatementFrame
  <2>3. QED BY <2>1, <2>2, LedgerStutters
<1>5. ASSUME NEW r \in Requests, Start(r) PROVE [Ledger!Next]_(Ledger!vars)
  BY <1>5, StartAsks DEF Ledger!Next
<1>6. CASE UNCHANGED vars
  BY <1>6, LedgerStutters DEF vars, reqVars, userVars, credVars, mailVars
<1>7. QED
  BY <1>1, <1>2, <1>3, <1>4, <1>5, <1>6, WorldFollows DEF Next, Finished

\* What interleaved requests, failures and lost answers make of the committed
\* database is a sequence of whole operations: registrations of free keys with
\* their library, link and job; links used once, with their effect; password
\* changes that end every session of the account which was there when the reset
\* arrived (the transactions of modules/auth).
THEOREM KeepsLedgerHolds == Spec => KeepsLedger
<1>1. Init => Ledger!Init
  BY DEF Init, Ledger!Init, AccountRows, LinkRows, SessionRows, Libraries
<1>2. TypeOK /\ Progress /\ KeysReserved /\ TokenInv /\ Revoking /\ LedgerInv /\ [Next]_vars
        => [Ledger!Next]_(Ledger!vars)
  BY NextFollows
<1>3. QED
  BY <1>1, <1>2, TypeCorrect, ProgressHolds, KeysHold, TokenInvHolds, RevokingHolds, LedgerInvHolds, PTL
     DEF Spec, KeepsLedger, Ledger!Spec

=============================================================================
