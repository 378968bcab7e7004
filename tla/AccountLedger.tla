---------------------------- MODULE AccountLedger ----------------------------
(***************************************************************************)
(* What the account service promises about the committed database          *)
(* (backend/internal/modules/auth): each operation is one atomic change of *)
(* the accounts, the mailed links and the sessions.  Requests, statements, *)
(* transactions, locks and failures do not exist here.                     *)
(***************************************************************************)

CONSTANTS Ids,   \* identities of accounts, links, sessions, passwords and jobs
          None

VARIABLES accounts,  \* records [id, email, username]
          deleted,   \* ids of accounts that are deleted
          libraries, \* ids of accounts that have their profile and wishlist
          password,  \* password[a]: the request that set it
          verified,  \* verified[a]: the request that verified its address
          links,     \* records [id, account, purpose]
          spentBy,   \* spentBy[l]: the request that used the link
          sessions,  \* records [id, account]
          present,   \* present[r]: ids of the sessions there when r asked for a reset
          jobs, inbox

accountVars == <<accounts, deleted, libraries, password, verified>>
linkVars    == <<links, spentBy>>
sessionVars == <<sessions, present>>
mailVars    == <<jobs, inbox>>
vars        == <<accountVars, linkVars, sessionVars, mailVars>>

Init ==
  /\ accounts = {} /\ deleted = {} /\ libraries = {} /\ links = {}
  /\ password = [a \in Ids |-> None] /\ verified = [a \in Ids |-> None]
  /\ spentBy = [l \in Ids |-> None]
  /\ present = [r \in Ids |-> {}]
  /\ sessions = {} /\ jobs = {} /\ inbox = {}

Clash(a, b) == a.email = b.email \/ a.username = b.username

\* A link is put into the database together with the job that mails it.
Issue(l) == links' = links \cup {l} /\ jobs' = jobs \cup {l.id}

\* An account comes with its library, its password and its verification link,
\* if no live account has its e-mail address or user name.
Register(a) ==
  /\ \A b \in accounts : Clash(a, b) => b.id \in deleted
  /\ accounts' = accounts \cup {a} /\ libraries' = libraries \cup {a.id}
  /\ password' = [password EXCEPT ![a.id] = a.id]
  /\ Issue([id |-> a.id, account |-> a.id, purpose |-> "verify"])
  /\ UNCHANGED <<deleted, verified, spentBy, sessionVars, inbox>>

Forgot(l) ==
  /\ l.purpose = "reset" /\ \E a \in accounts : a.id = l.account
  /\ Issue(l)
  /\ UNCHANGED <<accountVars, spentBy, sessionVars, inbox>>

\* A mailed link is used, for the only time.
Spend(r, l) ==
  /\ l.id \in inbox /\ spentBy[l.id] = None
  /\ spentBy' = [spentBy EXCEPT ![l.id] = r]

Verify(r, l) ==
  /\ l.purpose = "verify" /\ Spend(r, l)
  /\ verified' = IF verified[l.account] = None THEN [verified EXCEPT ![l.account] = r]
                                               ELSE verified
  /\ UNCHANGED <<accounts, deleted, libraries, password, links, sessionVars, mailVars>>

\* r asks for a reset.
Ask(r) ==
  /\ present' = [present EXCEPT ![r] = {s.id : s \in sessions}]
  /\ UNCHANGED <<accountVars, linkVars, sessions, mailVars>>

\* The new password comes with the end of the account's sessions: all that were
\* there when r asked, and no other account's.  Some opened since may survive.
Reset(r, l, revoked) ==
  /\ l.purpose = "reset" /\ Spend(r, l)
  /\ password' = [password EXCEPT ![l.account] = r]
  /\ \A s \in revoked : s.account = l.account
  /\ \A s \in sessions : s.account = l.account /\ s.id \in present[r] => s \in revoked
  /\ sessions' = sessions \ revoked
  /\ UNCHANGED <<accounts, deleted, libraries, verified, links, present, mailVars>>

Login(s) ==
  /\ \E a \in accounts : a.id = s.account
  /\ sessions' = sessions \cup {s}
  /\ UNCHANGED <<accountVars, linkVars, present, mailVars>>

Logout(s) ==
  /\ sessions' = sessions \ {s}
  /\ UNCHANGED <<accountVars, linkVars, present, mailVars>>

Mail(j) ==
  /\ j \in jobs /\ inbox' = inbox \cup {j}
  /\ UNCHANGED <<accountVars, linkVars, sessionVars, jobs>>

EndJob(j) ==
  /\ jobs' = jobs \ {j}
  /\ UNCHANGED <<accountVars, linkVars, sessionVars, inbox>>

Delete(a) ==
  /\ deleted' = deleted \cup {a.id}
  /\ UNCHANGED <<accounts, libraries, password, verified, linkVars, sessionVars, mailVars>>

\* What is added is read off the next state.
Next ==
  \/ \E a \in accounts' : Register(a)
  \/ \E l \in links' : Forgot(l)
  \/ \E r \in Ids : Ask(r)
  \/ \E r \in Ids, l \in links : \/ Verify(r, l)
                                 \/ \E revoked \in SUBSET sessions : Reset(r, l, revoked)
  \/ \E s \in sessions' : Login(s)
  \/ \E s \in sessions : Logout(s)
  \/ \E j \in jobs : Mail(j) \/ EndJob(j)
  \/ \E a \in accounts : Delete(a)

Spec == Init /\ [][Next]_vars
=============================================================================
