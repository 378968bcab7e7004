------------------------------ MODULE ApiServer ------------------------------
(***************************************************************************)
(* The API process: cmd/api/main.go and routes.go, RunUntilSignal          *)
(* (platform/httpx/server.go) and what every request passes through:       *)
(* request id, logging, session middleware, MuxErrors, a handler, and the  *)
(* error envelope of platform/httpx and platform/apperr.  Requests run     *)
(* concurrently, and while the server shuts down.                          *)
(*                                                                         *)
(* What the operations do is Accounts; here a handler answers with one of  *)
(* the statuses and codes it may.  net/http, ServeMux and Huma are         *)
(* external.                                                               *)
(***************************************************************************)

EXTENDS Integers

CONSTANTS Requests,
          SentIds,   \* X-Request-ID values clients may send, None for no header
          Hanging,   \* requests whose handler may hang (nothing bounds its statements)
          Pools,     \* may DATABASE_URL be set: a set of Booleans
          None

ASSUME ServerAssumption == /\ None \notin Requests \cup {0, 1} /\ SentIds \cap Requests = {}
                           /\ Hanging \subseteq Requests /\ Pools \subseteq BOOLEAN

\* What a request asks for.  "unclean" and "unknown" match no pattern, the path
\* of "redirected" does once it is cleaned.
Unrouted == {"unknown", "unclean", "wrongMethod"}
Paths == {"healthz", "readyz", "whoami", "operation", "redirected"} \cup Unrouted

VARIABLES
  phase,     \* "serving", "shutting" (Shutdown), "closing" (deferred calls), "exited"
  exit,      \* exit code
  signalled, \* SIGINT or SIGTERM has been received
  pool,      \* "none", "open" or "closed"
  pc,        \* pc[r]: the layer that handles r: "idle", "session", "mux", "logging", "done"
  path,      \* path[r]: what it asks for
  sent,      \* sent[r]: the X-Request-ID header it came with
  id,        \* id[r]: the request id in its context
  known,     \* requests whose context has a user
  hung,      \* requests whose handler hangs
  status,    \* status[r]: statusWriter.status
  reply,     \* reply[r]: status, X-Request-ID header and body of the answer
  chosen,    \* history: requests whose error an operation gave a code of its own
  log        \* lines written

serverVars  == <<phase, exit, signalled, pool>>
requestVars == <<pc, path, sent, id, known, hung, status, reply, chosen, log>>
vars        == <<serverVars, requestVars>>

NoReply == [status |-> 0, header |-> None, code |-> None, id |-> None]
Active == {r \in Requests : pc[r] \notin {"idle", "done"}}

Init ==
  /\ phase = "serving" /\ exit = None /\ signalled = FALSE
  /\ \E configured \in Pools : pool = IF configured THEN "open" ELSE "none"
  /\ pc = [r \in Requests |-> "idle"] /\ path = [r \in Requests |-> None]
  /\ sent = [r \in Requests |-> None] /\ id = [r \in Requests |-> None]
  /\ known = {} /\ hung = {} /\ chosen = {} /\ log = {}
  /\ status = [r \in Requests |-> 0] /\ reply = [r \in Requests |-> NoReply]

-----------------------------------------------------------------------------
(* A request.                                                              *)

Alive == phase # "exited"

At(r, layer) ==
  /\ Alive /\ pc[r] = layer /\ r \notin hung
  /\ UNCHANGED <<serverVars, path, sent, id, hung>>

\* A request arrives; requestid.Middleware takes the client's id or makes one,
\* puts it into the header and the context.
Accept(r) == \E p \in Paths, s \in SentIds :
  /\ phase = "serving" /\ pc[r] = "idle"
  /\ path' = [path EXCEPT ![r] = p]
  /\ sent' = [sent EXCEPT ![r] = s]
  /\ id' = [id EXCEPT ![r] = IF s = None THEN r ELSE s]
  /\ pc' = [pc EXCEPT ![r] = "session"]
  /\ status' = [status EXCEPT ![r] = 200]
  /\ UNCHANGED <<serverVars, known, hung, reply, chosen, log>>

\* SessionMiddleware: with a database, a valid cookie puts the user into the
\* context (which ones are valid: Accounts); any failure leaves r anonymous.
Session(r) ==
  /\ At(r, "session")
  /\ known' \in {known} \cup (IF pool = "open" THEN {known \cup {r}} ELSE {})
  /\ pc' = [pc EXCEPT ![r] = "mux"]
  /\ UNCHANGED <<status, reply, chosen, log>>

\* The session's UPDATE or a handler's statement waits for a connection or a
\* lock of the database; only /readyz gives its ping a deadline.
Hang(r) ==
  /\ Alive /\ r \in Hanging \ hung /\ pool = "open"
  /\ pc[r] = "session" \/ (pc[r] = "mux" /\ path[r] = "operation")
  /\ hung' = hung \cup {r}
  /\ UNCHANGED <<serverVars, pc, path, sent, id, known, status, reply, chosen, log>>

\* The answer is written through statusWriter.
Write(r, st, code, bodyId) ==
  /\ pc' = [pc EXCEPT ![r] = "logging"]
  /\ status' = [status EXCEPT ![r] = st]
  /\ reply' = [reply EXCEPT ![r] = [status |-> st, header |-> id[r], code |-> code, id |-> bodyId]]
  /\ UNCHANGED known

Success(r, st) == Write(r, st, None, None) /\ UNCHANGED <<chosen, log>>

Line(msg, r, st, level) == [msg |-> msg, id |-> id[r], status |-> st, level |-> level]

\* LogAndBuildError with WriteError, or apperr.New with Huma's writer.
Envelope(r, st, code) ==
  /\ Write(r, st, code, id[r])
  /\ log' = log \cup {Line("requestError", r, st, "error")}

Error(r, st, code) == Envelope(r, st, code) /\ UNCHANGED chosen

Healthz(r) == At(r, "mux") /\ path[r] = "healthz" /\ Success(r, 200)

\* No database, or it does not answer the ping within two seconds.
Readyz(r) ==
  /\ At(r, "mux") /\ path[r] = "readyz"
  /\ \/ pool = "open" /\ Success(r, 200)
     \/ Error(r, 503, "NOT_READY")

Whoami(r) ==
  /\ At(r, "mux") /\ path[r] = "whoami"
  /\ IF r \in known THEN Success(r, 200) ELSE Error(r, 401, "UNAUTHENTICATED")

\* codeForStatus.
CodeForStatus(st) ==
  CASE st \in {400, 422} -> "VALIDATION_ERROR"
    [] st = 401 -> "UNAUTHENTICATED"
    [] st = 404 -> "NOT_FOUND"
    [] st = 405 -> "METHOD_NOT_ALLOWED"
    [] st = 503 -> "NOT_READY"
    [] st = 500 -> "INTERNAL_ERROR"
    [] OTHER -> "ERROR"

\* Mutant of HumaError: the envelope of huma.NewError, which has no context.
HumaErrorWithoutContext(r, st) == Write(r, st, None, None) /\ UNCHANGED <<chosen, log>>

\* huma.NewErrorWithContext, for errors Huma finds itself.
HumaError(r, st) == Error(r, st, CodeForStatus(st))

\* The codes the operations give to apperr.New, by status.
OperationErrors == {<<400, "VALIDATION_ERROR">>, <<400, "INVALID_OR_EXPIRED_TOKEN">>,
                    <<401, "INVALID_CREDENTIALS">>, <<409, "EMAIL_OR_USERNAME_ALREADY_REGISTERED">>,
                    <<500, "INTERNAL_ERROR">>}

\* One of the operations of BuildAPI: Huma validates the input first; without a
\* database every operation but logout answers 503.
Operation(r) ==
  /\ At(r, "mux") /\ path[r] = "operation"
  /\ \/ \E st \in {400, 413, 415, 422} : HumaError(r, st)
     \/ /\ pool = "open" /\ \E e \in OperationErrors : Envelope(r, e[1], e[2])
        /\ chosen' = chosen \cup {r}
     \/ pool = "none" /\ Error(r, 503, "NOT_READY")
     \/ \E st \in IF pool = "open" THEN {200, 201, 204} ELSE {204} : Success(r, st)

\* ServeMux sends an unclean path on to the clean one (301 before Go 1.26).
Redirected == 307

\* A pattern matches the cleaned path: MuxErrors lets ServeMux answer.
Redirect(r) == At(r, "mux") /\ path[r] = "redirected" /\ Success(r, Redirected)

\* What the probe of MuxErrors sees of ServeMux's own answer.
ProbeStatus(r) == CASE path[r] = "wrongMethod" -> 405
                    [] path[r] = "unclean" -> Redirected
                    [] OTHER -> 404

\* Mutant of NoRoute: the probe is not looked at.
NoRouteUnprobed(r) == Error(r, 404, "NOT_FOUND")

NoRoute(r) == IF ProbeStatus(r) = 405 THEN Error(r, 405, "METHOD_NOT_ALLOWED")
                                      ELSE Error(r, 404, "NOT_FOUND")

\* MuxErrors, when no pattern matches.
MuxErrors(r) == At(r, "mux") /\ path[r] \in Unrouted /\ NoRoute(r)

Level(st) == IF st >= 500 THEN "error" ELSE "info"

\* WithLogging, after the handler.
Complete(r) ==
  /\ At(r, "logging")
  /\ log' = log \cup {Line("requestCompleted", r, status[r], Level(status[r]))}
  /\ pc' = [pc EXCEPT ![r] = "done"]
  /\ UNCHANGED <<known, status, reply, chosen>>

-----------------------------------------------------------------------------
(* The process.                                                            *)

\* Any number of signals: only the first one matters.
Signal ==
  /\ Alive /\ signalled' = TRUE
  /\ UNCHANGED <<phase, exit, pool, requestVars>>

Exit(code) == phase' = "exited" /\ exit' = code /\ UNCHANGED <<signalled, requestVars>>

\* ListenAndServe fails: main calls os.Exit(1), no deferred call runs.
ListenFails == phase = "serving" /\ Exit(1) /\ UNCHANGED pool

\* RunUntilSignal takes the signal: Shutdown closes the listener.
BeginShutdown ==
  /\ phase = "serving" /\ signalled
  /\ phase' = "shutting"
  /\ UNCHANGED <<exit, signalled, pool, requestVars>>

\* Mutant of Drained: server.Close, which waits for nobody.
NotDrained == TRUE
Drained == Active = {}

\* Shutdown returns nil: RunUntilSignal and main return.
ShutdownDone ==
  /\ phase = "shutting" /\ Drained
  /\ phase' = "closing"
  /\ UNCHANGED <<exit, signalled, pool, requestVars>>

\* Mutant of ShutdownFails: Shutdown has no deadline.
ShutdownUnbounded == FALSE /\ UNCHANGED vars

\* The ten seconds are over: Shutdown's error makes main call os.Exit(1).
ShutdownFails ==
  /\ phase = "shutting"
  /\ Exit(1) /\ UNCHANGED pool

\* The deferred pool.Close waits for the connections that are in use.
Close ==
  /\ phase = "closing" /\ Active \cap hung = {}
  /\ Exit(0)
  /\ pool' = IF pool = "open" THEN "closed" ELSE pool

-----------------------------------------------------------------------------
Handle(r) == Healthz(r) \/ Readyz(r) \/ Whoami(r) \/ Operation(r) \/ Redirect(r) \/ MuxErrors(r)

Serve(r) == Session(r) \/ Handle(r) \/ Complete(r)

Finished == ~Alive /\ UNCHANGED vars

Next == \/ \E r \in Requests : Accept(r) \/ Serve(r) \/ Hang(r)
        \/ Signal \/ ListenFails \/ BeginShutdown \/ ShutdownDone \/ ShutdownFails \/ Close
        \/ Finished

Spec == Init /\ [][Next]_vars

\* Goroutines run, and Shutdown's context has a deadline.
FairSpec == /\ Spec
            /\ WF_vars(BeginShutdown) /\ WF_vars(ShutdownDone \/ ShutdownFails) /\ WF_vars(Close)
            /\ \A r \in Requests : WF_vars(Serve(r))

-----------------------------------------------------------------------------
Ids == Requests \cup SentIds

Codes == {"VALIDATION_ERROR", "UNAUTHENTICATED", "NOT_FOUND", "METHOD_NOT_ALLOWED", "NOT_READY",
          "INTERNAL_ERROR", "ERROR"} \cup {e[2] : e \in OperationErrors}
Replies == [status : Nat, header : Ids \cup {None}, code : Codes \cup {None}, id : Ids \cup {None}]
Lines == [msg : {"requestError", "requestCompleted"}, id : Ids, status : Nat,
          level : {"info", "error"}]

\* The shape of every variable.
TypeOK ==
  /\ phase \in {"serving", "shutting", "closing", "exited"} /\ exit \in {None, 0, 1}
  /\ signalled \in BOOLEAN /\ pool \in {"none", "open", "closed"}
  /\ pc \in [Requests -> {"idle", "session", "mux", "logging", "done"}]
  /\ path \in [Requests -> Paths \cup {None}] /\ sent \in [Requests -> SentIds \cup {None}]
  /\ id \in [Requests -> Ids \cup {None}]
  /\ known \subseteq Requests /\ hung \subseteq Requests /\ chosen \subseteq Requests
  /\ status \in [Requests -> Nat] /\ reply \in [Requests -> Replies] /\ log \subseteq Lines

\* The id a client should see: the one it sent, or a new one.
OwnId(r) == IF sent[r] = None THEN r ELSE sent[r]

\* A support case can be followed by one id (httpx_test.go,
\* TestWriteError_LogAndResponseShareRequestID).  Whoever answers (a route, an
\* operation, Huma, MuxErrors), the answer's header is the id the client sent, or
\* a new one; an error's body has it too, and there is a line of that error under
\* it; a request that is through has its completion line with the status the
\* client got; and no line under a new id speaks of another request's answer.
Traceable == \A r \in Requests :
  /\ reply[r] # NoReply => reply[r].header = OwnId(r)
  /\ reply[r].status >= 400 =>
       /\ reply[r].id = OwnId(r)
       /\ \E l \in log : l.msg = "requestError" /\ l.id = OwnId(r) /\ l.status = reply[r].status
  /\ pc[r] = "done" =>
       \E l \in log : l.msg = "requestCompleted" /\ l.id = OwnId(r) /\ l.status = reply[r].status
  /\ \A l \in log : l.id = r => sent[r] = None /\ l.status = reply[r].status

\* An error to which no operation gave a code of its own, whether a route, an
\* operation without a database, Huma or MuxErrors found it, has the code that
\* codeForStatus gives its status: a client may branch on either.  And whatever
\* ServeMux itself would have answered, 405 means that the path has a route and
\* 404 that it has none.
CodesAgree == \A r \in Requests : reply[r] # NoReply =>
  /\ reply[r].status >= 400 /\ r \notin chosen => reply[r].code = CodeForStatus(reply[r].status)
  /\ reply[r].status = 405 <=> path[r] = "wrongMethod"
  /\ reply[r].status = 404 <=> path[r] \in {"unknown", "unclean"}

\* The process reports success only if every request it accepted was answered
\* and logged, and it closes the pool only then: nobody uses a closed pool.
CleanExit == exit = 0 \/ pool = "closed" => \A r \in Requests : pc[r] \in {"idle", "done"}

\* After a signal the process ends, whatever hangs in its handlers.
StopsAfterSignal == signalled ~> phase = "exited"
=============================================================================
