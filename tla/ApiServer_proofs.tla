--------------------------- MODULE ApiServer_proofs ---------------------------
(* Proofs about ApiServer, for any number of concurrent requests. *)
EXTENDS ApiServer, TLAPS

-----------------------------------------------------------------------------
(* The inductive invariant behind the safety properties.  *)

ErrorLogged(r) == \E l \in log : l.msg = "requestError" /\ l.id = id[r] /\ l.status = status[r]
Completed(r) == \E l \in log : l.msg = "requestCompleted" /\ l.id = id[r] /\ l.status = status[r]

\* A request that a layer still works on has no answer; one that has its answer
\* carries one id everywhere, and no line under a new id is of another request.
Unanswered(r) == pc[r] \in {"idle", "session", "mux"} => reply[r] = NoReply
Answered(r) == pc[r] \in {"logging", "done"} =>
  /\ reply[r].status = status[r] /\ reply[r].header = id[r]
  /\ status[r] >= 400 => reply[r].id = id[r] /\ ErrorLogged(r)
  /\ pc[r] = "done" => Completed(r)
OwnLines(r) == \A l \in log :
  l.id = r => sent[r] = None /\ pc[r] \in {"logging", "done"} /\ l.status = status[r]
RequestInv(r) == /\ pc[r] # "idle" => id[r] = OwnId(r)
                 /\ Unanswered(r) /\ Answered(r) /\ OwnLines(r)

\* Nothing arrives or runs once the deferred calls have begun, and only they
\* close the pool and let main return.
ClosedLast == /\ phase = "closing" \/ exit = 0 \/ pool = "closed" => Active = {}
              /\ exit = 0 \/ pool = "closed" => phase = "exited"

ServerInv == TypeOK /\ CodesAgree /\ ClosedLast /\ \A r \in Requests : RequestInv(r)

\* CodesAgree, of one request.
Agree(r) == reply[r] # NoReply =>
  /\ reply[r].status >= 400 /\ r \notin chosen => reply[r].code = CodeForStatus(reply[r].status)
  /\ reply[r].status = 405 <=> path[r] = "wrongMethod"
  /\ reply[r].status = 404 <=> path[r] \in {"unknown", "unclean"}

\* The id of a request that has arrived is one of the ids, and new ids are told
\* from those that clients send.
LEMMA OwnIdKnown ==
  ASSUME TypeOK, NEW r \in Requests
  PROVE  OwnId(r) \in Ids /\ \A q \in Requests : OwnId(r) = q => q = r /\ sent[r] = None
BY ServerAssumption DEF TypeOK, OwnId, Ids

\* Nobody has asked anything yet.
LEMMA InitServerInv == Init => ServerInv
<1> SUFFICES ASSUME Init PROVE ServerInv
  OBVIOUS
<1> USE DEF Init
<1>1. NoReply \in Replies
  BY DEF NoReply, Replies
<1>2. TypeOK
  BY <1>1, ServerAssumption DEF TypeOK
<1>3. CodesAgree /\ ClosedLast
  BY ServerAssumption DEF CodesAgree, ClosedLast, Active
<1>4. \A r \in Requests : RequestInv(r)
  BY DEF RequestInv, Unanswered, Answered, OwnLines
<1>5. QED BY <1>2, <1>3, <1>4 DEF ServerInv

-----------------------------------------------------------------------------
(* Steps of one request.                                                   *)

\* The step does not concern q; lines are only added to the log, under other ids.
Kept(q) ==
  /\ pc'[q] = pc[q] /\ path'[q] = path[q] /\ sent'[q] = sent[q] /\ id'[q] = id[q]
  /\ status'[q] = status[q] /\ reply'[q] = reply[q] /\ (q \in chosen' <=> q \in chosen)
  /\ log \subseteq log' /\ \A l \in log' \ log : l.id # q

\* A request that a step does not concern keeps its invariant.
LEMMA KeptStep ==
  ASSUME ServerInv, NEW q \in Requests, Kept(q)
  PROVE  RequestInv(q)' /\ Agree(q)'
<1>1. RequestInv(q) /\ Agree(q)
  BY DEF ServerInv, CodesAgree, Agree
<1>2. RequestInv(q)'
  BY <1>1 DEF Kept, RequestInv, Unanswered, Answered, ErrorLogged, Completed, OwnLines, OwnId
<1>3. Agree(q)'
  BY <1>1 DEF Kept, Agree, CodeForStatus
<1>4. QED BY <1>2, <1>3

\* Only r moves,
Local(r) == TypeOK' /\ \A q \in Requests \ {r} : Kept(q)

\* so that only what concerns r is left to show.
LEMMA LocalStep ==
  ASSUME ServerInv, NEW r \in Requests, Local(r), RequestInv(r)', Agree(r)', ClosedLast'
  PROVE  ServerInv'
<1>1. \A q \in Requests : RequestInv(q)' /\ Agree(q)'
  BY KeptStep DEF Local
<1>2. CodesAgree'
  BY <1>1 DEF CodesAgree, Agree
<1>3. QED BY <1>1, <1>2 DEF ServerInv, Local

\* No request moves.
LEMMA QuietStep ==
  ASSUME ServerInv, UNCHANGED <<pc, path, sent, id, status, reply, chosen, log>>, TypeOK', ClosedLast'
  PROVE  ServerInv'
<1>1. \A q \in Requests : RequestInv(q)' /\ Agree(q)'
  BY KeptStep DEF Kept
<1>2. CodesAgree'
  BY <1>1 DEF CodesAgree, Agree
<1>3. QED BY <1>1, <1>2 DEF ServerInv

\* While a layer works on a request, the deferred calls have not begun.
LEMMA AtShape ==
  ASSUME ServerInv, NEW r \in Requests, NEW layer \in {"session", "mux", "logging"}, At(r, layer)
  PROVE  /\ pc[r] = layer /\ id[r] = OwnId(r) /\ id[r] \in Ids /\ RequestInv(r) /\ Agree(r)
         /\ UNCHANGED <<serverVars, path, sent, id, hung>> /\ ClosedLast'
         /\ \A q \in Requests : id[r] = q => q = r /\ sent[r] = None
<1>1. pc[r] = layer /\ UNCHANGED <<serverVars, path, sent, id, hung>> /\ r \in Active
  BY DEF At, Active
<1>2. phase # "closing" /\ exit # 0 /\ pool # "closed"
  BY <1>1 DEF ServerInv, ClosedLast
<1>3. ClosedLast'
  BY <1>1, <1>2 DEF ClosedLast, serverVars
<1>4. id[r] = OwnId(r) /\ RequestInv(r) /\ Agree(r)
  BY <1>1 DEF ServerInv, RequestInv, CodesAgree, Agree
<1>5. QED BY <1>1, <1>3, <1>4, OwnIdKnown DEF ServerInv

\* What a layer's answer changes.
LEMMA WriteShape ==
  ASSUME ServerInv, NEW r \in Requests, At(r, "mux"),
         NEW st \in Nat, NEW code \in Codes \cup {None}, NEW bodyId \in Ids \cup {None},
         Write(r, st, code, bodyId), log \subseteq log', log' \subseteq Lines,
         \A l \in log' \ log : l.id = id[r], chosen' \in {chosen, chosen \cup {r}}
  PROVE  /\ Local(r) /\ pc'[r] = "logging" /\ status'[r] = st /\ path'[r] = path[r]
         /\ id'[r] = id[r] /\ sent'[r] = sent[r] /\ ClosedLast'
         /\ reply'[r].status = st /\ reply'[r].header = id[r] /\ reply'[r].code = code
         /\ reply'[r].id = bodyId
<1> DEFINE answer == [status |-> st, header |-> id[r], code |-> code, id |-> bodyId]
<1>1. /\ pc[r] = "mux" /\ id[r] \in Ids /\ UNCHANGED <<serverVars, path, sent, id, hung>>
      /\ ClosedLast' /\ \A q \in Requests : id[r] = q => q = r
  BY AtShape
<1>2. /\ pc' = [pc EXCEPT ![r] = "logging"] /\ status' = [status EXCEPT ![r] = st]
      /\ reply' = [reply EXCEPT ![r] = answer] /\ known' = known
  BY DEF Write
<1>3. /\ answer \in Replies /\ answer.status = st /\ answer.header = id[r]
      /\ answer.code = code /\ answer.id = bodyId
  BY <1>1 DEF Replies
<1> HIDE DEF answer
<1>4. TypeOK
  BY DEF ServerInv
<1>5. pc' \in [Requests -> {"idle", "session", "mux", "logging", "done"}] /\ pc'[r] = "logging"
  BY <1>2, <1>4 DEF TypeOK
<1>6. status' \in [Requests -> Nat] /\ status'[r] = st
  BY <1>2, <1>4 DEF TypeOK
<1>7. reply' \in [Requests -> Replies] /\ reply'[r] = answer
  BY <1>2, <1>3, <1>4 DEF TypeOK
<1>8. TypeOK'
  BY <1>1, <1>2, <1>4, <1>5, <1>6, <1>7 DEF TypeOK, serverVars
<1>9. Local(r)
  BY <1>1, <1>2, <1>4, <1>8 DEF Local, Kept, TypeOK
<1>10. QED BY <1>1, <1>3, <1>5, <1>6, <1>7, <1>9

\* The answer's code and status agree with what was asked for.
Fits(r, st, code) ==
  /\ st >= 400 /\ r \notin chosen' => code = CodeForStatus(st)
  /\ st = 405 <=> path[r] = "wrongMethod"
  /\ st = 404 <=> path[r] \in {"unknown", "unclean"}

\* An answer carries the request's id, and an error is logged with it.
LEMMA WriteInv ==
  ASSUME ServerInv, NEW r \in Requests, At(r, "mux"),
         NEW st \in Nat, NEW code \in Codes \cup {None}, NEW bodyId \in Ids \cup {None},
         Write(r, st, code, bodyId), log \subseteq log', log' \subseteq Lines,
         \A l \in log' \ log : l.id = id[r] /\ l.status = st,
         chosen' \in {chosen, chosen \cup {r}}, Fits(r, st, code),
         st >= 400 => bodyId = id[r] /\ \E l \in log' :
                        l.msg = "requestError" /\ l.id = id[r] /\ l.status = st
  PROVE  ServerInv'
<1>1. /\ Local(r) /\ pc'[r] = "logging" /\ status'[r] = st /\ path'[r] = path[r]
      /\ id'[r] = id[r] /\ sent'[r] = sent[r] /\ ClosedLast'
      /\ reply'[r].status = st /\ reply'[r].header = id[r] /\ reply'[r].code = code
      /\ reply'[r].id = bodyId
  BY WriteShape
<1>2. /\ pc[r] = "mux" /\ id[r] = OwnId(r) /\ OwnLines(r)
      /\ \A q \in Requests : id[r] = q => q = r /\ sent[r] = None
  BY AtShape DEF RequestInv
<1>3. OwnLines(r)'
  BY <1>1, <1>2 DEF OwnLines
<1>4. id'[r] = OwnId(r)'
  BY <1>1, <1>2 DEF OwnId
<1>5. Unanswered(r)' /\ Answered(r)'
  BY <1>1 DEF Unanswered, Answered, ErrorLogged
<1>6. Agree(r)'
  BY <1>1 DEF Agree, Fits, CodeForStatus
<1>7. QED BY <1>1, <1>3, <1>4, <1>5, <1>6, LocalStep DEF RequestInv

\* An answer of success written by r's layer keeps the invariant.
LEMMA SuccessInv ==
  ASSUME ServerInv, NEW r \in Requests, At(r, "mux"), NEW st \in {200, 201, 204, Redirected},
         Success(r, st), path[r] \notin Unrouted
  PROVE  ServerInv'
<1>1. /\ Write(r, st, None, None) /\ log' = log /\ log' \subseteq Lines /\ chosen' = chosen
  BY DEF Success, ServerInv, TypeOK
<1>2. st \in Nat /\ ~(st >= 400) /\ st # 404 /\ st # 405
  BY DEF Redirected
<1>3. Fits(r, st, None)
  BY <1>2 DEF Fits, Unrouted
<1>4. None \in Codes \cup {None} /\ None \in Ids \cup {None}
  OBVIOUS
<1>5. QED BY <1>1, <1>2, <1>3, <1>4, WriteInv

\* So does an error, which LogAndBuildError or Huma's writer logs under r's id.
LEMMA EnvelopeInv ==
  ASSUME ServerInv, NEW r \in Requests, At(r, "mux"), NEW st \in Nat, NEW code \in Codes,
         Envelope(r, st, code), chosen' \in {chosen, chosen \cup {r}}, Fits(r, st, code)
  PROVE  ServerInv'
<1> DEFINE line == Line("requestError", r, st, "error")
<1>1. Write(r, st, code, id[r]) /\ log' = log \cup {line}
  BY DEF Envelope
<1>2. id[r] \in Ids /\ log \subseteq Lines
  BY AtShape DEF ServerInv, TypeOK
<1>3. line \in Lines /\ line.msg = "requestError" /\ line.id = id[r] /\ line.status = st
  BY <1>2 DEF Line, Lines
<1> HIDE DEF line
<1>4. /\ log \subseteq log' /\ log' \subseteq Lines
      /\ \A l \in log' \ log : l.id = id[r] /\ l.status = st
      /\ \E l \in log' : l.msg = "requestError" /\ l.id = id[r] /\ l.status = st
  BY <1>1, <1>2, <1>3
<1>5. code \in Codes \cup {None} /\ id[r] \in Ids \cup {None}
  BY <1>2
<1>6. QED BY <1>1, <1>4, <1>5, WriteInv

\* In particular one to which no operation gave a code of its own.
LEMMA ErrorInv ==
  ASSUME ServerInv, NEW r \in Requests, At(r, "mux"), NEW st \in Nat, NEW code \in Codes,
         Error(r, st, code), code = CodeForStatus(st),
         st = 405 <=> path[r] = "wrongMethod", st = 404 <=> path[r] \in {"unknown", "unclean"}
  PROVE  ServerInv'
<1>1. Envelope(r, st, code) /\ chosen' = chosen
  BY DEF Error
<1>2. Fits(r, st, code)
  BY DEF Fits, CodeForStatus
<1>3. QED BY <1>1, <1>2, EnvelopeInv

-----------------------------------------------------------------------------
(* The layers.                                                             *)

\* A request arrives with an id of its own or the client's.
LEMMA AcceptInv ==
  ASSUME ServerInv, NEW r \in Requests, Accept(r)
  PROVE  ServerInv'
<1>1. PICK p \in Paths, s \in SentIds :
        /\ phase = "serving" /\ pc[r] = "idle"
        /\ path' = [path EXCEPT ![r] = p] /\ sent' = [sent EXCEPT ![r] = s]
        /\ id' = [id EXCEPT ![r] = IF s = None THEN r ELSE s]
        /\ pc' = [pc EXCEPT ![r] = "session"] /\ status' = [status EXCEPT ![r] = 200]
        /\ UNCHANGED <<serverVars, known, hung, reply, chosen, log>>
  BY DEF Accept
<1>2. /\ TypeOK' /\ pc'[r] = "session" /\ id'[r] = OwnId(r)'
  BY <1>1 DEF ServerInv, TypeOK, Ids, OwnId, serverVars
<1>3. Local(r)
  BY <1>1, <1>2 DEF Local, Kept, ServerInv, TypeOK
<1>4. reply'[r] = NoReply
  BY <1>1 DEF ServerInv, RequestInv, Unanswered
<1>5. OwnLines(r)'
  BY <1>1 DEF ServerInv, RequestInv, OwnLines
<1>6. RequestInv(r)' /\ Agree(r)'
  BY <1>2, <1>4, <1>5 DEF RequestInv, Unanswered, Answered, Agree
<1>7. ClosedLast'
  BY <1>1 DEF ServerInv, ClosedLast, serverVars
<1>8. QED BY <1>3, <1>6, <1>7, LocalStep

\* The session middleware hands r on unanswered.
LEMMA SessionInv ==
  ASSUME ServerInv, NEW r \in Requests, Session(r)
  PROVE  ServerInv'
<1>1. /\ pc[r] = "session" /\ pc' = [pc EXCEPT ![r] = "mux"] /\ known' \subseteq known \cup {r}
      /\ UNCHANGED <<serverVars, path, sent, id, hung, status, reply, chosen, log>>
      /\ RequestInv(r) /\ Agree(r) /\ ClosedLast' /\ id[r] \in Ids
  BY AtShape DEF Session
<1>2. TypeOK' /\ pc'[r] = "mux"
  BY <1>1 DEF ServerInv, TypeOK, serverVars
<1>3. Local(r)
  BY <1>1, <1>2 DEF Local, Kept, ServerInv, TypeOK
<1>4. RequestInv(r)' /\ Agree(r)'
  BY <1>1, <1>2 DEF RequestInv, Unanswered, Answered, OwnLines, OwnId, Agree, CodeForStatus
<1>5. QED BY <1>1, <1>3, <1>4, LocalStep

\* Each of the routes, operations and MuxErrors gives r an answer whose code agrees.
LEMMA HandleInv ==
  ASSUME ServerInv, NEW r \in Requests, Handle(r)
  PROVE  ServerInv'
<1>1. CASE Healthz(r)
  BY <1>1, SuccessInv DEF Healthz, Unrouted
<1>2. CASE Readyz(r)
  <2>1. At(r, "mux") /\ path[r] = "readyz" /\ (Success(r, 200) \/ Error(r, 503, "NOT_READY"))
    BY <1>2 DEF Readyz
  <2>2. "NOT_READY" \in Codes /\ CodeForStatus(503) = "NOT_READY"
    BY DEF Codes, CodeForStatus
  <2>3. QED BY <2>1, <2>2, SuccessInv, ErrorInv DEF Unrouted
<1>3. CASE Whoami(r)
  <2>1. At(r, "mux") /\ path[r] = "whoami" /\ (Success(r, 200) \/ Error(r, 401, "UNAUTHENTICATED"))
    BY <1>3 DEF Whoami
  <2>2. "UNAUTHENTICATED" \in Codes /\ CodeForStatus(401) = "UNAUTHENTICATED"
    BY DEF Codes, CodeForStatus
  <2>3. QED BY <2>1, <2>2, SuccessInv, ErrorInv DEF Unrouted
<1>4. CASE Operation(r)
  <2>1. At(r, "mux") /\ path[r] = "operation"
    BY <1>4 DEF Operation
  <2>2. ASSUME NEW st \in {400, 413, 415, 422}, HumaError(r, st) PROVE ServerInv'
    <3>1. CodeForStatus(st) \in Codes
      BY DEF CodeForStatus, Codes
    <3>2. QED BY <2>1, <2>2, <3>1, ErrorInv DEF HumaError
  <2>3. ASSUME NEW e \in OperationErrors, Envelope(r, e[1], e[2]), chosen' = chosen \cup {r}
        PROVE  ServerInv'
    <3>1. e[1] \in Nat /\ e[1] # 404 /\ e[1] # 405 /\ e[2] \in Codes
      BY DEF OperationErrors, Codes
    <3>2. Fits(r, e[1], e[2])
      BY <2>1, <2>3, <3>1 DEF Fits
    <3>3. QED BY <2>1, <2>3, <3>1, <3>2, EnvelopeInv
  <2>4. ASSUME Error(r, 503, "NOT_READY") PROVE ServerInv'
    <3>1. "NOT_READY" \in Codes /\ CodeForStatus(503) = "NOT_READY"
      BY DEF Codes, CodeForStatus
    <3>2. QED BY <2>1, <2>4, <3>1, ErrorInv
  <2>5. ASSUME NEW st \in {200, 201, 204}, Success(r, st) PROVE ServerInv'
    BY <2>1, <2>5, SuccessInv DEF Unrouted
  <2>6. QED BY <1>4, <2>2, <2>3, <2>4, <2>5 DEF Operation
<1>5. CASE MuxErrors(r)
  <2>1. /\ At(r, "mux") /\ path[r] \in Unrouted
        /\ \/ path[r] = "wrongMethod" /\ Error(r, 405, "METHOD_NOT_ALLOWED")
           \/ path[r] \in {"unknown", "unclean"} /\ Error(r, 404, "NOT_FOUND")
    BY <1>5 DEF MuxErrors, NoRoute, ProbeStatus, Redirected, Unrouted
  <2>2. /\ {"METHOD_NOT_ALLOWED", "NOT_FOUND"} \subseteq Codes
        /\ CodeForStatus(405) = "METHOD_NOT_ALLOWED" /\ CodeForStatus(404) = "NOT_FOUND"
    BY DEF Codes, CodeForStatus
  <2>3. QED BY <2>1, <2>2, ErrorInv
<1>6. CASE Redirect(r)
  BY <1>6, SuccessInv DEF Redirect, Unrouted
<1>7. QED BY <1>1, <1>2, <1>3, <1>4, <1>5, <1>6 DEF Handle

\* The completion line names the status that the client got.
LEMMA CompleteInv ==
  ASSUME ServerInv, NEW r \in Requests, Complete(r)
  PROVE  ServerInv'
<1> DEFINE line == Line("requestCompleted", r, status[r], Level(status[r]))
<1>1. /\ pc[r] = "logging" /\ pc' = [pc EXCEPT ![r] = "done"] /\ log' = log \cup {line}
      /\ UNCHANGED <<serverVars, path, sent, id, hung, known, status, reply, chosen>>
      /\ RequestInv(r) /\ Agree(r) /\ ClosedLast' /\ id[r] \in Ids /\ TypeOK
      /\ \A q \in Requests : id[r] = q => q = r /\ sent[r] = None
  BY AtShape DEF Complete, ServerInv
<1>2. line \in Lines /\ line.msg = "requestCompleted" /\ line.id = id[r] /\ line.status = status[r]
  BY <1>1 DEF Line, Lines, Level, TypeOK
<1> HIDE DEF line
<1>3. TypeOK' /\ pc'[r] = "done"
  BY <1>1, <1>2 DEF TypeOK, serverVars
<1>4. Local(r)
  BY <1>1, <1>2, <1>3 DEF Local, Kept, TypeOK
<1>5. Completed(r)'
  BY <1>1, <1>2 DEF Completed
<1>6. RequestInv(r)'
  <2>1. OwnLines(r)'
    BY <1>1, <1>2, <1>3 DEF RequestInv, OwnLines
  <2>2. Unanswered(r)' /\ Answered(r)'
    BY <1>1, <1>3, <1>5 DEF RequestInv, Unanswered, Answered, ErrorLogged
  <2>3. QED BY <1>1, <2>1, <2>2 DEF RequestInv, OwnId
<1>7. Agree(r)'
  BY <1>1 DEF Agree, CodeForStatus
<1>8. QED BY <1>1, <1>4, <1>6, <1>7, LocalStep

\* A hanging handler changes nothing but that.
LEMMA HangInv ==
  ASSUME ServerInv, NEW r \in Requests, Hang(r)
  PROVE  ServerInv'
<1>1. /\ hung' = hung \cup {r}
      /\ UNCHANGED <<serverVars, pc, path, sent, id, known, status, reply, chosen, log>>
  BY DEF Hang
<1>2. TypeOK' /\ ClosedLast'
  BY <1>1 DEF ServerInv, TypeOK, ClosedLast, Active, serverVars
<1>3. QED BY <1>1, <1>2, QuietStep

-----------------------------------------------------------------------------
(* The process.                                                            *)

\* Shutdown returns nil only when no request is left, and none comes after it.
LEMMA NextServerInv ==
  ASSUME ServerInv, [Next]_vars
  PROVE  ServerInv'
<1> DEFINE Process == Signal \/ ListenFails \/ BeginShutdown \/ ShutdownDone \/ ShutdownFails \/ Close
<1>1. CASE Process
  <2>1. UNCHANGED requestVars /\ TypeOK /\ ClosedLast
    BY <1>1 DEF Signal, ListenFails, BeginShutdown, ShutdownDone, ShutdownFails, Close, Exit,
       ServerInv
  <2>2. TypeOK'
    BY <1>1, <2>1 DEF Signal, ListenFails, BeginShutdown, ShutdownDone, ShutdownFails, Close, Exit,
       TypeOK, requestVars
  <2>3. Active' = Active
    BY <2>1 DEF Active, requestVars
  <2>4. ClosedLast'
    BY <1>1, <2>1, <2>3 DEF Signal, ListenFails, BeginShutdown, ShutdownDone, ShutdownFails, Close,
       Exit, Drained, Alive, ClosedLast
  <2>5. QED BY <2>1, <2>2, <2>4, QuietStep DEF requestVars
<1>2. CASE UNCHANGED vars
  <2>1. UNCHANGED requestVars /\ UNCHANGED serverVars /\ Active' = Active
    BY <1>2 DEF vars, Active, requestVars
  <2>2. TypeOK' /\ ClosedLast'
    BY <2>1 DEF ServerInv, TypeOK, ClosedLast, requestVars, serverVars
  <2>3. QED BY <2>1, <2>2, QuietStep DEF requestVars
<1>3. ASSUME NEW r \in Requests, Accept(r) \/ Serve(r) \/ Hang(r) PROVE ServerInv'
  BY <1>3, AcceptInv, SessionInv, HandleInv, CompleteInv, HangInv DEF Serve
<1>4. QED BY <1>1, <1>2, <1>3 DEF Next, Finished

\* The inductive invariant of the API process: an answer carries one id everywhere,
\* and nothing runs any more when main's deferred calls do (WithLogging, main).
THEOREM ServerInvHolds == Spec => []ServerInv
<1>1. QED BY InitServerInv, NextServerInv, PTL DEF Spec

\* The shape of every variable.
THEOREM ServerTypeCorrect == Spec => []TypeOK
<1>1. ServerInv => TypeOK
  BY DEF ServerInv
<1>2. QED BY <1>1, ServerInvHolds, PTL

\* An answer carries the id the client sent, or a new one, in its header, an error
\* in its body and its line too; every finished request has its completion line;
\* no line under a new id is of another request (requestid, WithLogging,
\* LogAndBuildError).
THEOREM TraceableHolds == Spec => []Traceable
<1>1. ServerInv => Traceable
  <2> SUFFICES ASSUME ServerInv, NEW r \in Requests
               PROVE  /\ reply[r] # NoReply => reply[r].header = OwnId(r)
                      /\ reply[r].status >= 400 =>
                           /\ reply[r].id = OwnId(r)
                           /\ \E l \in log : /\ l.msg = "requestError" /\ l.id = OwnId(r)
                                             /\ l.status = reply[r].status
                      /\ pc[r] = "done" => \E l \in log :
                           l.msg = "requestCompleted" /\ l.id = OwnId(r) /\ l.status = reply[r].status
                      /\ \A l \in log : l.id = r => sent[r] = None /\ l.status = reply[r].status
    BY DEF Traceable
  <2>1. /\ pc[r] \in {"idle", "session", "mux", "logging", "done"}
        /\ pc[r] # "idle" => id[r] = OwnId(r)
        /\ Unanswered(r) /\ Answered(r) /\ OwnLines(r)
    BY DEF ServerInv, TypeOK, RequestInv
  <2>2. CASE pc[r] \in {"idle", "session", "mux"}
    <3>1. reply[r] = NoReply /\ reply[r].status = 0 /\ pc[r] # "done"
      BY <2>1, <2>2 DEF Unanswered, NoReply
    <3>2. \A l \in log : l.id # r
      BY <2>1, <2>2 DEF OwnLines
    <3>3. QED BY <3>1, <3>2
  <2>3. CASE pc[r] \in {"logging", "done"}
    BY <2>1, <2>3 DEF Answered, ErrorLogged, Completed, OwnLines
  <2>4. QED BY <2>1, <2>2, <2>3
<1>2. QED BY <1>1, ServerInvHolds, PTL

\* Whichever layer answers, the code of an error that no operation chose is the
\* one of its status, and 405 and 404 tell whether the path has a route
\* (codeForStatus, WriteError, OverrideHumaErrors, MuxErrors).
THEOREM CodesAgreeHolds == Spec => []CodesAgree
<1>1. ServerInv => CodesAgree
  BY DEF ServerInv
<1>2. QED BY <1>1, ServerInvHolds, PTL

\* Exit code 0 and a closed pool mean that every accepted request was answered
\* and logged (RunUntilSignal, main).
THEOREM CleanExitHolds == Spec => []CleanExit
<1>1. ServerInv => CleanExit
  BY DEF ServerInv, ClosedLast, CleanExit, Active
<1>2. QED BY <1>1, ServerInvHolds, PTL
=============================================================================
