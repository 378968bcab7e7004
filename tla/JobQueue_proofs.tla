--------------------------- MODULE JobQueue_proofs ---------------------------
(* Proofs about JobQueue, for any jobs, processes, slots and attempts. *)
EXTENDS JobQueue, TLAPS

-----------------------------------------------------------------------------
(* The inductive invariant behind the safety properties. *)

\* What runs has been queued.
Queued == \A e \in runs : state[e[2]] # "absent"

\* A run that has returned nil has done or skipped its job.
WorkDone == \A e \in done : e[2] \in performed \cup skipped

\* A run of a job whose runs have all kept to their context is its only one, and
\* the row says so.
OneWorks == /\ \A e \in hung : e[2] \in late
            /\ \A e \in runs : e[2] \notin late =>
                 state[e[2]] = "running" /\ \A f \in runs : f[2] = e[2] => f = e

\* A row says "running" for a run that goes on or was cut off.
RunOrCut == \A j \in Jobs : state[j] = "running" => \E e \in runs \cup cut : e[2] = j

QueueInv == TypeOK /\ Queued /\ WorkDone /\ OneWorks /\ RunOrCut

\* The parts of a run.
LEMMA RunParts ==
  ASSUME NEW e \in Runs
  PROVE  e[1] \in Processes /\ e[2] \in Jobs /\ e[3] \in 1 .. MaxFetches
BY DEF Runs

\* A process, a job and an attempt make a run.
LEMMA RunOf ==
  ASSUME NEW p \in Processes, NEW j \in Jobs, NEW n \in 1 .. MaxFetches
  PROVE  <<p, j, n>> \in Runs /\ <<p, j, n>>[1] = p /\ <<p, j, n>>[2] = j
BY DEF Runs

\* Nothing is queued and nobody works.
LEMMA InitQueueInv == Init => QueueInv
<1> SUFFICES ASSUME Init PROVE QueueInv
  OBVIOUS
<1> USE QueueAssumption DEF Init, MaxFetches
<1>1. TypeOK
  BY DEF TypeOK
<1>2. Queued
  BY DEF Queued
<1>3. WorkDone /\ OneWorks
  BY DEF WorkDone, OneWorks
<1>4. RunOrCut
  BY DEF RunOrCut
<1>5. QED BY <1>1, <1>2, <1>3, <1>4 DEF QueueInv

\* The row's state after the result of a run is recorded.
LEMMA AfterFailureOut ==
  ASSUME NEW n
  PROVE  AfterFailure(n) \in {"retryable", "discarded"}
BY DEF AfterFailure

\* Recording a result takes the run away and moves a row that says "running".
LEMMA RecordInv ==
  ASSUME QueueInv, NEW e \in runs, NEW to, Record(e, to),
         to \in {"completed", "discarded", "retryable"},
         performed \subseteq performed', performed' \subseteq Jobs
  PROVE  QueueInv'
<1> USE DEF QueueInv, procVars, history
<1>1. e \in Runs /\ e[2] \in Jobs
  BY RunParts DEF TypeOK
<1>2. /\ UNCHANGED <<attempt, phase, equipped, expired, stops, skipped, cut, late>>
      /\ runs' = runs \ {e} /\ done' = done \ {e} /\ hung' = hung \ {e}
      /\ state' = IF state[e[2]] = "running" THEN [state EXCEPT ![e[2]] = to] ELSE state
  BY DEF Record
<1>3. TypeOK'
  BY <1>1, <1>2 DEF TypeOK, Final
<1>4. Queued'
  <2>1. \A f \in runs : state'[f[2]] # "absent"
    <3> SUFFICES ASSUME NEW f \in runs PROVE state'[f[2]] # "absent"
      OBVIOUS
    <3>1. f[2] \in Jobs
      BY RunParts DEF TypeOK
    <3>2. QED BY <1>1, <1>2, <3>1 DEF TypeOK, Queued
  <2>2. QED BY <1>2, <2>1 DEF Queued
<1>5. WorkDone'
  BY <1>2 DEF WorkDone
<1>6. OneWorks'
  <2>1. \A f \in hung' : f[2] \in late'
    BY <1>2 DEF OneWorks
  <2>2. ASSUME NEW f \in runs', f[2] \notin late'
        PROVE  state'[f[2]] = "running" /\ \A g \in runs' : g[2] = f[2] => g = f
    <3>1. f \in runs /\ f # e /\ f[2] \notin late
      BY <1>2, <2>2
    <3>2. f[2] # e[2]
      BY <3>1 DEF OneWorks
    <3>3. QED BY <1>1, <1>2, <3>1, <3>2 DEF OneWorks, TypeOK
  <2>3. QED BY <2>1, <2>2 DEF OneWorks
<1>7. RunOrCut'
  <2> SUFFICES ASSUME NEW j \in Jobs, state'[j] = "running"
               PROVE  \E f \in runs' \cup cut' : f[2] = j
    BY DEF RunOrCut
  <2>1. j # e[2] /\ state[j] = "running"
    BY <1>1, <1>2 DEF TypeOK
  <2>2. PICK f \in runs \cup cut : f[2] = j
    BY <2>1 DEF RunOrCut
  <2>3. QED BY <1>2, <2>1, <2>2
<1>8. QED BY <1>3, <1>4, <1>5, <1>6, <1>7

\* The end of a process takes its runs away.
LEMMA DownInv ==
  ASSUME QueueInv, NEW p \in Processes, Down(p), late' = late, stops' \in 0 .. MaxStops,
         cut \subseteq cut', cut' \subseteq cut \cup Of(p), Of(p) \subseteq cut'
  PROVE  QueueInv'
<1> USE DEF QueueInv, jobVars
<1>1. /\ UNCHANGED <<state, attempt, equipped, performed, skipped>>
      /\ runs' = runs \ Of(p) /\ done' = done \ Of(p) /\ hung' = hung \ Of(p)
      /\ phase' = [phase EXCEPT ![p] = "down"] /\ expired' = expired \ {p}
  BY DEF Down
<1>2. Of(p) \subseteq runs
  BY DEF Of
<1>3. TypeOK'
  BY <1>1, <1>2 DEF TypeOK
<1>4. Queued' /\ WorkDone'
  BY <1>1 DEF Queued, WorkDone
<1>5. OneWorks'
  BY <1>1 DEF OneWorks
<1>6. RunOrCut'
  BY <1>1 DEF RunOrCut
<1>7. QED BY <1>3, <1>4, <1>5, <1>6

\* One step per operation of the queue and the process.
LEMMA NextQueueInv ==
  ASSUME QueueInv, [Next]_vars
  PROVE  QueueInv'
<1> USE QueueAssumption DEF QueueInv, jobVars, procVars, runVars, history, Final
<1>1. ASSUME NEW j \in Jobs, Insert(j) PROVE QueueInv'
  <2>1. TypeOK'
    BY <1>1 DEF Insert, TypeOK
  <2>2. Queued' /\ WorkDone'
    BY <1>1, RunParts DEF Insert, Queued, WorkDone, TypeOK
  <2>3. OneWorks'
    BY <1>1, RunParts DEF Insert, OneWorks, TypeOK, Queued
  <2>4. RunOrCut'
    BY <1>1 DEF Insert, RunOrCut, TypeOK
  <2>5. QED BY <2>1, <2>2, <2>3, <2>4
<1>2. ASSUME NEW p \in Processes, NEW j \in Jobs, Fetch(p, j) PROVE QueueInv'
  <2> DEFINE e == <<p, j, attempt[j] + 1>>
  <2>1. /\ state[j] = "available" /\ attempt[j] + 1 \in 1 .. MaxFetches
        /\ state' = [state EXCEPT ![j] = "running"] /\ attempt' = [attempt EXCEPT ![j] = @ + 1]
        /\ runs' = runs \cup {e}
        /\ UNCHANGED <<procVars, done, hung, performed, skipped, history>>
    BY <1>2 DEF Fetch, TypeOK, MaxFetches
  <2>2. e \in Runs /\ e[2] = j
    BY <2>1, RunOf
  <2> HIDE DEF e
  <2>3. TypeOK'
    BY <2>1, <2>2 DEF TypeOK
  <2>4. Queued'
    <3>1. ASSUME NEW f \in runs' PROVE state'[f[2]] # "absent"
      BY <2>1, <2>2, RunParts DEF TypeOK, Queued
    <3>2. QED BY <3>1 DEF Queued
  <2>5. WorkDone'
    BY <2>1 DEF WorkDone
  <2>6. OneWorks'
    <3>1. ASSUME NEW f \in runs, f[2] \notin late PROVE f[2] # j
      BY <2>1, <3>1 DEF OneWorks
    <3>2. ASSUME NEW f \in runs', f[2] \notin late'
          PROVE  state'[f[2]] = "running" /\ \A g \in runs' : g[2] = f[2] => g = f
      <4>1. f[2] \in Jobs
        BY <2>1, <2>2, RunParts DEF TypeOK
      <4>2. QED BY <2>1, <2>2, <3>1, <3>2, <4>1 DEF OneWorks, TypeOK
    <3>3. QED BY <2>1, <3>2 DEF OneWorks
  <2>7. RunOrCut'
    BY <2>1, <2>2 DEF RunOrCut, TypeOK
  <2>8. QED BY <2>3, <2>4, <2>5, <2>6, <2>7
<1>3. ASSUME NEW e \in runs, Succeed(e) PROVE QueueInv'
  <2>1. e[1] \in Processes /\ e[2] \in Jobs
    BY RunParts DEF TypeOK
  <2>2. /\ UNCHANGED <<jobVars, procVars, runs, hung, history>> /\ done' = done \cup {e}
        /\ \/ performed' = performed \cup {e[2]} /\ skipped' = skipped
           \/ skipped' = skipped \cup {e[2]} /\ performed' = performed
    BY <1>3 DEF Succeed
  <2>3. TypeOK'
    BY <2>1, <2>2 DEF TypeOK
  <2>4. WorkDone'
    BY <2>2 DEF WorkDone
  <2>5. Queued' /\ OneWorks' /\ RunOrCut'
    BY <2>2 DEF Queued, OneWorks, RunOrCut
  <2>6. QED BY <2>3, <2>4, <2>5
<1>4. ASSUME NEW e \in runs, RecordSuccess(e) PROVE QueueInv'
  <2>1. Record(e, "completed") /\ performed' = performed
    BY <1>4 DEF RecordSuccess
  <2>2. performed \subseteq Jobs
    BY DEF TypeOK
  <2>3. QED BY <2>1, <2>2, RecordInv
<1>5. ASSUME NEW e \in runs, RecordFailure(e) PROVE QueueInv'
  <2>1. e[2] \in Jobs
    BY RunParts DEF TypeOK
  <2>2. Record(e, AfterFailure(e[3]))
    BY <1>5 DEF RecordFailure
  <2>3. performed \subseteq performed' /\ performed' \subseteq Jobs
    BY <1>5, <2>1 DEF RecordFailure, TypeOK
  <2>4. AfterFailure(e[3]) \in {"completed", "discarded", "retryable"}
    BY AfterFailureOut
  <2>5. QED BY <2>2, <2>3, <2>4, RecordInv
<1>6. ASSUME NEW e \in runs, Hang(e) PROVE QueueInv'
  <2>1. e[2] \in Jobs
    BY RunParts DEF TypeOK
  <2>2. /\ UNCHANGED <<jobVars, procVars, runs, done, performed, skipped, cut>>
        /\ hung' = hung \cup {e} /\ late' = late \cup {e[2]}
    BY <1>6 DEF Hang
  <2>3. TypeOK'
    BY <2>1, <2>2 DEF TypeOK
  <2>4. Queued' /\ WorkDone' /\ RunOrCut'
    BY <2>2 DEF Queued, WorkDone, RunOrCut
  <2>5. OneWorks'
    BY <2>2 DEF OneWorks
  <2>6. QED BY <2>3, <2>4, <2>5
<1>7. ASSUME NEW j \in Jobs, Promote(j) PROVE QueueInv'
  <2>1. /\ state[j] = "retryable" /\ state' = [state EXCEPT ![j] = "available"]
        /\ UNCHANGED <<attempt, procVars, runVars, performed, skipped, history>>
    BY <1>7 DEF Promote
  <2>2. TypeOK'
    BY <2>1 DEF TypeOK
  <2>3. Queued' /\ WorkDone'
    BY <2>1, RunParts DEF Queued, WorkDone, TypeOK
  <2>4. OneWorks'
    BY <2>1, RunParts DEF OneWorks, TypeOK
  <2>5. RunOrCut'
    BY <2>1 DEF RunOrCut, TypeOK
  <2>6. QED BY <2>2, <2>3, <2>4, <2>5
<1>8. ASSUME NEW j \in Jobs, Rescue(j) PROVE QueueInv'
  <2>1. /\ state[j] = "running" /\ state' = [state EXCEPT ![j] = AfterFailure(attempt[j])]
        /\ \A e \in runs : e[2] = j => e \in hung
        /\ UNCHANGED <<attempt, procVars, runVars, performed, skipped, history>>
    BY <1>8 DEF Rescue, Lost
  <2>2. AfterFailure(attempt[j]) \in {"retryable", "discarded"}
    BY AfterFailureOut
  <2>3. TypeOK'
    BY <2>1, <2>2 DEF TypeOK
  <2>4. Queued' /\ WorkDone'
    BY <2>1, <2>2, RunParts DEF Queued, WorkDone, TypeOK
  <2>5. OneWorks'
    BY <2>1, RunParts DEF OneWorks, TypeOK
  <2>6. RunOrCut'
    BY <2>1, <2>2 DEF RunOrCut, TypeOK
  <2>7. QED BY <2>3, <2>4, <2>5, <2>6
<1>9. ASSUME NEW p \in Processes, Start(p) \/ Shutdown(p) \/ Stop(p) \/ Expire(p)
      PROVE  QueueInv'
  <2>1. UNCHANGED <<jobVars, runVars, performed, skipped, history>>
    BY <1>9 DEF Start, Shutdown, Stop, Expire
  <2>2. TypeOK'
    <3>1. CASE Start(p)
      BY <3>1 DEF Start, TypeOK
    <3>2. CASE Shutdown(p)
      BY <3>2 DEF Shutdown, TypeOK
    <3>3. CASE Stop(p) \/ Expire(p)
      BY <3>3 DEF Stop, Expire, TypeOK
    <3>4. QED BY <1>9, <3>1, <3>2, <3>3
  <2>3. Queued' /\ WorkDone' /\ OneWorks' /\ RunOrCut'
    BY <2>1 DEF Queued, WorkDone, OneWorks, RunOrCut
  <2>4. QED BY <2>2, <2>3
<1>10. ASSUME NEW p \in Processes, Exit(p) PROVE QueueInv'
  <2>1. Down(p) /\ late' = late /\ stops' \in 0 .. MaxStops
    BY <1>10 DEF Exit, TypeOK
  <2>2. cut \subseteq cut' /\ cut' \subseteq cut \cup Of(p) /\ Of(p) \subseteq cut'
    BY <1>10 DEF Exit
  <2>3. QED BY <2>1, <2>2, DownInv
<1>11. ASSUME NEW p \in Processes, Crash(p) PROVE QueueInv'
  <2>1. Down(p) /\ late' = late /\ stops' \in 0 .. MaxStops
    BY <1>11 DEF Crash, TypeOK
  <2>2. cut \subseteq cut' /\ cut' \subseteq cut \cup Of(p) /\ Of(p) \subseteq cut'
    BY <1>11 DEF Crash
  <2>3. QED BY <2>1, <2>2, DownInv
<1>12. CASE UNCHANGED vars
  BY <1>12 DEF vars, TypeOK, Queued, WorkDone, OneWorks, RunOrCut
<1>13. QED
  BY <1>1, <1>2, <1>3, <1>4, <1>5, <1>6, <1>7, <1>8, <1>9, <1>10, <1>11, <1>12 DEF Next, RunStep

\* The queue's inductive invariant holds in every reachable state.
LEMMA QueueInvHolds == Spec => []QueueInv
<1>1. QueueInv /\ [Next]_vars => QueueInv'
  BY NextQueueInv
<1>2. QED
  BY <1>1, InitQueueInv, PTL DEF Spec

\* Every variable keeps its shape: what has a result is a run, and every run is an
\* attempt of a job in a process.
THEOREM QueueTypeCorrect == Spec => []TypeOK
BY QueueInvHolds, PTL DEF QueueInv

\* A job that the table calls running without a run was cut off by the end of a
\* process that died or stopped too late (cmd/worker/main.go).
THEOREM OrphansWereCutHolds == Spec => []OrphansWereCut
<1>1. QueueInv => OrphansWereCut
  BY DEF QueueInv, RunOrCut, OrphansWereCut
<1>2. QED
  BY <1>1, QueueInvHolds, PTL

\* Runs of one job overlap only after one of them has outlived its context
\* (smtp.SendMail in auth/email.go; catalog imports never do).
THEOREM OverlapOnlyAfterHangHolds == Spec => []OverlapOnlyAfterHang
<1>1. QueueInv => OverlapOnlyAfterHang
  BY DEF QueueInv, OneWorks, OverlapOnlyAfterHang
<1>2. QED
  BY <1>1, QueueInvHolds, PTL

-----------------------------------------------------------------------------
(* The queue implements AtLeastOnce.                                       *)

\* The promise's view of a row.
StageIn(st) == [j \in Jobs |-> IF st[j] \in {"absent"} \cup Final THEN st[j] ELSE "pending"]

\* How that view moves with one row: it keeps "pending" or goes on from it.
LEMMA StageMoves ==
  ASSUME TypeOK, NEW j \in Jobs, NEW to, state' = [state EXCEPT ![j] = to],
         state[j] \in {"available", "running", "retryable"}
  PROVE  /\ StageIn(state)[j] = "pending"
         /\ to \in Final => StageIn(state') = [StageIn(state) EXCEPT ![j] = to]
         /\ to \in {"available", "running", "retryable"} => StageIn(state') = StageIn(state)
BY DEF StageIn, Final, TypeOK

\* Recording a failure discards the job or leaves its stage alone.
LEMMA FailureMoves ==
  ASSUME TypeOK, NEW e \in runs, Record(e, AfterFailure(e[3]))
  PROVE  \/ StageIn(state') = StageIn(state)
         \/ /\ StageIn(state)[e[2]] = "pending"
            /\ StageIn(state') = [StageIn(state) EXCEPT ![e[2]] = "discarded"]
<1>1. e[2] \in Jobs
  BY RunParts DEF TypeOK
<1>2. AfterFailure(e[3]) \in {"retryable", "discarded"}
  BY AfterFailureOut
<1>3. CASE state[e[2]] = "running"
  BY <1>1, <1>2, <1>3, StageMoves DEF Record, Final
<1>4. CASE state[e[2]] # "running"
  BY <1>4 DEF Record, StageIn
<1>5. QED BY <1>3, <1>4

\* Every step of the queue is a step of its promise or a stutter.
LEMMA NextKeepsPromise ==
  ASSUME QueueInv, [Next]_vars
  PROVE  Outbox!Next \/ UNCHANGED Outbox!vars
<1> USE DEF QueueInv
<1> DEFINE view == StageIn(state)
<1>1. ASSUME NEW j \in Jobs, Insert(j) PROVE Outbox!Insert(j)
  BY <1>1 DEF Insert, TypeOK, Outbox!Insert, Outbox!Move, Final
<1>2. ASSUME UNCHANGED <<state, performed, skipped>> PROVE UNCHANGED Outbox!vars
  BY <1>2 DEF Outbox!vars
<1>3. ASSUME StageIn(state') = view, UNCHANGED <<performed, skipped>> PROVE UNCHANGED Outbox!vars
  BY <1>3 DEF Outbox!vars, StageIn
<1>4. ASSUME NEW p \in Processes, NEW j \in Jobs, Fetch(p, j) PROVE UNCHANGED Outbox!vars
  <2>1. StageIn(state') = view
    BY <1>4, StageMoves DEF Fetch
  <2>2. QED BY <2>1, <1>3, <1>4 DEF Fetch
<1>5. ASSUME NEW e \in runs, Succeed(e) PROVE Outbox!Perform(e[2]) \/ Outbox!Skip(e[2])
  <2>1. e[2] \in Jobs /\ state[e[2]] # "absent"
    BY RunParts DEF TypeOK, Queued
  <2>2. UNCHANGED state
    BY <1>5 DEF Succeed, jobVars
  <2>3. QED BY <1>5, <2>1, <2>2 DEF Succeed, Outbox!Perform, Outbox!Skip, Final
<1>6. ASSUME NEW e \in runs, RecordSuccess(e)
      PROVE  Outbox!Complete(e[2]) \/ UNCHANGED Outbox!vars
  <2>1. e[2] \in Jobs /\ e[2] \in performed \cup skipped
    BY <1>6, RunParts DEF RecordSuccess, TypeOK, WorkDone
  <2>2. UNCHANGED <<performed, skipped>>
    BY <1>6 DEF RecordSuccess, Record
  <2>3. CASE state[e[2]] = "running"
    <3>1. view[e[2]] = "pending" /\ StageIn(state') = [view EXCEPT ![e[2]] = "completed"]
      BY <1>6, <2>1, <2>3, StageMoves DEF RecordSuccess, Record, Final
    <3>2. QED BY <2>1, <2>2, <3>1 DEF Outbox!Complete, Outbox!Move, StageIn
  <2>4. CASE state[e[2]] # "running"
    BY <1>2, <1>6, <2>2, <2>4 DEF RecordSuccess, Record
  <2>5. QED BY <2>3, <2>4
<1>7. ASSUME NEW e \in runs, RecordFailure(e)
      PROVE  \/ Outbox!Perform(e[2]) \/ Outbox!Discard(e[2]) \/ Outbox!PerformAndDiscard(e[2])
             \/ UNCHANGED Outbox!vars
  <2>1. e[2] \in Jobs /\ state[e[2]] # "absent"
    BY RunParts DEF TypeOK, Queued
  <2>2. /\ skipped' = skipped
        /\ performed' = performed \/ performed' = performed \cup {e[2]}
    BY <1>7 DEF RecordFailure, Record
  <2>3. CASE StageIn(state') = view
    <3>1. view[e[2]] # "absent"
      BY <2>1 DEF StageIn
    <3>2. CASE performed' = performed
      BY <1>3, <2>2, <2>3, <3>2
    <3>3. CASE performed' = performed \cup {e[2]}
      BY <2>2, <2>3, <3>1, <3>3 DEF Outbox!Perform, StageIn
    <3>4. QED BY <2>2, <3>2, <3>3
  <2>4. CASE view[e[2]] = "pending" /\ StageIn(state') = [view EXCEPT ![e[2]] = "discarded"]
    BY <2>2, <2>4 DEF Outbox!Discard, Outbox!Move, Outbox!PerformAndDiscard, StageIn
  <2>5. QED BY <1>7, <2>3, <2>4, FailureMoves DEF RecordFailure
<1>8. ASSUME NEW j \in Jobs, Promote(j) PROVE UNCHANGED Outbox!vars
  <2>1. StageIn(state') = view
    BY <1>8, StageMoves DEF Promote
  <2>2. QED BY <2>1, <1>3, <1>8 DEF Promote
<1>9. ASSUME NEW j \in Jobs, Rescue(j) PROVE Outbox!Discard(j) \/ UNCHANGED Outbox!vars
  <2>1. /\ state[j] = "running" /\ state' = [state EXCEPT ![j] = AfterFailure(attempt[j])]
        /\ UNCHANGED <<performed, skipped>>
    BY <1>9 DEF Rescue
  <2>2. CASE AfterFailure(attempt[j]) = "retryable"
    BY <1>3, <2>1, <2>2, StageMoves
  <2>3. CASE AfterFailure(attempt[j]) = "discarded"
    <3>1. view[j] = "pending" /\ StageIn(state') = [view EXCEPT ![j] = "discarded"]
      BY <2>1, <2>3, StageMoves DEF Final
    <3>2. QED BY <2>1, <3>1 DEF Outbox!Discard, Outbox!Move, StageIn
  <2>4. QED BY <2>2, <2>3, AfterFailureOut
<1>10. ASSUME NEW e \in runs, Hang(e) PROVE UNCHANGED Outbox!vars
  BY <1>2, <1>10 DEF Hang, jobVars
<1>11. ASSUME NEW p \in Processes,
              Start(p) \/ Shutdown(p) \/ Stop(p) \/ Expire(p) \/ Exit(p) \/ Crash(p)
       PROVE  UNCHANGED Outbox!vars
  BY <1>2, <1>11 DEF Start, Shutdown, Stop, Expire, Exit, Crash, Down, jobVars
<1>12. CASE UNCHANGED vars
  BY <1>2, <1>12 DEF vars, jobVars
<1>13. \A e \in runs : e[2] \in Jobs
  BY RunParts DEF TypeOK
<1>14. QED
  BY <1>1, <1>4, <1>5, <1>6, <1>7, <1>8, <1>9, <1>10, <1>11, <1>12, <1>13
     DEF Next, RunStep, Outbox!Next

\* The queue keeps its promise: work is done (or logged) before a job is
\* completed, and a job that has ended never moves, whatever crashes, is rescued
\* or answers late (Work of auth/jobs.go and catalog/jobs.go relies on it).
THEOREM PromiseHolds == Spec => Promise
<1>1. Init => Outbox!Init
  BY DEF Init, Outbox!Init
<1>2. QueueInv /\ [Next]_vars => [Outbox!Next]_(Outbox!vars)
  BY NextKeepsPromise
<1>3. QED
  BY <1>1, <1>2, QueueInvHolds, PTL DEF Spec, Promise, Outbox!Spec
=============================================================================
