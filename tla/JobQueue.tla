------------------------------ MODULE JobQueue ------------------------------
(***************************************************************************)
(* The job queue: the worker process (backend/cmd/worker/main.go) with the *)
(* River client it configures (platform/jobs/jobs.go), and the runs of the *)
(* Work methods (auth/jobs.go, catalog/jobs.go).                           *)
(*                                                                         *)
(* River is a library: its fetching, retrying, rescuing and the states of  *)
(* migration 00002 are modelled from their use.  A run is <<p, j, n>>: the *)
(* n-th attempt of job j, in process p.                                    *)
(***************************************************************************)
EXTENDS Integers, FiniteSets

CONSTANTS Jobs,
          Processes,    \* worker processes
          MaxWorkers,   \* runs of one process at a time (QueueConfig.MaxWorkers)
          MaxAttempts,  \* attempts after which a failing job is discarded
          Hanging,      \* jobs whose work may hang: smtp.SendMail has no deadline
          Equipments,   \* may a process have what Work needs (SMTP_HOST, IGDB_CLIENT_ID)
          MaxStops      \* bound on the times a process goes down

ASSUME QueueAssumption == /\ MaxWorkers \in Nat \ {0} /\ MaxAttempts \in Nat \ {0}
                          /\ MaxStops \in Nat
                          /\ Hanging \subseteq Jobs /\ Equipments \subseteq BOOLEAN

VARIABLES
  state,      \* state[j]: the river_job row's state, "absent" before it is inserted
  attempt,    \* attempt[j]: its attempt column
  phase,      \* phase[p]: "down", "up", "closing" (server.Shutdown), "draining" (Stop)
  equipped,   \* equipped[p]: the mailer or the IGDB client exists
  expired,    \* processes whose shutdownCtx has expired
  runs,       \* the runs whose Work has been called and whose result is not recorded
  done,       \* those whose Work has returned nil
  hung,       \* those that have outlived their context
  performed,  \* jobs whose effect has happened: a mail accepted, a game committed
  skipped,    \* jobs whose Work only logged
  stops,      \* times a process went down
  \* History.
  cut,        \* runs cut off by the end of their process
  late        \* jobs of which some run has hung

jobVars  == <<state, attempt>>
procVars == <<phase, equipped, expired, stops>>
runVars  == <<runs, done, hung>>
history  == <<cut, late>>
vars     == <<jobVars, procVars, runVars, performed, skipped, history>>

\* Bound on the fetches of a job that is never reached: MaxAttempts of them, and one
\* for each earlier attempt whose failure comes late (see AfterFailure).
MaxFetches == 2 * MaxAttempts

Runs == Processes \X Jobs \X (1 .. MaxFetches)
Final == {"completed", "discarded"}

Of(p) == {e \in runs : e[1] = p}
Alive(p) == phase[p] \in {"up", "closing"}

Init ==
  /\ state = [j \in Jobs |-> "absent"] /\ attempt = [j \in Jobs |-> 0]
  /\ phase = [p \in Processes |-> "down"] /\ equipped = [p \in Processes |-> FALSE]
  /\ expired = {} /\ stops = 0
  /\ runs = {} /\ done = {} /\ hung = {} /\ cut = {} /\ late = {}
  /\ performed = {} /\ skipped = {}

-----------------------------------------------------------------------------
(* Jobs and their runs.                                                    *)

\* A handler's transaction that inserted the job commits.
Insert(j) ==
  /\ state[j] = "absent"
  /\ state' = [state EXCEPT ![j] = "available"]
  /\ UNCHANGED <<attempt, procVars, runVars, performed, skipped, history>>

\* The client works as long as Stop has not been called, so also while the
\* health server shuts down.
Fetch(p, j) ==
  /\ Alive(p) /\ state[j] = "available"
  /\ Cardinality(Of(p)) < MaxWorkers /\ attempt[j] < MaxFetches
  /\ state' = [state EXCEPT ![j] = "running"]
  /\ attempt' = [attempt EXCEPT ![j] = @ + 1]
  /\ runs' = runs \cup {<<p, j, attempt[j] + 1>>}
  /\ UNCHANGED <<procVars, done, hung, performed, skipped, history>>

\* The mail is accepted or the import committed, and Work will return nil;
\* without a mailer or IGDB client Work logs and returns nil.
Succeed(e) ==
  /\ e \in runs \ done
  /\ done' = done \cup {e}
  /\ IF equipped[e[1]] THEN performed' = performed \cup {e[2]} /\ UNCHANGED skipped
                       ELSE skipped' = skipped \cup {e[2]} /\ UNCHANGED performed
  /\ UNCHANGED <<jobVars, procVars, runs, hung, history>>

\* Mutant of Record: the row is changed whatever it says.
RecordAlways(e, to) ==
  /\ state' = [state EXCEPT ![e[2]] = to]
  /\ runs' = runs \ {e} /\ done' = done \ {e} /\ hung' = hung \ {e}
  /\ UNCHANGED <<attempt, procVars, skipped, history>>

\* The result of a run is recorded: River changes the row only while it says
\* "running", so the late result of a rescued run may be taken for that of the
\* run that followed it, but nothing moves a job that has ended.
Record(e, to) ==
  /\ state' = IF state[e[2]] = "running" THEN [state EXCEPT ![e[2]] = to] ELSE state
  /\ runs' = runs \ {e} /\ done' = done \ {e} /\ hung' = hung \ {e}
  /\ UNCHANGED <<attempt, procVars, skipped, history>>

RecordSuccess(e) == e \in done /\ Record(e, "completed") /\ UNCHANGED performed

\* Where the failure of the n-th attempt leaves the job.  River decides by the
\* attempt the run was fetched with, the rescuer by the one in the row: an earlier
\* attempt's late failure sends a job back to the queue that is in its last one.
AfterFailure(n) == IF n >= MaxAttempts THEN "discarded" ELSE "retryable"

\* Work returns an error, perhaps although the mail was accepted or the import
\* committed (the answer was lost).
RecordFailure(e) ==
  /\ e \in runs \ done
  /\ Record(e, AfterFailure(e[3]))
  /\ performed' \in {performed} \cup (IF equipped[e[1]] THEN {performed \cup {e[2]}} ELSE {})

\* An SMTP dialogue does not end: smtp.SendMail takes neither context nor deadline.
Hang(e) ==
  /\ e \in runs \ (done \cup hung) /\ e[2] \in Hanging
  /\ hung' = hung \cup {e}
  /\ late' = late \cup {e[2]}
  /\ UNCHANGED <<jobVars, procVars, runs, done, performed, skipped, cut>>

\* The scheduler of a living client: the pause before the next attempt is over.
Promote(j) ==
  /\ \E p \in Processes : Alive(p)
  /\ state[j] = "retryable"
  /\ state' = [state EXCEPT ![j] = "available"]
  /\ UNCHANGED <<attempt, procVars, runVars, performed, skipped, history>>

\* Mutant of Lost: only a run that hangs is found, not one that is gone.
LostIfHung(j) == \E e \in runs : e[2] = j /\ e \in hung

\* A job has been "running" for so long that its run must be lost (or hangs).
Lost(j) == \A e \in runs : e[2] = j => e \in hung

\* Mutant of Rescue: a run is given up while it works.
RescueEarly(j) ==
  /\ \E p \in Processes : Alive(p)
  /\ state[j] = "running"
  /\ state' = [state EXCEPT ![j] = AfterFailure(attempt[j])]
  /\ UNCHANGED <<attempt, procVars, runVars, performed, skipped, history>>

\* The rescuer of a living client.
Rescue(j) ==
  /\ \E p \in Processes : Alive(p)
  /\ state[j] = "running" /\ Lost(j)
  /\ state' = [state EXCEPT ![j] = AfterFailure(attempt[j])]
  /\ UNCHANGED <<attempt, procVars, runVars, performed, skipped, history>>

-----------------------------------------------------------------------------
(* The worker process: main().                                             *)

\* The environment is read, the pool and the clients are created and started.
Start(p) == \E eq \in Equipments :
  /\ phase[p] = "down"
  /\ phase' = [phase EXCEPT ![p] = "up"]
  /\ equipped' = [equipped EXCEPT ![p] = eq]
  /\ UNCHANGED <<jobVars, runVars, expired, stops, performed, skipped, history>>

\* SIGTERM arrives or the health listener fails: server.Shutdown is called.
Shutdown(p) ==
  /\ phase[p] = "up" /\ stops < MaxStops
  /\ phase' = [phase EXCEPT ![p] = "closing"]
  /\ stops' = stops + 1
  /\ UNCHANGED <<jobVars, runVars, equipped, expired, performed, skipped, history>>

\* Shutdown returns, at the latest when the deadline passes; Stop is called
\* with what is left of the same ten seconds.
Stop(p) ==
  /\ phase[p] = "closing"
  /\ phase' = [phase EXCEPT ![p] = "draining"]
  /\ UNCHANGED <<jobVars, runVars, equipped, expired, stops, performed, skipped, history>>

\* The ten seconds that Shutdown and Stop share are over.
Expire(p) ==
  /\ phase[p] \in {"closing", "draining"}
  /\ expired' = expired \cup {p}
  /\ UNCHANGED <<jobVars, runVars, phase, equipped, stops, performed, skipped, history>>

\* The process ends; its runs end with it.
Down(p) ==
  /\ phase' = [phase EXCEPT ![p] = "down"]
  /\ expired' = expired \ {p}
  /\ runs' = runs \ Of(p) /\ done' = done \ Of(p) /\ hung' = hung \ Of(p)
  /\ UNCHANGED <<jobVars, equipped, performed, skipped>>

\* Mutant of Exit: Stop is not waited for.
ExitAtOnce(p) == phase[p] = "draining" /\ Down(p) /\ UNCHANGED <<stops, history>>

\* main returns: Stop has waited for the runs of the process, or gives up when
\* the deadline has passed.  (The deferred pool.Close then waits as long as a run
\* holds a connection; such runs end before Exit, in the model by their own steps.)
Exit(p) ==
  /\ phase[p] = "draining"
  /\ Of(p) = {} \/ p \in expired
  /\ Down(p)
  /\ cut' = IF p \in expired THEN cut \cup Of(p) ELSE cut
  /\ UNCHANGED <<stops, late>>

\* The process dies.
Crash(p) ==
  /\ phase[p] # "down" /\ stops < MaxStops
  /\ Down(p)
  /\ cut' = cut \cup Of(p)
  /\ stops' = stops + 1
  /\ UNCHANGED late

-----------------------------------------------------------------------------
RunStep(e) == Succeed(e) \/ RecordSuccess(e) \/ RecordFailure(e)

Next ==
  \/ \E j \in Jobs : Insert(j) \/ Promote(j) \/ Rescue(j)
  \/ \E p \in Processes, j \in Jobs : Fetch(p, j)
  \/ \E e \in runs : RunStep(e) \/ Hang(e)
  \/ \E p \in Processes : \/ Start(p) \/ Shutdown(p) \/ Stop(p) \/ Expire(p)
                          \/ Exit(p) \/ Crash(p)

Spec == Init /\ [][Next]_vars

\* River's loops run, Work returns unless it hangs, the deadline passes, and
\* somebody starts the process again, killing one that does not end because
\* pool.Close waits for a connection (nothing in the repository does either).
FairSpec ==
  /\ Spec
  /\ \A j \in Jobs : WF_vars(Promote(j)) /\ WF_vars(Rescue(j))
  /\ \A j \in Jobs : WF_vars(\E p \in Processes : Fetch(p, j))
  /\ \A e \in Runs : WF_vars(e \notin hung /\ RunStep(e))
  /\ \A p \in Processes : /\ WF_vars(Start(p)) /\ WF_vars(Stop(p))
                          /\ WF_vars(Expire(p)) /\ WF_vars(Exit(p))

-----------------------------------------------------------------------------
\* The shape of every variable.
TypeOK ==
  /\ state \in [Jobs -> {"absent", "available", "running", "retryable"} \cup Final]
  /\ attempt \in [Jobs -> 0 .. MaxFetches]
  /\ phase \in [Processes -> {"down", "up", "closing", "draining"}]
  /\ equipped \in [Processes -> BOOLEAN] /\ expired \subseteq Processes
  /\ stops \in 0 .. MaxStops
  /\ runs \subseteq Runs /\ done \subseteq runs /\ hung \subseteq runs /\ cut \subseteq Runs
  /\ late \subseteq Jobs
  /\ performed \subseteq Jobs /\ skipped \subseteq Jobs

Outbox == INSTANCE AtLeastOnce WITH
  stage <- [j \in Jobs |-> IF state[j] \in {"absent"} \cup Final THEN state[j] ELSE "pending"]

\* The queue keeps its promise through crashes, rescues and late results: work
\* is done before a job is completed, and a job that has ended never moves.
Promise == Outbox!Spec

\* A job that the table calls running without a run of its own (so that it waits
\* an hour for the rescuer) was cut off: a stop within the deadline leaves none.
OrphansWereCut == \A j \in Jobs :
  state[j] = "running" /\ (\A e \in runs : e[2] = j => e \in hung)
    => \E e \in cut \cup hung : e[2] = j

\* One job is worked on by one run at a time, whichever processes take it and die:
\* only once some run of the job has outlived its context may two overlap (then
\* its late result may even put the row back while the next run works).
OverlapOnlyAfterHang == \A e, f \in runs : e[2] = f[2] /\ e # f => e[2] \in late

\* A job that is on the queue ends, unless hanging runs take every slot.
EveryJobEnds == \A j \in Jobs :
  state[j] = "available" ~> \/ state[j] \in Final
                            \/ \A p \in Processes : Cardinality(Of(p) \cap hung) = MaxWorkers
=============================================================================
