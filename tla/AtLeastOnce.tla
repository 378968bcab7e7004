----------------------------- MODULE AtLeastOnce -----------------------------
(***************************************************************************)
(* What the handlers and workers may rely on when they put a job on the    *)
(* queue (InsertTx in auth/register.go and forgot.go, the Work methods of  *)
(* auth/jobs.go and catalog/jobs.go): the job's work is done before it is  *)
(* completed, possibly several times and even after it has ended, and a    *)
(* job that has ended stays so.                                            *)
(***************************************************************************)
CONSTANT Jobs

VARIABLES stage,      \* stage[j]: "absent", "pending", "completed", "discarded"
          performed,  \* jobs whose work has been done, at least once
          skipped     \* jobs whose work was only logged: nothing is configured to do it

vars == <<stage, performed, skipped>>

Init == stage = [j \in Jobs |-> "absent"] /\ performed = {} /\ skipped = {}

Move(j, from, to) ==
  /\ stage[j] = from
  /\ stage' = [stage EXCEPT ![j] = to]
  /\ UNCHANGED <<performed, skipped>>

Insert(j) == Move(j, "absent", "pending")

Perform(j) ==
  /\ stage[j] # "absent"
  /\ performed' = performed \cup {j}
  /\ UNCHANGED <<stage, skipped>>

Skip(j) ==
  /\ stage[j] # "absent"
  /\ skipped' = skipped \cup {j}
  /\ UNCHANGED <<stage, performed>>

Complete(j) == j \in performed \cup skipped /\ Move(j, "pending", "completed")

\* After its last attempt; its work may have been done although no run said so.
Discard(j) == Move(j, "pending", "discarded")

\* A run that did its work and still failed, on its last attempt.
PerformAndDiscard(j) ==
  /\ stage[j] = "pending"
  /\ stage' = [stage EXCEPT ![j] = "discarded"]
  /\ performed' = performed \cup {j}
  /\ UNCHANGED skipped

Next == \E j \in Jobs : \/ Insert(j) \/ Perform(j) \/ Skip(j)
                        \/ Complete(j) \/ Discard(j) \/ PerformAndDiscard(j)

Spec == Init /\ [][Next]_vars
=============================================================================
