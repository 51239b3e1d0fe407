--------------------------- MODULE IngestionQueue ---------------------------
(***************************************************************************)
(* What the ingestion backend promises, without tables, copies or stages:  *)
(* a task is submitted once, handed to at most one worker in its life, and *)
(* ends once, with an outcome only the worker that holds it decides.  A    *)
(* worker may drop what it holds; nobody takes a dropped task up again.    *)
(***************************************************************************)
EXTENDS FiniteSets

CONSTANTS Tasks, Workers

VARIABLES
  job,   \* "none", "waiting", "taken", "succeeded" or "failed"
  held   \* the tasks in each worker's hands

vars == <<job, held>>

Init ==
  /\ job = [t \in Tasks |-> "none"]
  /\ held = [w \in Workers |-> {}]

Submit(t) ==
  /\ job[t] = "none"
  /\ job' = [job EXCEPT ![t] = "waiting"]
  /\ UNCHANGED held

\* A worker with empty hands takes some of the waiting tasks.
Take(w, S) ==
  /\ held[w] = {}
  /\ \A t \in S : job[t] = "waiting"
  /\ job' = [t \in Tasks |-> IF t \in S THEN "taken" ELSE job[t]]
  /\ held' = [held EXCEPT ![w] = S]

\* The outcome is published while the worker still holds the task ...
Finish(w, t, outcome) ==
  /\ t \in held[w] /\ job[t] = "taken"
  /\ job' = [job EXCEPT ![t] = outcome]
  /\ UNCHANGED held

\* ... and only a finished task is put down by a worker that goes on.
Release(w, t) ==
  /\ t \in held[w] /\ job[t] \in {"succeeded", "failed"}
  /\ held' = [held EXCEPT ![w] = @ \ {t}]
  /\ UNCHANGED job

Drop(w) ==
  /\ held' = [held EXCEPT ![w] = {}]
  /\ UNCHANGED job

Next ==
  \/ \E t \in Tasks : Submit(t)
  \/ \E w \in Workers :
       \/ \E S \in SUBSET Tasks : Take(w, S)
       \/ \E t \in Tasks, outcome \in {"succeeded", "failed"} : Finish(w, t, outcome)
       \/ \E t \in Tasks : Release(w, t)
       \/ Drop(w)

Spec == Init /\ [][Next]_vars
=============================================================================
