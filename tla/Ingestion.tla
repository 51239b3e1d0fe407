------------------------------ MODULE Ingestion ------------------------------
(***************************************************************************)
(* The ingestion pipeline of the Python backend: the task table            *)
(* (storage/ingestion_repository.py), the service that creates tasks       *)
(* (services/ingestion_service.py), and the worker                         *)
(* (worker/ingestion_worker.py), run both by the API process, on           *)
(* POST /internal/ingestion/worker/run, and by polling runner processes    *)
(* (worker_runner.py) that share the SQLite file.                          *)
(*                                                                         *)
(* Every write the worker makes is a commit of its own, so a step of this  *)
(* module is one commit (or one call to the vector store); processes       *)
(* interleave between steps.  The API handlers contain no await, so the    *)
(* API process runs one handler at a time, a whole worker run included.    *)
(*                                                                         *)
(* A definition marked [variant] is a faulty form of the one after it.     *)
(* Nothing uses it: it is there to show that a property notices the fault. *)
(***************************************************************************)
EXTENDS Integers, Sequences, FiniteSets

CONSTANTS
  Tasks,       \* task ids (uuid4: fresh ones are never reused)
  Api,         \* the uvicorn process
  Runners,     \* the processes running worker_runner.main
  Unreliable,  \* the processes that may die
  Plans,       \* what the create requests may ask for (bounds the inputs)
  Limits,      \* values of "limit" in a request to run the worker
  BatchSize,   \* PYTHON_INGESTION_WORKER_BATCH_SIZE, the runners' limit
  MaxTime,     \* bound of the clock createdAt is read from
  Backend,     \* PYTHON_INGESTION_BACKEND
  NoTask,      \* "no current task"
  NoProc       \* "claimed by nobody"

Procs == {Api} \cup Runners

\* What a request can ask for: embedding.enabled, indexing.enabled with the
\* store it names, and whether the simulated parser failure is on.  "mock" is
\* any store get_index_provider has no provider for.
PlanSet == [embedding : BOOLEAN, index : {"off", "mock", "qdrant"}, fail : BOOLEAN]

ASSUME ProcsAssumption == Api \notin Runners /\ NoProc \notin Procs /\ Unreliable \subseteq Procs
ASSUME TasksAssumption == NoTask \notin Tasks
ASSUME PlansAssumption == Plans \subseteq PlanSet
ASSUME LimitsAssumption == Limits \subseteq Int /\ BatchSize \in Nat \ {0} /\ MaxTime \in Nat
\* With the memory backend every process has a table of its own: a runner
\* then polls a table nobody fills, so only the API process is of interest.
ASSUME BackendAssumption ==
  /\ Backend \in {"sqlite", "memory"}
  /\ Backend = "memory" => Runners = {}

VARIABLES
  table,   \* the ingestion_tasks table
  points,  \* the tasks whose chunks are in the vector store
  pc,      \* what each process does next
  cur,     \* the task each process is inside _process_task with
  batch,   \* the claimed tasks a process has not finished ("candidates")
  copy,    \* the in-memory task each process writes the table from
  report   \* the lists a worker run builds up for its response

vars == <<table, points, pc, cur, batch, copy, report>>

-----------------------------------------------------------------------------
(* Rows *)

Statuses == {"absent", "pending", "running", "succeeded", "failed"}
Stages   == {"queued", "parser", "chunker", "embedding", "indexing", "completed", "failed"}
Events   == {"task-created", "queued", "worker-claimed", "parsing", "chunking",
             "embedding", "indexing", "completed", "failed"}

Row == [status : Statuses, currentStage : Stages, attemptCount : Nat,
        trace : Seq(Events), chunks : BOOLEAN, embedded : BOOLEAN,
        indexed : BOOLEAN, failureStage : {"none", "parser", "indexing"},
        createdAt : Nat, plan : PlanSet, claimedBy : Procs \cup {NoProc}]

NoPlan == [embedding |-> FALSE, index |-> "off", fail |-> FALSE]

Absent == [status |-> "absent", currentStage |-> "queued", attemptCount |-> 0,
           trace |-> <<>>, chunks |-> FALSE, embedded |-> FALSE,
           indexed |-> FALSE, failureStage |-> "none",
           createdAt |-> 0, plan |-> NoPlan, claimedBy |-> NoProc]

\* The row create_ingestion_task writes.
NewRow(plan, at) ==
  [Absent EXCEPT !.status = "pending", !.trace = <<"task-created", "queued">>,
                 !.createdAt = at, !.plan = plan]

Reports == [asked : SUBSET Tasks, processed : SUBSET Tasks, succeeded : SUBSET Tasks,
            failed : SUBSET Tasks, skipped : SUBSET Tasks]

NoReport == [asked |-> {}, processed |-> {}, succeeded |-> {}, failed |-> {}, skipped |-> {}]

PCs == {"down", "idle", "next", "parse", "decide", "embed", "index",
        "indexed", "unindexed", "complete", "resave"}

TypeOK ==
  /\ table \in [Tasks -> Row]
  /\ points \in SUBSET Tasks
  /\ pc \in [Procs -> PCs]
  /\ cur \in [Procs -> Tasks \cup {NoTask}]
  /\ batch \in [Procs -> SUBSET Tasks]
  /\ copy \in [Procs -> [Tasks -> Row]]
  /\ report \in [Procs -> Reports]

Init ==
  /\ table = [t \in Tasks |-> Absent]
  /\ points = {}
  /\ pc = [p \in Procs |-> "idle"]
  /\ cur = [p \in Procs |-> NoTask]
  /\ batch = [p \in Procs |-> {}]
  /\ copy = [p \in Procs |-> [t \in Tasks |-> Absent]]
  /\ report = [p \in Procs |-> NoReport]

-----------------------------------------------------------------------------
(* The service *)

Exists(t) == table[t].status # "absent"

\* POST /internal/ingestion/tasks.  The clock does not run backwards, but two
\* tasks may read the same time.
Create(t, plan, at) ==
  /\ pc[Api] = "idle"
  /\ ~Exists(t)
  /\ \A u \in Tasks : Exists(u) => table[u].createdAt <= at
  /\ table' = [table EXCEPT ![t] = NewRow(plan, at)]
  /\ UNCHANGED <<points, pc, cur, batch, copy, report>>

-----------------------------------------------------------------------------
(* The repository *)

\* [variant] The claim looks at the stage only, or at nothing.
PendingByStage(t) == Exists(t) /\ table[t].currentStage = "queued"
PendingAlways(t) == Exists(t)

Pending(t) == table[t].status = "pending" /\ table[t].currentStage = "queued"

\* An empty or missing task_ids is no filter.
Eligible(ids) == {t \in Tasks : Pending(t) /\ (ids # {} => t \in ids)}

\* [variant] The limit is off by one.
OldestButOne(S, limit) == {C \in SUBSET S : Cardinality(C) < limit}

\* What ORDER BY created_at ASC LIMIT max(limit, 0) may return: equal times
\* come in any order.
Oldest(S, limit) ==
  {C \in SUBSET S :
     /\ Cardinality(C) = IF limit < 0 THEN 0
                         ELSE IF limit < Cardinality(S) THEN limit ELSE Cardinality(S)
     /\ \A t \in C, u \in S \ C : table[t].createdAt <= table[u].createdAt}

\* [variant] The claim names the worker and leaves the status alone.
ClaimedStillPending(p, t) == [table[t] EXCEPT !.claimedBy = p]

Claimed(p, t) == [table[t] EXCEPT !.status = "running", !.claimedBy = p]

\* claim_pending and the first lines of run_ingestion_worker.  The SQLite claim
\* is one BEGIN IMMEDIATE transaction; the in-memory one has a single caller.
\* A run that finds nothing and was asked for nothing in particular returns at
\* once and changes nothing, so it is not a step.
Claim(p, limit, ids) ==
  /\ pc[p] = "idle"
  /\ \E C \in Oldest(Eligible(ids), limit) :
       /\ C # {} \/ ids # {}
       /\ table' = [t \in Tasks |-> IF t \in C THEN Claimed(p, t) ELSE table[t]]
       /\ copy' = [copy EXCEPT ![p] = [t \in Tasks |-> IF t \in C THEN Claimed(p, t) ELSE Absent]]
       /\ batch' = [batch EXCEPT ![p] = C]
       /\ report' = [report EXCEPT ![p] = [NoReport EXCEPT !.asked = ids, !.skipped = ids \ C]]
  /\ pc' = [pc EXCEPT ![p] = "next"]
  /\ UNCHANGED <<points, cur>>

\* upsert: the whole row is replaced by the writer's copy of it.
Upsert(t, row) == table' = [table EXCEPT ![t] = row]

-----------------------------------------------------------------------------
(* The worker *)

\* _update_task: the next copy of the task goes to memory and to the table.
UpdateTask(p, row, next) ==
  /\ Upsert(cur[p], row)
  /\ copy' = [copy EXCEPT ![p][cur[p]] = row]
  /\ pc' = [pc EXCEPT ![p] = next]
  /\ UNCHANGED <<points, cur, batch>>

Mine(p) == copy[p][cur[p]]

AtStage(row, stage, event) ==
  [row EXCEPT !.currentStage = stage, !.trace = Append(@, event)]

\* [variant] A failure forgets the status.
FailedStillRunning(row, stage) ==
  [AtStage(row, "failed", "failed") EXCEPT !.failureStage = stage]

Failed(row, stage) ==
  [AtStage(row, "failed", "failed") EXCEPT !.status = "failed", !.failureStage = stage]

\* What follows chunking, and what follows embedding.
IndexStep(plan) == IF plan.index # "off" THEN "index" ELSE "complete"
\* [variant] Chunks go to the index unembedded; a task without embedding is not indexed.
EmbedStepNever(plan) == IndexStep(plan)
EmbedStepOrDone(plan) == IF plan.embedding THEN "embed" ELSE "complete"

EmbedStep(plan) == IF plan.embedding THEN "embed" ELSE IndexStep(plan)

\* The loop of run_ingestion_worker takes the next candidate, oldest first,
\* and _process_task records the claim and the attempt.
Begin(p) ==
  /\ pc[p] = "next"
  /\ \E t \in batch[p] :
       /\ \A u \in batch[p] : copy[p][t].createdAt <= copy[p][u].createdAt
       /\ LET row == [AtStage(copy[p][t], "parser", "worker-claimed") EXCEPT !.attemptCount = @ + 1]
          IN  /\ Upsert(t, row)
              /\ copy' = [copy EXCEPT ![p][t] = row]
       /\ cur' = [cur EXCEPT ![p] = t]
       /\ report' = [report EXCEPT ![p].processed = @ \cup {t}]
  /\ pc' = [pc EXCEPT ![p] = "parse"]
  /\ UNCHANGED <<points, batch>>

StartParser(p) ==
  /\ pc[p] = "parse"
  /\ UpdateTask(p, AtStage(Mine(p), "parser", "parsing"), "decide")
  /\ UNCHANGED report

FailParser(p) ==
  /\ pc[p] = "decide" /\ Mine(p).plan.fail
  /\ UpdateTask(p, Failed(Mine(p), "parser"), "resave")
  /\ UNCHANGED report

Chunk(p) ==
  /\ pc[p] = "decide" /\ ~Mine(p).plan.fail
  /\ UpdateTask(p, [AtStage(Mine(p), "chunker", "chunking") EXCEPT !.chunks = TRUE],
                EmbedStep(Mine(p).plan))
  /\ UNCHANGED report

Embed(p) ==
  /\ pc[p] = "embed"
  /\ UpdateTask(p, [AtStage(Mine(p), "embedding", "embedding") EXCEPT !.embedded = TRUE],
                IndexStep(Mine(p).plan))
  /\ UNCHANGED report

\* [variant] The mock store writes to Qdrant too.
WriteIndexAlways(p) ==
  /\ pc[p] = "index"
  /\ pc' = [pc EXCEPT ![p] = "indexed"]
  /\ points' = points \cup {cur[p]}
  /\ UNCHANGED <<table, cur, batch, copy, report>>

\* _index_chunks.  The mock store records nothing.  A request to Qdrant may be
\* applied and answered, refused, or applied with its answer lost (a timeout).
WriteIndex(p) ==
  /\ pc[p] = "index"
  /\ \/ /\ Mine(p).plan.index = "mock"
        /\ pc' = [pc EXCEPT ![p] = "indexed"] /\ UNCHANGED points
     \/ /\ Mine(p).plan.index = "qdrant"
        /\ \/ /\ pc' = [pc EXCEPT ![p] = "indexed"]
              /\ points' = points \cup {cur[p]}
           \/ /\ pc' = [pc EXCEPT ![p] = "unindexed"]
              /\ points' \in {points, points \cup {cur[p]}}
  /\ UNCHANGED <<table, cur, batch, copy, report>>

RecordIndex(p) ==
  /\ pc[p] = "indexed"
  /\ UpdateTask(p, [AtStage(Mine(p), "indexing", "indexing") EXCEPT !.indexed = TRUE], "complete")
  /\ UNCHANGED report

FailIndex(p) ==
  /\ pc[p] = "unindexed"
  /\ UpdateTask(p, Failed(Mine(p), "indexing"), "resave")
  /\ UNCHANGED report

\* [variant] The last update forgets the status.
CompleteStillRunning(p) ==
  /\ pc[p] = "complete"
  /\ UpdateTask(p, AtStage(Mine(p), "completed", "completed"), "resave")
  /\ UNCHANGED report

Complete(p) ==
  /\ pc[p] = "complete"
  /\ UpdateTask(p, [AtStage(Mine(p), "completed", "completed") EXCEPT !.status = "succeeded"], "resave")
  /\ UNCHANGED report

\* The second upsert of the finished task, the return of _process_task and the
\* bookkeeping of the loop.
Resave(p) ==
  /\ pc[p] = "resave"
  /\ Upsert(cur[p], Mine(p))
  /\ report' = [report EXCEPT
       ![p].succeeded = IF Mine(p).status = "succeeded" THEN @ \cup {cur[p]} ELSE @,
       ![p].failed    = IF Mine(p).status = "failed" THEN @ \cup {cur[p]} ELSE @]
  /\ batch' = [batch EXCEPT ![p] = @ \ {cur[p]}]
  /\ copy' = [copy EXCEPT ![p][cur[p]] = Absent]
  /\ cur' = [cur EXCEPT ![p] = NoTask]
  /\ pc' = [pc EXCEPT ![p] = "next"]
  /\ UNCHANGED points

\* run_ingestion_worker returns its response.
Return(p) ==
  /\ pc[p] = "next" /\ batch[p] = {}
  /\ pc' = [pc EXCEPT ![p] = "idle"]
  /\ report' = [report EXCEPT ![p] = NoReport]
  /\ UNCHANGED <<table, points, cur, batch, copy>>

Step(p) ==
  \/ Begin(p) \/ StartParser(p) \/ FailParser(p) \/ Chunk(p) \/ Embed(p)
  \/ WriteIndex(p) \/ RecordIndex(p) \/ FailIndex(p) \/ Complete(p)
  \/ Resave(p) \/ Return(p)

-----------------------------------------------------------------------------
(* Failures *)

\* What a process that stops in the middle of a run forgets.
Forget(p) ==
  /\ batch' = [batch EXCEPT ![p] = {}]
  /\ copy' = [copy EXCEPT ![p] = [t \in Tasks |-> Absent]]
  /\ cur' = [cur EXCEPT ![p] = NoTask]
  /\ report' = [report EXCEPT ![p] = NoReport]
  /\ UNCHANGED points

\* An upsert raises ("database is locked", disk full): nothing is caught
\* outside _index_chunks, so the run is over.  FastAPI answers 500 and the API
\* process lives on; a runner ends with the exception.
Abort(p) ==
  /\ p \in Unreliable /\ pc[p] \notin {"down", "idle", "index"}
  /\ pc[p] = "next" => batch[p] # {}
  /\ pc' = [pc EXCEPT ![p] = IF p = Api THEN "idle" ELSE "down"]
  /\ Forget(p)
  /\ UNCHANGED table

\* The process is killed.  A table in memory goes with it.
Crash(p) ==
  /\ p \in Unreliable /\ pc[p] # "down"
  /\ pc' = [pc EXCEPT ![p] = "down"]
  /\ Forget(p)
  /\ IF Backend = "memory" THEN table' = [t \in Tasks |-> Absent] ELSE UNCHANGED table

Restart(p) ==
  /\ pc[p] = "down"
  /\ pc' = [pc EXCEPT ![p] = "idle"]
  /\ UNCHANGED <<table, points, cur, batch, copy, report>>

-----------------------------------------------------------------------------
\* The loop of worker_runner.main: the next poll that finds something.
Poll(p) == Claim(p, BatchSize, {})

Next ==
  \/ \E t \in Tasks, plan \in Plans, at \in 0..MaxTime : Create(t, plan, at)
  \/ \E limit \in Limits, ids \in SUBSET Tasks : Claim(Api, limit, ids)
  \/ \E p \in Runners : Poll(p)
  \/ \E p \in Procs : Step(p) \/ Abort(p) \/ Crash(p) \/ Restart(p)

Spec == Init /\ [][Next]_vars

\* A process that is alive goes on with the run it is in; a runner keeps
\* polling; whoever supervises it starts a dead process again (compose says
\* "restart: unless-stopped" for the API).  Nobody has to create tasks, to ask
\* the API for a run, or to fail.
Fairness ==
  /\ \A p \in Procs : WF_vars(Step(p)) /\ WF_vars(Restart(p))
  /\ \A p \in Runners : SF_vars(Poll(p))

FairSpec == Spec /\ Fairness

-----------------------------------------------------------------------------
(* Readers *)

\* iter_ingestion_corpus: the tasks whose chunks the BM25 and hybrid searches
\* of any process see.
Corpus == {t \in Tasks : table[t].status = "succeeded" /\ table[t].currentStage = "completed"}

-----------------------------------------------------------------------------
(* Correctness *)

\* The trace a task has when nothing went wrong.
FullTrace(plan) ==
  <<"task-created", "queued", "worker-claimed", "parsing", "chunking">>
    \o (IF plan.embedding THEN <<"embedding">> ELSE <<>>)
    \o (IF plan.index # "off" THEN <<"indexing">> ELSE <<>>)
    \o <<"completed">>

\* No task is in the hands of two worker runs: the claim of
\* SQLiteIngestionRepository.claim_pending hands each row out once.
SingleOwner ==
  \A p, q \in Procs : p # q => batch[p] \cap batch[q] = {}

\* _update_task writes back whole rows from memory.  That loses no update
\* only because the copy of a claimed task always equals its row.
CopyIsCurrent ==
  \A p \in Procs : \A t \in batch[p] : copy[p][t] = table[t]

\* A task the retrieval corpus shows has gone through every stage of its own
\* plan, each exactly once and in order, and its chunks are in the vector
\* store if the plan asked for that.
CorpusIsComplete ==
  \A t \in Corpus :
    LET row == table[t] IN
      /\ row.trace = FullTrace(row.plan)
      /\ row.chunks /\ row.embedded = row.plan.embedding
      /\ row.indexed = (row.plan.index # "off")
      /\ row.plan.index = "qdrant" => t \in points

\* The vector store holds nothing of a task that has not been chunked, and
\* nothing of one whose plan does not write there.
PointsHaveChunks ==
  \A t \in points : table[t].chunks /\ table[t].plan.index = "qdrant"

\* The response of a worker run is true of the table when it is sent, whatever
\* other processes did meanwhile, and accounts for every id it was asked for.
ReportIsTrue ==
  \A p \in Procs :
    LET r == report[p] IN
      /\ \A t \in r.succeeded : table[t].status = "succeeded"
      /\ \A t \in r.failed : table[t].status = "failed"
      /\ r.processed = r.succeeded \cup r.failed \cup ({cur[p]} \ {NoTask})
      /\ r.asked # {} => r.asked = r.skipped \cup r.processed \cup batch[p]
      /\ r.skipped \cap (r.processed \cup batch[p]) = {}

\* Once a task has succeeded or failed no process writes a different row over
\* it: neither the repeated upsert nor a late worker.
TerminalIsFinal ==
  [][\A t \in Tasks : table[t].status \in {"succeeded", "failed"} => table'[t] = table[t]]_vars

\* No write of a row drops what an earlier write recorded.
Extends(new, old) ==
  /\ Len(old.trace) <= Len(new.trace)
  /\ \A i \in 1..Len(old.trace) : new.trace[i] = old.trace[i]
  /\ new.createdAt = old.createdAt /\ new.plan = old.plan
  /\ old.attemptCount <= new.attemptCount
  /\ old.claimedBy # NoProc => new.claimedBy = old.claimedBy
  /\ (old.chunks => new.chunks) /\ (old.embedded => new.embedded) /\ (old.indexed => new.indexed)

HistoryGrows ==
  [][\A t \in Tasks : Exists(t) => Extends(table'[t], table[t])]_vars

\* A task claimed by a run that died: nothing ever claims it again.
Abandoned(t) ==
  /\ table[t].status = "running" /\ table[t].claimedBy \in Unreliable
  /\ \A p \in Procs : t \notin batch[p]

\* With a runner polling, no task waits for ever.
EventuallyPicked ==
  \A t \in Tasks : table[t].status = "pending" ~> table[t].status # "pending"

\* A claimed task is finished, unless the run that claimed it dies.
EventuallySettled ==
  \A t \in Tasks :
    table[t].status = "running" ~> table[t].status \in {"succeeded", "failed"} \/ Abandoned(t)

-----------------------------------------------------------------------------
(* The inductive invariant *)

Inside == PCs \ {"down", "idle", "next"}

\* Only a process inside a run holds tasks, and the current one is among them.
HoldsInRun ==
  \A p \in Procs :
    /\ pc[p] \in {"down", "idle"} => batch[p] = {}
    /\ pc[p] \in Inside => cur[p] \in batch[p]

\* What a process holds is running, but for the task it is about to put down.
HeldIsRunning ==
  \A p \in Procs : \A t \in batch[p] :
    copy[p][t].status \in IF pc[p] = "resave" /\ t = cur[p] THEN {"succeeded", "failed"}
                          ELSE {"running"}

UnclaimedHasNoOwner ==
  \A t \in Tasks : table[t].status \in {"absent", "pending"} => table[t].claimedBy = NoProc

\* SingleOwner and CopyIsCurrent are not inductive alone: that a claim takes
\* nothing another run holds needs the holder's copy to be running, and that a
\* write lands on the writer's own row needs the current task to be held.
IInv ==
  /\ TypeOK /\ SingleOwner /\ CopyIsCurrent
  /\ HoldsInRun /\ HeldIsRunning /\ UnclaimedHasNoOwner

-----------------------------------------------------------------------------
(* Refinement *)

JobOf(row) ==
  CASE row.status = "absent" -> "none"
    [] row.status = "pending" -> "waiting"
    [] row.status = "running" -> "taken"
    [] OTHER -> row.status

Queue == INSTANCE IngestionQueue
           WITH Workers <- Procs, job <- [t \in Tasks |-> JobOf(table[t])], held <- batch

\* The table shared by the API and the runners is a queue that hands every
\* task out at most once and finishes it at most once.
ImplementsQueue == Queue!Spec
=============================================================================
