-------------------------------- MODULE ReadModels --------------------------------
(***************************************************************************)
(* What the trace pages and the document pages show                        *)
(* (web/lib/read-model/admin-read-model-adapter.ts): runs summed up from   *)
(* the records of the platform state, and for each document of a knowledge *)
(* base the one of its ingestion tasks that stands for it.  The platform   *)
(* state changes by the repositories' append and upsert; the read models   *)
(* are computed from it anew for every request.                            *)
(*                                                                         *)
(* A definition marked [variant] is a faulty form of the one after it.     *)
(* Nothing uses it: it is there to show that a property notices the fault. *)
(***************************************************************************)
EXTENDS Integers, FiniteSets, Sequences, Selections

CONSTANTS
  ReadModelKinds,  \* subset of {"traces", "documents"}: which of the two is asked for
  Runs,            \* runId
  Recorded,        \* the statuses the records of a run have
  Documents,       \* documentId
  Times,           \* what is told apart of the times in the state
  MaxRecords       \* bounds the records, and the tasks

VARIABLES
  readKind,  \* the read model asked for
  traces,    \* PlatformState.traces, the newest first
  tasks      \* PlatformState.ingestionTasks, the newest first

readModelVars == <<readKind, traces, tasks>>

statusRank == [failed |-> 5, cancelled |-> 4, running |-> 3, pending |-> 2, succeeded |-> 1]

\* The times are compared as numbers; a record has one of the known statuses.
ASSUME ReadModelAssumption ==
  Times \subseteq Nat /\ MaxRecords \in Nat /\ Recorded \subseteq DOMAIN statusRank

TraceRecord == [run : Runs, status : DOMAIN statusRank, start : Times, finish : Times]
TaskStatusOf == {"pending", "succeeded", "failed"}
IngestionTask == [id : 1..MaxRecords, doc : Documents, status : TaskStatusOf, created : Times, updated : Times]

ReadModelTypeOK ==
  /\ readKind \in ReadModelKinds
  /\ traces \in Seq(TraceRecord)
  /\ tasks \in Seq(IngestionTask)

ReadModelInit == readKind \in ReadModelKinds /\ traces = <<>> /\ tasks = <<>>

-----------------------------------------------------------------------------
(* The platform state *)

AppendTrace ==
  /\ readKind = "traces" /\ Len(traces) < MaxRecords
  /\ \E t \in [run : Runs, status : Recorded, start : Times, finish : Times] :
       t.start <= t.finish /\ traces' = <<t>> \o traces
  /\ UNCHANGED <<readKind, tasks>>

\* The stages a Python answer lists, each as a record of the run of its trace; what has none
\* of the known statuses is passed over.
appendPythonTraceStages ==
  /\ readKind = "traces"
  /\ \E run \in Runs, n \in 1..(MaxRecords - Len(traces)) :
       \E stages \in [1..n -> [status : Recorded \cup {"skipped"}, start : Times, finish : Times]] :
         LET known == SelectIn(stages, {stage \in Elems(stages) : stage.status \in DOMAIN statusRank})
             Kept(stage) == [run |-> run, status |-> stage.status, start |-> stage.start, finish |-> stage.finish]
         IN /\ \A i \in 1..n : stages[i].start <= stages[i].finish
            /\ traces' = [i \in 1..Len(known) |-> Kept(known[Len(known) + 1 - i])] \o traces
  /\ UNCHANGED <<readKind, tasks>>

\* A task that is new to the state goes to the front of the list, ...
AddTask ==
  /\ readKind = "documents" /\ Len(tasks) < MaxRecords
  /\ \E t \in [id : {Len(tasks) + 1}, doc : Documents, status : TaskStatusOf, created : Times, updated : Times] :
       t.created <= t.updated /\ tasks' = <<t>> \o tasks
  /\ UNCHANGED <<readKind, traces>>

\* ... one that is in it stays where it is.
UpdateTask(i) ==
  /\ readKind = "documents"
  /\ \E status \in TaskStatusOf, time \in Times :
       /\ time >= tasks[i].updated
       /\ tasks' = [tasks EXCEPT ![i].status = status, ![i].updated = time]
  /\ UNCHANGED <<readKind, traces>>

ReadModelNext == AppendTrace \/ appendPythonTraceStages \/ AddTask \/ \E i \in DOMAIN tasks : UpdateTask(i)

ReadModelSpec == ReadModelInit /\ [][ReadModelNext]_readModelVars

-----------------------------------------------------------------------------
(* The traces *)

\* The comparator of the repositories' lists never answers 0: of two elements with one time
\* the one further on is listed first.
listTraces == Sorted(traces, [i \in DOMAIN traces |-> <<-traces[i].start, -i>>])
listTasks == Sorted(tasks, [i \in DOMAIN tasks |-> <<-tasks[i].created, -i>>])

NewRun(t) == [run |-> t.run, status |-> "succeeded", start |-> t.start, finish |-> t.finish, nodes |-> <<>>]

WithNode(r, t) ==
  [r EXCEPT !.nodes = Append(@, t),
            !.start = IF t.start < @ THEN t.start ELSE @,
            !.finish = IF t.finish > @ THEN t.finish ELSE @,
            !.status = IF statusRank[t.status] > statusRank[@] THEN t.status ELSE @]

\* The places of a list at which something is named for the first time.
FirstNamed(names) == {n \in DOMAIN names : \A m \in 1..(n - 1) : names[m] # names[n]}

\* SumOf(nodes)[n] is the run after its first n records.
SumOf(nodes) ==
  LET sum[n \in 0..Len(nodes)] == IF n = 0 THEN NewRun(nodes[1]) ELSE WithNode(sum[n - 1], nodes[n]) IN sum

RunOf(id) ==
  LET nodes == SelectIn(listTraces, {t \in Elems(traces) : t.run = id})
      run == SumOf(nodes)[Len(nodes)]
  IN [run EXCEPT !.nodes = Sorted(run.nodes, [i \in DOMAIN run.nodes |-> <<run.nodes[i].start, i>>])]

\* The runs in the order in which the list of the records first names them, then sorted.
buildTraceReadModel ==
  LET list == listTraces
      runIds == FirstNamed([n \in DOMAIN list |-> list[n].run])
      runs == [n \in runIds |-> RunOf(list[n].run)]
      order == Ordered(runIds, [n \in runIds |-> <<-runs[n].start, n>>])
  IN [k \in DOMAIN order |-> runs[order[k]]]

-----------------------------------------------------------------------------
(* The documents *)

\* [variant] The task that changed last stands for its document.
LatestFirst(t) == <<0, -t.updated, -t.created>>

\* A task that succeeded is ahead of one that did not, then the one that changed last.
compareTaskPriority(t) == <<IF t.status = "succeeded" THEN 0 ELSE 1, -t.updated, -t.created>>

TasksOf(doc) == SelectIn(listTasks, {t \in Elems(tasks) : t.doc = doc})

pickDocumentTask(ts) == Sorted(ts, [i \in DOMAIN ts |-> compareTaskPriority(ts[i]) \o <<i>>])[1]

\* The page of a knowledge base, its documents in the order in which its tasks first name them,
\* then sorted, ...
buildDocumentsReadModel ==
  LET list == listTasks
      documentIds == FirstNamed([n \in DOMAIN list |-> list[n].doc])
      shown == [n \in documentIds |-> pickDocumentTask(TasksOf(list[n].doc))]
      order == Ordered(documentIds, [n \in documentIds |-> <<-shown[n].updated, n>>])
  IN [k \in DOMAIN order |-> shown[order[k]]]

\* ... and the one of a document.
buildDocumentDetail(doc) == pickDocumentTask(TasksOf(doc))

-----------------------------------------------------------------------------
(* Properties *)

\* A run is as bad as the worst of its records and spans all of them; every record is a node
\* of exactly one run, the runs are listed from the one that began last, their nodes from the
\* one that began first.
RunsAreSummed ==
  LET items == buildTraceReadModel
      RecordsOf(r) == SelectIn(traces, {t \in Elems(traces) : t.run = r.run})
  IN /\ {r.run : r \in Elems(items)} = {t.run : t \in Elems(traces)}
     /\ \A i, j \in DOMAIN items : items[i].run = items[j].run => i = j
     /\ \A r \in Elems(items) :
          /\ Len(r.nodes) = Len(RecordsOf(r)) /\ Elems(r.nodes) = Elems(RecordsOf(r))
          /\ \A t \in Elems(r.nodes) :
               r.start <= t.start /\ t.finish <= r.finish /\ statusRank[t.status] <= statusRank[r.status]
          /\ \E t \in Elems(r.nodes) : t.status = r.status
          /\ \E t \in Elems(r.nodes) : t.finish = r.finish
          /\ r.nodes[1].start = r.start
          /\ \A i, j \in DOMAIN r.nodes : i < j => r.nodes[i].start <= r.nodes[j].start
     /\ \A i, j \in DOMAIN items : i < j => items[i].start >= items[j].start

\* A document that was ever ingested is shown as its last success, whatever a later attempt
\* came to; only one that never was is shown as its last attempt.  The list has every
\* document once, as the page of the document has it.
DocumentsAreLatestSuccess ==
  LET items == buildDocumentsReadModel
      Of(doc) == {t \in Elems(tasks) : t.doc = doc}
      Best(doc) == LET succeeded == {t \in Of(doc) : t.status = "succeeded"}
                   IN IF succeeded = {} THEN Of(doc) ELSE succeeded
  IN /\ {t.doc : t \in Elems(items)} = {t.doc : t \in Elems(tasks)}
     /\ \A i, j \in DOMAIN items : items[i].doc = items[j].doc => i = j
     /\ \A t \in Elems(items) :
          /\ t = buildDocumentDetail(t.doc)
          /\ t \in Best(t.doc) /\ \A u \in Best(t.doc) : u.updated <= t.updated
     /\ \A i, j \in DOMAIN items : i < j => items[i].updated >= items[j].updated

\* Both: what a read model says of the records and the tasks is true of them.
ReadModelsAreTrue ==
  /\ readKind = "traces" => RunsAreSummed
  /\ readKind = "documents" => DocumentsAreLatestSuccess
=============================================================================
