--------------------------- MODULE IngestionProofs ---------------------------
(***************************************************************************)
(* Theorems about Ingestion, for any tasks, runners, plans, limits and     *)
(* failures: its inductive invariant, who owns a row, what is lost, and    *)
(* what the readers of the pipeline may rely on, the response of a worker  *)
(* run, the corpus and the vector store.                                   *)
(***************************************************************************)
EXTENDS Ingestion, SequenceLemmas, TLAPS

USE ProcsAssumption, TasksAssumption, PlansAssumption

-----------------------------------------------------------------------------
(* Rows *)

\* The row of a task nobody has created is a row.
LEMMA AbsentType ==
  /\ Absent \in Row
  /\ Absent.status = "absent"
  /\ Absent.claimedBy = NoProc
<1>1. <<>> \in Seq(Events)
  OBVIOUS
<1>2. NoPlan \in PlanSet
  BY DEF NoPlan, PlanSet
<1>3. "absent" \in Statuses /\ "queued" \in Stages
  BY DEF Statuses, Stages
<1>. QED  BY <1>1, <1>2, <1>3 DEF Absent, Row

\* The row create_ingestion_task writes is a pending row without an owner.
LEMMA NewRowType ==
  ASSUME NEW plan \in PlanSet, NEW at \in Nat
  PROVE  /\ NewRow(plan, at) \in Row
         /\ NewRow(plan, at).status = "pending"
         /\ NewRow(plan, at).claimedBy = NoProc
<1>. DEFINE first == <<"task-created", "queued">>
<1>1. first \in Seq(Events)
  BY DEF Events
<1>2. "pending" \in Statuses
  BY DEF Statuses
<1>3. NewRow(plan, at) = [Absent EXCEPT !.status = "pending", !.trace = first,
                                        !.createdAt = at, !.plan = plan]
  BY DEF NewRow
<1>. HIDE DEF first
<1>. QED  BY <1>1, <1>2, <1>3, AbsentType DEF Row

\* Moving a row to a stage keeps its type and everything but stage and trace, which grows.
LEMMA AtStageType ==
  ASSUME NEW row \in Row, NEW stage \in Stages, NEW event \in Events
  PROVE  /\ AtStage(row, stage, event) \in Row
         /\ AtStage(row, stage, event).status = row.status
         /\ Extends(AtStage(row, stage, event), row)
         /\ AtStage(row, stage, event).claimedBy = row.claimedBy
<1>. DEFINE longer == Append(row.trace, event)
<1>1. row.trace \in Seq(Events)
  BY DEF Row
<1>2. /\ longer \in Seq(Events)
      /\ Len(row.trace) <= Len(longer)
      /\ \A i \in 1..Len(row.trace) : longer[i] = row.trace[i]
  BY <1>1
<1>3. AtStage(row, stage, event) = [row EXCEPT !.currentStage = stage, !.trace = longer]
  BY DEF AtStage
<1>. HIDE DEF longer
<1>4. AtStage(row, stage, event) \in Row
  BY <1>2, <1>3 DEF Row
<1>5. /\ AtStage(row, stage, event).status = row.status
      /\ AtStage(row, stage, event).claimedBy = row.claimedBy
  BY <1>3 DEF Row
<1>6. Extends(AtStage(row, stage, event), row)
  BY <1>2, <1>3 DEF Row, Extends
<1>. QED  BY <1>4, <1>5, <1>6

\* Failing a row keeps its type, its owner and what it recorded.
LEMMA FailedType ==
  ASSUME NEW row \in Row, NEW stage \in {"parser", "indexing"}
  PROVE  /\ Failed(row, stage) \in Row
         /\ Failed(row, stage).status = "failed"
         /\ Extends(Failed(row, stage), row)
         /\ Failed(row, stage).claimedBy = row.claimedBy
<1>1. "failed" \in Stages /\ "failed" \in Events /\ "failed" \in Statuses
  BY DEF Stages, Events, Statuses
<1>. DEFINE mid == AtStage(row, "failed", "failed")
<1>2. mid \in Row /\ Extends(mid, row) /\ mid.claimedBy = row.claimedBy
  BY <1>1, AtStageType
<1>. HIDE DEF mid
<1>3. [mid EXCEPT !.status = "failed", !.failureStage = stage] \in Row
  BY <1>1, <1>2 DEF Row
<1>4. Failed(row, stage) = [mid EXCEPT !.status = "failed", !.failureStage = stage]
  BY DEF Failed, mid
<1>. QED  BY <1>2, <1>3, <1>4 DEF Extends, Row

\* A row left alone extends itself.
LEMMA ExtendsItself ==
  ASSUME NEW row \in Row
  PROVE  Extends(row, row)
BY DEF Extends, Row

-----------------------------------------------------------------------------
(* The inductive invariant *)

\* The inductive invariant holds at the start.
LEMMA InitIInv == Init => IInv
<1>. SUFFICES ASSUME Init PROVE IInv
  OBVIOUS
<1>1. TypeOK
  BY AbsentType DEF Init, TypeOK, PCs, NoReport, Reports
<1>2. SingleOwner /\ CopyIsCurrent /\ HoldsInRun /\ HeldIsRunning
  BY DEF Init, SingleOwner, CopyIsCurrent, HoldsInRun, HeldIsRunning, Inside
<1>3. UnclaimedHasNoOwner
  BY AbsentType DEF Init, UnclaimedHasNoOwner
<1>. QED  BY <1>1, <1>2, <1>3 DEF IInv

\* The current task of a process inside a run, and its copy.
LEMMA CurrentTask ==
  ASSUME IInv, NEW p \in Procs, pc[p] \in Inside
  PROVE  /\ cur[p] \in Tasks
         /\ cur[p] \in batch[p]
         /\ Mine(p) = table[cur[p]]
         /\ Mine(p) \in Row
         /\ pc[p] # "resave" => Mine(p).status = "running"
         /\ pc[p] = "resave" => Mine(p).status \in {"succeeded", "failed"}
BY DEF IInv, TypeOK, CopyIsCurrent, HoldsInRun, HeldIsRunning, Mine, Inside

\* Writing a new version of the current task, as every stage does.
LEMMA UpdateKeeps ==
  ASSUME IInv, NEW p \in Procs, NEW row \in Row, NEW next \in Inside,
         UpdateTask(p, row, next), UNCHANGED report,
         pc[p] \in Inside \ {"resave"},
         IF next = "resave" THEN row.status \in {"succeeded", "failed"}
                            ELSE row.status = "running"
  PROVE  IInv'
<1>1. cur[p] \in Tasks /\ cur[p] \in batch[p]
  BY CurrentTask
<1>. USE DEF UpdateTask, Upsert
<1>2. TypeOK'
  BY <1>1 DEF IInv, TypeOK, Inside
<1>3. SingleOwner'
  BY DEF IInv, SingleOwner
<1>4. CopyIsCurrent'
  BY <1>1 DEF IInv, TypeOK, CopyIsCurrent, SingleOwner
<1>5. HoldsInRun'
  BY <1>1 DEF IInv, TypeOK, HoldsInRun, Inside
<1>6. HeldIsRunning'
  BY <1>1 DEF IInv, TypeOK, HeldIsRunning, Inside
<1>7. UnclaimedHasNoOwner'
  BY <1>1 DEF IInv, TypeOK, UnclaimedHasNoOwner
<1>. QED  BY <1>2, <1>3, <1>4, <1>5, <1>6, <1>7 DEF IInv

\* Losing everything a process holds, as it stops.
LEMMA ForgetKeeps ==
  ASSUME IInv, NEW p \in Procs, Forget(p), UNCHANGED table,
         NEW next \in {"idle", "down"}, pc' = [pc EXCEPT ![p] = next]
  PROVE  IInv'
<1>. USE DEF Forget
<1>1. TypeOK'
  BY AbsentType DEF IInv, TypeOK, PCs, NoReport, Reports
<1>2. SingleOwner' /\ CopyIsCurrent'
  BY DEF IInv, TypeOK, SingleOwner, CopyIsCurrent
<1>3. HoldsInRun' /\ HeldIsRunning' /\ UnclaimedHasNoOwner'
  BY DEF IInv, TypeOK, HoldsInRun, HeldIsRunning, UnclaimedHasNoOwner, Inside
<1>. QED  BY <1>1, <1>2, <1>3 DEF IInv

\* A new pending row disturbs nothing any process holds.
LEMMA CreateKeeps ==
  ASSUME IInv, NEW t \in Tasks, NEW plan \in PlanSet, NEW at \in Nat, Create(t, plan, at)
  PROVE  IInv'
<1>. USE DEF Create, Exists
<1>1. TypeOK'
  BY NewRowType DEF IInv, TypeOK
<1>2. SingleOwner' /\ HoldsInRun' /\ HeldIsRunning'
  BY DEF IInv, SingleOwner, HoldsInRun, HeldIsRunning
<1>3. CopyIsCurrent'
  <2>. SUFFICES ASSUME NEW p \in Procs, NEW u \in batch[p]
                PROVE  copy[p][u] = table'[u]
    BY DEF CopyIsCurrent
  <2>1. copy[p][u] = table[u] /\ copy[p][u].status # "absent"
    BY DEF IInv, CopyIsCurrent, HeldIsRunning
  <2>. QED  BY <2>1 DEF IInv, TypeOK
<1>4. UnclaimedHasNoOwner'
  BY NewRowType DEF IInv, TypeOK, UnclaimedHasNoOwner
<1>. QED  BY <1>1, <1>2, <1>3, <1>4 DEF IInv

\* A claimed row is running and keeps its history.
LEMMA ClaimedType ==
  ASSUME NEW p \in Procs, NEW t \in Tasks, table[t] \in Row
  PROVE  /\ Claimed(p, t) \in Row
         /\ Claimed(p, t).status = "running"
BY DEF Claimed, Row, Statuses

\* A claim takes only pending rows, which no process holds.
LEMMA ClaimKeeps ==
  ASSUME IInv, NEW p \in Procs, NEW limit, NEW ids \in SUBSET Tasks, Claim(p, limit, ids)
  PROVE  IInv'
<1>1. PICK C \in SUBSET Tasks :
        /\ \A t \in C : Pending(t)
        /\ table' = [t \in Tasks |-> IF t \in C THEN Claimed(p, t) ELSE table[t]]
        /\ copy' = [copy EXCEPT ![p] = [t \in Tasks |-> IF t \in C THEN Claimed(p, t) ELSE Absent]]
        /\ batch' = [batch EXCEPT ![p] = C]
        /\ report' = [report EXCEPT ![p] = [NoReport EXCEPT !.asked = ids, !.skipped = ids \ C]]
  BY DEF Claim, Oldest, Eligible
<1>2. /\ pc[p] = "idle"
      /\ pc' = [pc EXCEPT ![p] = "next"]
      /\ UNCHANGED <<points, cur>>
  BY DEF Claim
<1>3. \A t \in Tasks : table[t] \in Row
  BY DEF IInv, TypeOK
<1>4. \A t \in C : Claimed(p, t) \in Row /\ Claimed(p, t).status = "running"
  BY <1>3, ClaimedType
<1>5. \A q \in Procs : \A t \in batch[q] : t \notin C
  BY <1>1 DEF IInv, CopyIsCurrent, HeldIsRunning, Pending
<1>6. TypeOK'
  <2>1. /\ table' \in [Tasks -> Row]
        /\ copy' \in [Procs -> [Tasks -> Row]]
    BY <1>1, <1>4, AbsentType DEF IInv, TypeOK
  <2>2. /\ pc' \in [Procs -> PCs] /\ points' \in SUBSET Tasks
        /\ cur' \in [Procs -> Tasks \cup {NoTask}] /\ batch' \in [Procs -> SUBSET Tasks]
    BY <1>1, <1>2 DEF IInv, TypeOK, PCs
  <2>3. [NoReport EXCEPT !.asked = ids, !.skipped = ids \ C]
          \in Reports
    BY DEF NoReport, Reports
  <2>. QED  BY <1>1, <2>1, <2>2, <2>3 DEF IInv, TypeOK
<1>7. SingleOwner'
  BY <1>1, <1>5 DEF IInv, TypeOK, SingleOwner
<1>8. CopyIsCurrent'
  BY <1>1, <1>5 DEF IInv, TypeOK, CopyIsCurrent
<1>9. HoldsInRun'
  BY <1>1, <1>2 DEF IInv, TypeOK, HoldsInRun, Inside
<1>10. HeldIsRunning'
  BY <1>1, <1>2, <1>4 DEF IInv, TypeOK, HeldIsRunning
<1>11. UnclaimedHasNoOwner'
  BY <1>1, <1>4 DEF IInv, TypeOK, UnclaimedHasNoOwner
<1>. QED  BY <1>6, <1>7, <1>8, <1>9, <1>10, <1>11 DEF IInv

\* Starting on a candidate writes the row of a task the process holds.
LEMMA BeginKeeps ==
  ASSUME IInv, NEW p \in Procs, Begin(p)
  PROVE  IInv'
<1>1. PICK t \in batch[p] :
        /\ table' = [table EXCEPT ![t] = [AtStage(copy[p][t], "parser", "worker-claimed") EXCEPT !.attemptCount = @ + 1]]
        /\ copy' = [copy EXCEPT ![p][t] = [AtStage(copy[p][t], "parser", "worker-claimed") EXCEPT !.attemptCount = @ + 1]]
        /\ cur' = [cur EXCEPT ![p] = t]
        /\ report' = [report EXCEPT ![p].processed = @ \cup {t}]
  BY DEF Begin, Upsert
<1>2. /\ pc[p] = "next"
      /\ pc' = [pc EXCEPT ![p] = "parse"]
      /\ UNCHANGED <<points, batch>>
  BY DEF Begin
<1>. DEFINE mid == AtStage(copy[p][t], "parser", "worker-claimed")
            row == [mid EXCEPT !.attemptCount = @ + 1]
<1>3. t \in Tasks /\ copy[p][t] \in Row /\ copy[p][t].status = "running"
  BY <1>2 DEF IInv, TypeOK, HeldIsRunning
<1>4. "parser" \in Stages /\ "worker-claimed" \in Events
  BY DEF Stages, Events
<1>5. mid \in Row /\ mid.status = "running"
  BY <1>3, <1>4, AtStageType
<1>6. row \in Row /\ row.status = "running"
  <2>. HIDE DEF mid
  <2>. QED  BY <1>5 DEF Row
<1>7. /\ table' = [table EXCEPT ![t] = row] /\ copy' = [copy EXCEPT ![p][t] = row]
      /\ cur' = [cur EXCEPT ![p] = t]
  BY <1>1
<1>. HIDE DEF mid, row
<1>8. TypeOK'
  <2>1. report' \in [Procs -> Reports]
    <3>. DEFINE r == [report[p] EXCEPT !.processed = @ \cup {t}]
    <3>1. report[p] \in Reports /\ report' = [report EXCEPT ![p] = r]
      BY <1>1 DEF IInv, TypeOK
    <3>2. r \in Reports
      BY <1>3, <3>1 DEF Reports
    <3>. QED  BY <3>1, <3>2 DEF IInv, TypeOK
  <2>2. table' \in [Tasks -> Row] /\ copy' \in [Procs -> [Tasks -> Row]]
    BY <1>3, <1>6, <1>7 DEF IInv, TypeOK
  <2>3. pc' \in [Procs -> PCs] /\ cur' \in [Procs -> Tasks \cup {NoTask}]
    BY <1>2, <1>3, <1>7 DEF IInv, TypeOK, PCs
  <2>. QED  BY <1>2, <2>1, <2>2, <2>3 DEF IInv, TypeOK
<1>9. SingleOwner'
  BY <1>2 DEF IInv, SingleOwner
<1>10. CopyIsCurrent'
  BY <1>2, <1>3, <1>7 DEF IInv, TypeOK, CopyIsCurrent, SingleOwner
<1>11. HoldsInRun'
  BY <1>1, <1>2, <1>3 DEF IInv, TypeOK, HoldsInRun, Inside
<1>12. HeldIsRunning'
  <2>. SUFFICES ASSUME NEW q \in Procs, NEW u \in batch[q]
                PROVE  copy'[q][u].status \in IF pc'[q] = "resave" /\ u = cur'[q]
                                              THEN {"succeeded", "failed"} ELSE {"running"}
    BY <1>2 DEF HeldIsRunning
  <2>1. CASE q = p
    BY <2>1, <1>2, <1>3, <1>6, <1>7 DEF IInv, TypeOK, HeldIsRunning
  <2>2. CASE q # p
    BY <2>2, <1>2, <1>3, <1>7 DEF IInv, TypeOK, HeldIsRunning
  <2>. QED  BY <2>1, <2>2
<1>13. UnclaimedHasNoOwner'
  BY <1>3, <1>6, <1>7 DEF IInv, TypeOK, UnclaimedHasNoOwner
<1>. QED  BY <1>8, <1>9, <1>10, <1>11, <1>12, <1>13 DEF IInv

\* The repeated upsert writes what the row already is, then lets the task go.
LEMMA ResaveKeeps ==
  ASSUME IInv, NEW p \in Procs, Resave(p)
  PROVE  IInv'
<1>1. /\ cur[p] \in Tasks /\ cur[p] \in batch[p]
      /\ Mine(p) = table[cur[p]]
  BY CurrentTask DEF Resave, Inside, PCs
<1>2. /\ pc[p] = "resave"
      /\ pc' = [pc EXCEPT ![p] = "next"]
      /\ batch' = [batch EXCEPT ![p] = @ \ {cur[p]}]
      /\ copy' = [copy EXCEPT ![p][cur[p]] = Absent]
      /\ cur' = [cur EXCEPT ![p] = NoTask]
      /\ points' = points
  BY DEF Resave
<1>3. table' = table
  BY <1>1 DEF Resave, Upsert, IInv, TypeOK
<1>4. TypeOK'
  <2>1. report' \in [Procs -> Reports]
    <3>. DEFINE r == [report[p] EXCEPT
                 !.succeeded = IF Mine(p).status = "succeeded" THEN @ \cup {cur[p]} ELSE @,
                 !.failed = IF Mine(p).status = "failed" THEN @ \cup {cur[p]} ELSE @]
    <3>1. report[p] \in Reports /\ report' = [report EXCEPT ![p] = r]
      BY DEF Resave, IInv, TypeOK
    <3>2. r \in Reports
      BY <1>1, <3>1 DEF Reports
    <3>. QED  BY <3>1, <3>2 DEF IInv, TypeOK
  <2>. QED  BY <1>2, <1>3, <2>1, AbsentType DEF IInv, TypeOK, PCs
<1>5. SingleOwner'
  BY <1>2 DEF IInv, TypeOK, SingleOwner
<1>6. CopyIsCurrent'
  BY <1>1, <1>2, <1>3 DEF IInv, TypeOK, CopyIsCurrent
<1>7. HoldsInRun'
  BY <1>2 DEF IInv, TypeOK, HoldsInRun, Inside
<1>8. HeldIsRunning'
  BY <1>1, <1>2 DEF IInv, TypeOK, HeldIsRunning
<1>9. UnclaimedHasNoOwner'
  BY <1>3 DEF IInv, UnclaimedHasNoOwner
<1>. QED  BY <1>4, <1>5, <1>6, <1>7, <1>8, <1>9 DEF IInv

\* A step that moves a program counter, and perhaps adds to the vector store,
\* and leaves the table and the copies alone.
LEMMA MoveKeeps ==
  ASSUME IInv, NEW p \in Procs, NEW next \in PCs, pc' = [pc EXCEPT ![p] = next],
         UNCHANGED <<table, cur, batch, copy>>, points' \in SUBSET Tasks,
         report' \in [Procs -> Reports],
         \/ next = "idle" /\ batch[p] = {}
         \/ next \in Inside \ {"resave"} /\ pc[p] \in Inside \ {"resave"}
  PROVE  IInv'
<1>1. TypeOK' /\ SingleOwner' /\ CopyIsCurrent' /\ UnclaimedHasNoOwner'
  BY DEF IInv, TypeOK, SingleOwner, CopyIsCurrent, UnclaimedHasNoOwner
<1>2. HoldsInRun'
  BY DEF IInv, TypeOK, HoldsInRun, Inside
<1>3. HeldIsRunning'
  BY DEF IInv, TypeOK, HeldIsRunning, Inside
<1>. QED  BY <1>1, <1>2, <1>3 DEF IInv

-----------------------------------------------------------------------------
(* What all the stages of _process_task have in common *)

StageUpdate(p) ==
  /\ pc[p] \in Inside \ {"resave"}
  /\ UNCHANGED report
  /\ \E row \in Row, next \in Inside :
       /\ UpdateTask(p, row, next)
       /\ Extends(row, Mine(p))
       /\ IF next = "resave" THEN row.status \in {"succeeded", "failed"}
                             ELSE row.status = "running"

\* The stage that follows chunking or embedding is one inside the run.
LEMMA NextStageType ==
  ASSUME NEW plan
  PROVE  /\ IndexStep(plan) \in Inside \ {"resave"}
         /\ EmbedStep(plan) \in Inside \ {"resave"}
BY DEF IndexStep, EmbedStep, Inside, PCs

\* The stages that write are all updates of a running row, and say to which row.
LEMMA StagesUpdate ==
  ASSUME IInv, NEW p \in Procs,
         \/ StartParser(p) \/ FailParser(p) \/ Chunk(p) \/ Embed(p)
         \/ RecordIndex(p) \/ FailIndex(p) \/ Complete(p)
  PROVE  StageUpdate(p)
<1>. DEFINE mine == Mine(p)
<1>1. pc[p] \in Inside \ {"resave"}
  BY DEF StartParser, FailParser, Chunk, Embed, RecordIndex, FailIndex, Complete, Inside, PCs
<1>2. mine \in Row /\ mine.status = "running"
  BY <1>1, CurrentTask
<1>3. /\ {"parser", "chunker", "embedding", "indexing", "completed"} \subseteq Stages
      /\ {"parsing", "chunking", "embedding", "indexing", "completed"} \subseteq Events
      /\ {"decide", "complete", "resave"} \subseteq Inside
      /\ "succeeded" \in Statuses
  BY DEF Stages, Events, Inside, PCs, Statuses
<1>4. CASE StartParser(p)
  <2>. DEFINE row == AtStage(mine, "parser", "parsing")
  <2>1. row \in Row /\ row.status = "running" /\ Extends(row, mine)
    BY <1>2, <1>3, AtStageType
  <2>2. UpdateTask(p, row, "decide") /\ UNCHANGED report
    BY <1>4 DEF StartParser
  <2>. QED  BY <1>1, <1>3, <2>1, <2>2 DEF StageUpdate
<1>5. CASE FailParser(p)
  <2>. DEFINE row == Failed(mine, "parser")
  <2>1. row \in Row /\ row.status = "failed" /\ Extends(row, mine)
    BY <1>2, FailedType
  <2>2. UpdateTask(p, row, "resave") /\ UNCHANGED report
    BY <1>5 DEF FailParser
  <2>. QED  BY <1>1, <1>3, <2>1, <2>2 DEF StageUpdate
<1>6. CASE Chunk(p)
  <2>. DEFINE mid == AtStage(mine, "chunker", "chunking")
              row == [mid EXCEPT !.chunks = TRUE]
  <2>1. mid \in Row /\ mid.status = "running" /\ Extends(mid, mine)
    BY <1>2, <1>3, AtStageType
  <2>2. UpdateTask(p, row, EmbedStep(mine.plan)) /\ UNCHANGED report
    BY <1>6 DEF Chunk
  <2>3. row \in Row /\ row.status = "running" /\ Extends(row, mine)
    <3>. HIDE DEF mid, mine
    <3>. QED  BY <1>2, <2>1 DEF Row, Extends
  <2>. HIDE DEF row
  <2>. QED  BY <1>1, <2>2, <2>3, NextStageType DEF StageUpdate
<1>7. CASE Embed(p)
  <2>. DEFINE mid == AtStage(mine, "embedding", "embedding")
              row == [mid EXCEPT !.embedded = TRUE]
  <2>1. mid \in Row /\ mid.status = "running" /\ Extends(mid, mine)
    BY <1>2, <1>3, AtStageType
  <2>2. UpdateTask(p, row, IndexStep(mine.plan)) /\ UNCHANGED report
    BY <1>7 DEF Embed
  <2>3. row \in Row /\ row.status = "running" /\ Extends(row, mine)
    <3>. HIDE DEF mid, mine
    <3>. QED  BY <1>2, <2>1 DEF Row, Extends
  <2>. HIDE DEF row
  <2>. QED  BY <1>1, <2>2, <2>3, NextStageType DEF StageUpdate
<1>8. CASE RecordIndex(p)
  <2>. DEFINE mid == AtStage(mine, "indexing", "indexing")
              row == [mid EXCEPT !.indexed = TRUE]
  <2>1. mid \in Row /\ mid.status = "running" /\ Extends(mid, mine)
    BY <1>2, <1>3, AtStageType
  <2>2. UpdateTask(p, row, "complete") /\ UNCHANGED report
    BY <1>8 DEF RecordIndex
  <2>3. row \in Row /\ row.status = "running" /\ Extends(row, mine)
    <3>. HIDE DEF mid, mine
    <3>. QED  BY <1>2, <2>1 DEF Row, Extends
  <2>. HIDE DEF row
  <2>. QED  BY <1>1, <1>3, <2>2, <2>3 DEF StageUpdate
<1>9. CASE FailIndex(p)
  <2>. DEFINE row == Failed(mine, "indexing")
  <2>1. row \in Row /\ row.status = "failed" /\ Extends(row, mine)
    BY <1>2, FailedType
  <2>2. UpdateTask(p, row, "resave") /\ UNCHANGED report
    BY <1>9 DEF FailIndex
  <2>. QED  BY <1>1, <1>3, <2>1, <2>2 DEF StageUpdate
<1>10. CASE Complete(p)
  <2>. DEFINE mid == AtStage(mine, "completed", "completed")
              row == [mid EXCEPT !.status = "succeeded"]
  <2>1. mid \in Row /\ Extends(mid, mine)
    BY <1>2, <1>3, AtStageType
  <2>2. UpdateTask(p, row, "resave") /\ UNCHANGED report
    BY <1>10 DEF Complete
  <2>3. row \in Row /\ row.status = "succeeded" /\ Extends(row, mine)
    <3>. HIDE DEF mid, mine
    <3>. QED  BY <1>2, <1>3, <2>1 DEF Row, Extends
  <2>. HIDE DEF row
  <2>. QED  BY <1>1, <1>3, <2>2, <2>3 DEF StageUpdate
<1>. QED  BY <1>4, <1>5, <1>6, <1>7, <1>8, <1>9, <1>10

\* Every step of a worker run keeps the invariant.
LEMMA StepKeeps ==
  ASSUME IInv, NEW p \in Procs, Step(p)
  PROVE  IInv'
<1>1. CASE StageUpdate(p)
  BY <1>1, UpdateKeeps DEF StageUpdate
<1>2. CASE Begin(p)
  BY <1>2, BeginKeeps
<1>3. CASE Resave(p)
  BY <1>3, ResaveKeeps
<1>4. CASE Return(p)
  <2>1. report' \in [Procs -> Reports]
    BY <1>4 DEF Return, IInv, TypeOK, NoReport, Reports
  <2>2. "idle" \in PCs /\ points' \in SUBSET Tasks
    BY <1>4 DEF Return, IInv, TypeOK, PCs
  <2>. QED  BY <1>4, <2>1, <2>2, MoveKeeps DEF Return
<1>5. CASE WriteIndex(p)
  <2>1. pc[p] \in Inside \ {"resave"} /\ {"indexed", "unindexed"} \subseteq Inside \ {"resave"}
    BY <1>5 DEF WriteIndex, Inside, PCs
  <2>2. points' \in SUBSET Tasks /\ report' \in [Procs -> Reports]
    BY <1>5, <2>1, CurrentTask DEF WriteIndex, IInv, TypeOK
  <2>3. PICK next \in {"indexed", "unindexed"} : pc' = [pc EXCEPT ![p] = next]
    BY <1>5 DEF WriteIndex
  <2>4. next \in PCs
    BY <2>1 DEF Inside
  <2>. QED  BY <1>5, <2>1, <2>2, <2>3, <2>4, MoveKeeps DEF WriteIndex
<1>. QED  BY <1>1, <1>2, <1>3, <1>4, <1>5, StagesUpdate DEF Step

\* So does the death of a process, table and all on the memory backend.
LEMMA CrashKeeps ==
  ASSUME IInv, NEW p \in Procs, Crash(p)
  PROVE  IInv'
<1>1. CASE UNCHANGED table
  BY <1>1, ForgetKeeps DEF Crash
<1>2. CASE Backend = "memory" /\ table' = [t \in Tasks |-> Absent]
  <2>1. Procs = {p}
    BY <1>2, BackendAssumption DEF Procs
  <2>2. Forget(p) /\ pc' = [pc EXCEPT ![p] = "down"]
    BY DEF Crash
  <2>3. TypeOK'
    BY <1>2, <2>2, AbsentType DEF Forget, IInv, TypeOK, PCs, NoReport, Reports
  <2>4. batch'[p] = {} /\ pc'[p] = "down"
    BY <2>2 DEF Forget, IInv, TypeOK
  <2>5. SingleOwner' /\ CopyIsCurrent' /\ HoldsInRun' /\ HeldIsRunning'
    BY <2>1, <2>4 DEF SingleOwner, CopyIsCurrent, HoldsInRun, HeldIsRunning, Inside
  <2>6. UnclaimedHasNoOwner'
    BY <1>2, AbsentType DEF UnclaimedHasNoOwner
  <2>. QED  BY <2>3, <2>5, <2>6 DEF IInv
<1>. QED  BY <1>1, <1>2 DEF Crash

\* Every step of the system keeps the invariant.
LEMMA NextKeeps == IInv /\ [Next]_vars => IInv'
<1>. SUFFICES ASSUME IInv, [Next]_vars PROVE IInv'
  OBVIOUS
<1>1. CASE \E t \in Tasks, plan \in Plans, at \in 0..MaxTime : Create(t, plan, at)
  BY <1>1, CreateKeeps, LimitsAssumption
<1>2. CASE \E limit \in Limits, ids \in SUBSET Tasks : Claim(Api, limit, ids)
  BY <1>2, ClaimKeeps DEF Procs
<1>3. CASE \E p \in Runners : Poll(p)
  BY <1>3, ClaimKeeps DEF Poll, Procs
<1>4. CASE \E p \in Procs : Step(p)
  BY <1>4, StepKeeps
<1>5. CASE \E p \in Procs : Abort(p)
  BY <1>5, ForgetKeeps DEF Abort
<1>6. CASE \E p \in Procs : Crash(p)
  BY <1>6, CrashKeeps
<1>7. CASE \E p \in Procs : Restart(p)
  <2>1. PICK p \in Procs : Restart(p)
    BY <1>7
  <2>2. "idle" \in PCs /\ batch[p] = {} /\ points' \in SUBSET Tasks /\ report' \in [Procs -> Reports]
    BY <2>1 DEF Restart, IInv, TypeOK, HoldsInRun, PCs
  <2>. QED  BY <2>1, <2>2, MoveKeeps DEF Restart
<1>8. CASE UNCHANGED vars
  BY <1>8 DEF vars, IInv, TypeOK, SingleOwner, CopyIsCurrent, HoldsInRun, HeldIsRunning,
              UnclaimedHasNoOwner
<1>. QED  BY <1>1, <1>2, <1>3, <1>4, <1>5, <1>6, <1>7, <1>8 DEF Next

\* The inductive invariant holds in every reachable state, whatever crashes.
THEOREM InductiveInvariant == Spec => []IInv
BY InitIInv, NextKeeps, PTL DEF Spec

\* Type correctness of the table, of the copies and of the reports.
THEOREM TypeCorrect == Spec => []TypeOK
<1>1. IInv => TypeOK
  BY DEF IInv
<1>. QED  BY <1>1, InductiveInvariant, PTL

\* claim_pending gives no task to two runs, and _update_task never writes from
\* a copy that is behind its row.
THEOREM Ownership == Spec => [](SingleOwner /\ CopyIsCurrent)
<1>1. IInv => SingleOwner /\ CopyIsCurrent
  BY DEF IInv
<1>. QED  BY <1>1, InductiveInvariant, PTL

-----------------------------------------------------------------------------
(* What a step may do to a row *)

RowStep ==
  \A t \in Tasks :
    /\ Exists(t) => Extends(table'[t], table[t])
    /\ table[t].status \in {"succeeded", "failed"} => table'[t] = table[t]

\* A step that leaves the table alone leaves every row alone.
LEMMA SameTable == IInv /\ UNCHANGED table => RowStep
BY ExtendsItself DEF RowStep, IInv, TypeOK

\* Creating a task touches no row that exists.
LEMMA CreateRows ==
  ASSUME IInv, NEW t \in Tasks, NEW plan \in PlanSet, NEW at \in Nat, Create(t, plan, at)
  PROVE  RowStep
<1>. SUFFICES ASSUME NEW u \in Tasks, Exists(u)
              PROVE  table'[u] = table[u]
  BY ExtendsItself DEF RowStep, Exists, IInv, TypeOK
<1>. QED  BY DEF Create, Exists, IInv, TypeOK

\* A claim extends pending rows and touches no other.
LEMMA ClaimRows ==
  ASSUME IInv, NEW p \in Procs, NEW limit, NEW ids \in SUBSET Tasks, Claim(p, limit, ids)
  PROVE  RowStep
<1>1. PICK C \in SUBSET Tasks :
        /\ \A t \in C : Pending(t)
        /\ table' = [t \in Tasks |-> IF t \in C THEN Claimed(p, t) ELSE table[t]]
  BY DEF Claim, Oldest, Eligible
<1>. SUFFICES ASSUME NEW t \in Tasks, Exists(t)
              PROVE  /\ Extends(table'[t], table[t])
                     /\ table[t].status \in {"succeeded", "failed"} => table'[t] = table[t]
  BY DEF RowStep, Exists
<1>2. table[t] \in Row
  BY DEF IInv, TypeOK
<1>3. CASE t \notin C
  BY <1>1, <1>2, <1>3, ExtendsItself
<1>4. CASE t \in C
  <2>1. table[t].status = "pending" /\ table[t].claimedBy = NoProc
    BY <1>1, <1>4 DEF Pending, IInv, UnclaimedHasNoOwner
  <2>2. table'[t] = [table[t] EXCEPT !.status = "running", !.claimedBy = p]
    BY <1>1, <1>4 DEF Claimed
  <2>. QED  BY <1>2, <2>1, <2>2 DEF Extends, Row
<1>. QED  BY <1>3, <1>4

\* A new version of the current task extends a running row.
LEMMA StageRows ==
  ASSUME IInv, NEW p \in Procs, StageUpdate(p)
  PROVE  RowStep
<1>1. PICK row \in Row : /\ table' = [table EXCEPT ![cur[p]] = row]
                         /\ Extends(row, Mine(p))
  BY DEF StageUpdate, UpdateTask, Upsert
<1>2. /\ cur[p] \in Tasks
      /\ Mine(p) = table[cur[p]]
      /\ Mine(p).status = "running"
  BY CurrentTask DEF StageUpdate
<1>. QED  BY <1>1, <1>2, ExtendsItself DEF RowStep, IInv, TypeOK

\* Starting on a candidate extends a running row.
LEMMA BeginRows ==
  ASSUME IInv, NEW p \in Procs, Begin(p)
  PROVE  RowStep
<1>1. PICK t \in batch[p] :
        table' = [table EXCEPT ![t] = [AtStage(copy[p][t], "parser", "worker-claimed") EXCEPT !.attemptCount = @ + 1]]
  BY DEF Begin, Upsert
<1>2. /\ t \in Tasks /\ copy[p][t] = table[t]
      /\ table[t] \in Row /\ table[t].status = "running"
  BY DEF Begin, IInv, TypeOK, CopyIsCurrent, HeldIsRunning
<1>. DEFINE mid == AtStage(table[t], "parser", "worker-claimed")
            row == [mid EXCEPT !.attemptCount = @ + 1]
<1>3. mid \in Row /\ Extends(mid, table[t])
  BY <1>2, AtStageType DEF Stages, Events
<1>4. table' = [table EXCEPT ![t] = row]
  BY <1>1, <1>2
<1>5. Extends(row, table[t])
  <2>. HIDE DEF mid
  <2>. QED  BY <1>2, <1>3 DEF Extends, Row
<1>. HIDE DEF row
<1>. QED  BY <1>2, <1>4, <1>5, ExtendsItself DEF RowStep, IInv, TypeOK

\* Every step on the SQLite table extends rows and leaves finished ones alone.
LEMMA NextRows ==
  ASSUME Backend = "sqlite", IInv, [Next]_vars
  PROVE  RowStep
<1>1. CASE \E t \in Tasks, plan \in Plans, at \in 0..MaxTime : Create(t, plan, at)
  BY <1>1, CreateRows, LimitsAssumption
<1>2. CASE \E limit \in Limits, ids \in SUBSET Tasks : Claim(Api, limit, ids)
  BY <1>2, ClaimRows DEF Procs
<1>3. CASE \E p \in Runners : Poll(p)
  BY <1>3, ClaimRows DEF Poll, Procs
<1>4. CASE \E p \in Procs : Step(p)
  <2>1. PICK p \in Procs : Step(p)
    BY <1>4
  <2>2. CASE StageUpdate(p)
    BY <2>2, StageRows
  <2>3. CASE Begin(p)
    BY <2>3, BeginRows
  <2>4. CASE WriteIndex(p) \/ Return(p)
    BY <2>4, SameTable DEF WriteIndex, Return
  <2>5. CASE Resave(p)
    <3>1. cur[p] \in Tasks /\ Mine(p) = table[cur[p]]
      BY <2>5, CurrentTask DEF Resave, Inside, PCs
    <3>2. table' = table
      BY <2>5, <3>1 DEF Resave, Upsert, IInv, TypeOK
    <3>. QED  BY <3>2, SameTable
  <2>. QED  BY <2>1, <2>2, <2>3, <2>4, <2>5, StagesUpdate DEF Step
<1>5. CASE \E p \in Procs : Abort(p) \/ Crash(p) \/ Restart(p)
  BY <1>5, SameTable DEF Abort, Crash, Restart
<1>6. CASE UNCHANGED vars
  BY <1>6, SameTable DEF vars
<1>. QED  BY <1>1, <1>2, <1>3, <1>4, <1>5, <1>6 DEF Next

\* On the SQLite table a finished task is never written over.
THEOREM FinishedStaysFinished == Backend = "sqlite" /\ Spec => TerminalIsFinal
<1>. SUFFICES ASSUME Backend = "sqlite" PROVE Spec => TerminalIsFinal
  OBVIOUS
<1>1. IInv /\ [Next]_vars =>
        [\A t \in Tasks : table[t].status \in {"succeeded", "failed"} => table'[t] = table[t]]_vars
  BY NextRows DEF RowStep
<1>. QED  BY <1>1, InductiveInvariant, PTL DEF Spec, TerminalIsFinal

\* On the SQLite table no write, of any process, loses what was recorded before.
THEOREM NothingIsLost == Backend = "sqlite" /\ Spec => HistoryGrows
<1>. SUFFICES ASSUME Backend = "sqlite" PROVE Spec => HistoryGrows
  OBVIOUS
<1>1. IInv /\ [Next]_vars => [\A t \in Tasks : Exists(t) => Extends(table'[t], table[t])]_vars
  BY NextRows DEF RowStep
<1>. QED  BY <1>1, InductiveInvariant, PTL DEF Spec, HistoryGrows

-----------------------------------------------------------------------------
(* The table implements the queue *)

Jobs == [t \in Tasks |-> JobOf(table[t])]

\* The empty table is the empty queue.
LEMMA InitQueue == Init => Queue!Init
BY AbsentType DEF Init, Queue!Init, JobOf

\* What the queue sees of a row depends on its status alone.
LEMMA JobOfStatus ==
  ASSUME NEW row, row.status \in Statuses
  PROVE  /\ row.status = "absent" => JobOf(row) = "none"
         /\ row.status = "pending" => JobOf(row) = "waiting"
         /\ row.status = "running" => JobOf(row) = "taken"
         /\ row.status \in {"succeeded", "failed"} => JobOf(row) = row.status
BY DEF JobOf, Statuses

\* A step that leaves the table and the batches alone is a stutter of the queue.
LEMMA StutterQueue == UNCHANGED <<table, batch>> => UNCHANGED Queue!vars
BY DEF Queue!vars

\* A new version of a task that p holds and that is running is a Finish when
\* its status changes, and a stutter otherwise.
LEMMA WriteQueue ==
  ASSUME IInv, NEW p \in Procs, NEW t \in batch[p], NEW row \in Row,
         table[t].status = "running", table' = [table EXCEPT ![t] = row], batch' = batch,
         row.status \in {"running", "succeeded", "failed"}
  PROVE  [Queue!Next]_(Queue!vars)
<1>1. t \in Tasks /\ table[t] \in Row
  BY DEF IInv, TypeOK
<1>2. Jobs' = [Jobs EXCEPT ![t] = JobOf(row)]
  BY <1>1 DEF Jobs, IInv, TypeOK
<1>3. /\ Jobs[t] = "taken"
      /\ JobOf(row) = IF row.status = "running" THEN "taken" ELSE row.status
  BY <1>1, JobOfStatus DEF Jobs, Row
<1>4. CASE row.status = "running"
  BY <1>2, <1>3, <1>4 DEF Queue!vars, Jobs
<1>5. CASE row.status # "running"
  <2>1. Queue!Finish(p, t, row.status)
    BY <1>2, <1>3, <1>5 DEF Queue!Finish, Jobs
  <2>. QED  BY <1>1, <1>5, <2>1 DEF Queue!Next
<1>. QED  BY <1>4, <1>5

\* Creating a task is a Submit.
LEMMA CreateQueue ==
  ASSUME IInv, NEW t \in Tasks, NEW plan \in PlanSet, NEW at \in Nat, Create(t, plan, at)
  PROVE  Queue!Submit(t)
<1>1. table[t].status = "absent" /\ table' = [table EXCEPT ![t] = NewRow(plan, at)] /\ batch' = batch
  BY DEF Create, Exists
<1>2. JobOf(table[t]) = "none" /\ JobOf(NewRow(plan, at)) = "waiting"
  BY <1>1, NewRowType, JobOfStatus DEF Statuses
<1>. QED  BY <1>1, <1>2 DEF Queue!Submit, IInv, TypeOK

\* A claim is a Take.
LEMMA ClaimQueue ==
  ASSUME IInv, NEW p \in Procs, NEW limit, NEW ids \in SUBSET Tasks, Claim(p, limit, ids)
  PROVE  \E S \in SUBSET Tasks : Queue!Take(p, S)
<1>1. PICK C \in SUBSET Tasks :
        /\ \A t \in C : Pending(t)
        /\ table' = [t \in Tasks |-> IF t \in C THEN Claimed(p, t) ELSE table[t]]
        /\ batch' = [batch EXCEPT ![p] = C]
  BY DEF Claim, Oldest, Eligible
<1>2. batch[p] = {}
  BY DEF Claim, IInv, HoldsInRun
<1>3. \A t \in C : JobOf(table[t]) = "waiting" /\ JobOf(Claimed(p, t)) = "taken"
  <2>. SUFFICES ASSUME NEW t \in C
                PROVE  JobOf(table[t]) = "waiting" /\ JobOf(Claimed(p, t)) = "taken"
    OBVIOUS
  <2>1. table[t].status = "pending" /\ Claimed(p, t).status = "running"
    BY <1>1, ClaimedType DEF Pending, IInv, TypeOK
  <2>. QED  BY <2>1, JobOfStatus DEF Statuses
<1>4. Jobs' = [t \in Tasks |-> IF t \in C THEN "taken" ELSE Jobs[t]]
  BY <1>1, <1>3 DEF Jobs
<1>5. Queue!Take(p, C)
  BY <1>1, <1>2, <1>3, <1>4 DEF Queue!Take, Jobs
<1>. QED  BY <1>5

\* A step of a worker run is a Finish, a Release or a stutter.
LEMMA StepQueue ==
  ASSUME IInv, NEW p \in Procs, Step(p)
  PROVE  [Queue!Next]_(Queue!vars)
<1>1. CASE StageUpdate(p)
  <2>1. PICK row \in Row, next \in Inside :
          /\ UpdateTask(p, row, next)
          /\ IF next = "resave" THEN row.status \in {"succeeded", "failed"}
                                ELSE row.status = "running"
    BY <1>1 DEF StageUpdate
  <2>2. /\ cur[p] \in batch[p] /\ table[cur[p]].status = "running"
    BY <1>1, CurrentTask DEF StageUpdate
  <2>3. row.status \in {"running", "succeeded", "failed"}
    BY <2>1
  <2>4. table' = [table EXCEPT ![cur[p]] = row] /\ batch' = batch
    BY <2>1 DEF UpdateTask, Upsert
  <2>. QED  BY <2>2, <2>3, <2>4, WriteQueue
<1>2. CASE Begin(p)
  <2>1. PICK t \in batch[p] :
          table' = [table EXCEPT ![t] = [AtStage(copy[p][t], "parser", "worker-claimed") EXCEPT !.attemptCount = @ + 1]]
    BY <1>2 DEF Begin, Upsert
  <2>2. /\ copy[p][t] \in Row /\ copy[p][t] = table[t] /\ table[t].status = "running"
    BY <1>2 DEF Begin, IInv, TypeOK, CopyIsCurrent, HeldIsRunning
  <2>. DEFINE mid == AtStage(copy[p][t], "parser", "worker-claimed")
              row == [mid EXCEPT !.attemptCount = @ + 1]
  <2>3. mid \in Row /\ mid.status = "running"
    BY <2>2, AtStageType DEF Stages, Events
  <2>4. row \in Row /\ row.status = "running"
    <3>. HIDE DEF mid
    <3>. QED  BY <2>3 DEF Row
  <2>5. table' = [table EXCEPT ![t] = row] /\ batch' = batch
    BY <1>2, <2>1 DEF Begin
  <2>. HIDE DEF row
  <2>. QED  BY <2>2, <2>4, <2>5, WriteQueue
<1>3. CASE WriteIndex(p)
  BY <1>3, StutterQueue DEF WriteIndex
<1>4. CASE Return(p)
  BY <1>4, StutterQueue DEF Return
<1>5. CASE Resave(p)
  <2>1. /\ cur[p] \in Tasks /\ cur[p] \in batch[p] /\ Mine(p) = table[cur[p]]
        /\ table[cur[p]].status \in {"succeeded", "failed"}
    BY <1>5, CurrentTask DEF Resave, Inside, PCs
  <2>2. table' = table /\ batch' = [batch EXCEPT ![p] = @ \ {cur[p]}]
    BY <1>5, <2>1 DEF Resave, Upsert, IInv, TypeOK
  <2>3. JobOf(table[cur[p]]) \in {"succeeded", "failed"}
    BY <2>1, JobOfStatus DEF Statuses
  <2>4. Queue!Release(p, cur[p])
    BY <2>1, <2>2, <2>3 DEF Queue!Release
  <2>. QED  BY <2>1, <2>4 DEF Queue!Next
<1>. QED  BY <1>1, <1>2, <1>3, <1>4, <1>5, StagesUpdate DEF Step

\* Every step on the SQLite table is a step of the queue or a stutter.
LEMMA NextQueue ==
  ASSUME Backend = "sqlite", IInv, [Next]_vars
  PROVE  [Queue!Next]_(Queue!vars)
<1>1. CASE \E t \in Tasks, plan \in Plans, at \in 0..MaxTime : Create(t, plan, at)
  BY <1>1, CreateQueue, LimitsAssumption DEF Queue!Next
<1>2. CASE \E limit \in Limits, ids \in SUBSET Tasks : Claim(Api, limit, ids)
  BY <1>2, ClaimQueue DEF Queue!Next, Procs
<1>3. CASE \E p \in Runners : Poll(p)
  BY <1>3, ClaimQueue DEF Poll, Queue!Next, Procs
<1>4. CASE \E p \in Procs : Step(p)
  BY <1>4, StepQueue
<1>5. CASE \E p \in Procs : Abort(p) \/ Crash(p)
  <2>1. PICK p \in Procs : table' = table /\ batch' = [batch EXCEPT ![p] = {}]
    BY <1>5 DEF Abort, Crash, Forget
  <2>2. Queue!Drop(p)
    BY <2>1 DEF Queue!Drop
  <2>. QED  BY <2>2 DEF Queue!Next
<1>6. CASE \E p \in Procs : Restart(p)
  BY <1>6, StutterQueue DEF Restart
<1>7. CASE UNCHANGED vars
  BY <1>7, StutterQueue DEF vars
<1>. QED  BY <1>1, <1>2, <1>3, <1>4, <1>5, <1>6, <1>7 DEF Next

\* The table shared by the API process and the runners is a queue that hands
\* each task out once and finishes it once.
THEOREM TableImplementsQueue == Backend = "sqlite" /\ Spec => ImplementsQueue
<1>. SUFFICES ASSUME Backend = "sqlite" PROVE Spec => ImplementsQueue
  OBVIOUS
<1>1. IInv /\ [Next]_vars => [Queue!Next]_(Queue!vars)
  BY NextQueue
<1>. QED  BY <1>1, InitQueue, InductiveInvariant, PTL DEF Spec, ImplementsQueue, Queue!Spec

-----------------------------------------------------------------------------
(* The response of a run *)

\* Every task a run was asked for, has processed or still holds is in the right lists.
Accounts(r, b, c) ==
  /\ r.processed = r.succeeded \cup r.failed \cup ({c} \ {NoTask})
  /\ r.asked # {} => r.asked = r.skipped \cup r.processed \cup b
  /\ r.skipped \cap (r.processed \cup b) = {}

\* The response, and that a process that is not inside _process_task has no current task.
ReportInv ==
  /\ ReportIsTrue
  /\ \A p \in Procs : pc[p] \notin Inside => cur[p] = NoTask

\* At the start nothing is reported.
LEMMA InitReport == Init => ReportInv
BY DEF Init, ReportInv, ReportIsTrue, NoReport, Inside

\* A step of one process keeps the responses true if it keeps finished rows and leaves its own
\* response true.
LEMMA ReportStep ==
  ASSUME IInv, ReportInv, RowStep, NEW p \in Procs, NEW r \in Reports, NEW b, NEW c, NEW next,
         report' = [report EXCEPT ![p] = r], batch' = [batch EXCEPT ![p] = b],
         cur' = [cur EXCEPT ![p] = c], pc' = [pc EXCEPT ![p] = next],
         next \notin Inside => c = NoTask,
         Accounts(r, b, c),
         \A t \in r.succeeded : table'[t].status = "succeeded",
         \A t \in r.failed : table'[t].status = "failed"
  PROVE  ReportInv'
<1>1. /\ report'[p] = r /\ batch'[p] = b /\ cur'[p] = c /\ pc'[p] = next
      /\ \A q \in Procs \ {p} : report'[q] = report[q] /\ batch'[q] = batch[q] /\ cur'[q] = cur[q] /\ pc'[q] = pc[q]
  BY DEF IInv, TypeOK
<1>2. ASSUME NEW q \in Procs \ {p}
      PROVE  /\ \A t \in report[q].succeeded : table'[t].status = "succeeded"
             /\ \A t \in report[q].failed : table'[t].status = "failed"
  <2>1. report[q].succeeded \subseteq Tasks /\ report[q].failed \subseteq Tasks
    BY DEF IInv, TypeOK, Reports
  <2>2. /\ \A t \in report[q].succeeded : table[t].status = "succeeded"
        /\ \A t \in report[q].failed : table[t].status = "failed"
    BY DEF ReportInv, ReportIsTrue
  <2> QED
    BY <2>1, <2>2 DEF RowStep
<1>3. ASSUME NEW q \in Procs
      PROVE  /\ \A t \in report'[q].succeeded : table'[t].status = "succeeded"
             /\ \A t \in report'[q].failed : table'[t].status = "failed"
             /\ Accounts(report'[q], batch'[q], cur'[q])
             /\ pc'[q] \notin Inside => cur'[q] = NoTask
  <2>1. CASE q = p
    BY <1>1, <2>1
  <2>2. CASE q # p
    <3>1. Accounts(report[q], batch[q], cur[q]) /\ (pc[q] \notin Inside => cur[q] = NoTask)
      BY DEF ReportInv, ReportIsTrue, Accounts
    <3> QED
      BY <1>1, <1>2, <2>2, <3>1
  <2> QED
    BY <2>1, <2>2
<1> QED
  BY <1>3 DEF ReportInv, ReportIsTrue, Accounts

\* A step that leaves a process where its response stands keeps it, too.
LEMMA ReportStays ==
  ASSUME IInv, ReportInv, RowStep, NEW p \in Procs, NEW next \in Inside, pc[p] \in Inside,
         pc' = [pc EXCEPT ![p] = next], UNCHANGED <<report, batch, cur>>
  PROVE  ReportInv'
<1>1. /\ report = [report EXCEPT ![p] = report[p]] /\ batch = [batch EXCEPT ![p] = batch[p]]
      /\ cur = [cur EXCEPT ![p] = cur[p]] /\ report[p] \in Reports
  BY DEF IInv, TypeOK
<1>2. report[p].succeeded \subseteq Tasks /\ report[p].failed \subseteq Tasks
  BY <1>1 DEF Reports
<1>3. /\ \A t \in report[p].succeeded : table'[t].status = "succeeded"
      /\ \A t \in report[p].failed : table'[t].status = "failed"
  BY <1>2 DEF ReportInv, ReportIsTrue, RowStep
<1>4. Accounts(report[p], batch[p], cur[p])
  BY DEF ReportInv, ReportIsTrue, Accounts
<1> QED
  BY <1>1, <1>3, <1>4, ReportStep

\* The response begins with the claim.
LEMMA ClaimReport ==
  ASSUME IInv, ReportInv, RowStep, NEW p \in Procs, NEW limit, NEW ids \in SUBSET Tasks, Claim(p, limit, ids)
  PROVE  ReportInv'
<1>1. PICK C \in Oldest(Eligible(ids), limit) :
        /\ batch' = [batch EXCEPT ![p] = C]
        /\ report' = [report EXCEPT ![p] = [NoReport EXCEPT !.asked = ids, !.skipped = ids \ C]]
  BY DEF Claim
<1>2. pc[p] = "idle" /\ pc' = [pc EXCEPT ![p] = "next"] /\ cur' = cur
  BY DEF Claim
<1>3. C \subseteq Tasks /\ (ids # {} => C \subseteq ids)
  BY DEF Oldest, Eligible
<1> DEFINE r == [NoReport EXCEPT !.asked = ids, !.skipped = ids \ C]
<1>4. NoReport \in Reports
  BY DEF Reports, NoReport
<1>5. /\ r \in Reports /\ r.asked = ids /\ r.skipped = ids \ C
      /\ r.processed = {} /\ r.succeeded = {} /\ r.failed = {}
  <2>1. ids \ C \in SUBSET Tasks
    OBVIOUS
  <2>2. r \in Reports /\ r.asked = ids /\ r.skipped = ids \ C
    BY <1>4, <2>1 DEF Reports
  <2>3. r.processed = {} /\ r.succeeded = {} /\ r.failed = {}
    BY DEF NoReport
  <2> QED
    BY <2>2, <2>3
<1>6. cur[p] = NoTask /\ cur' = [cur EXCEPT ![p] = NoTask] /\ "next" \notin Inside
  BY <1>2 DEF ReportInv, Inside, IInv, TypeOK
<1> HIDE DEF r
<1>7. Accounts(r, C, NoTask)
  BY <1>3, <1>5 DEF Accounts
<1>8. report' = [report EXCEPT ![p] = r]
  BY <1>1 DEF r
<1> QED
  BY <1>1, <1>2, <1>5, <1>6, <1>7, <1>8, ReportStep

\* A task is processed from the moment _process_task begins.
LEMMA BeginReport ==
  ASSUME IInv, ReportInv, RowStep, NEW p \in Procs, Begin(p)
  PROVE  ReportInv'
<1>1. PICK t \in batch[p] :
        /\ cur' = [cur EXCEPT ![p] = t]
        /\ report' = [report EXCEPT ![p].processed = @ \cup {t}]
  BY DEF Begin
<1>2. pc[p] = "next" /\ pc' = [pc EXCEPT ![p] = "parse"] /\ batch' = batch /\ "parse" \in Inside /\ "next" \notin Inside
  BY DEF Begin, Inside, PCs
<1>3. t \in Tasks /\ t # NoTask /\ report[p] \in Reports /\ batch = [batch EXCEPT ![p] = batch[p]]
  BY TasksAssumption DEF IInv, TypeOK
<1> DEFINE r == [report[p] EXCEPT !.processed = @ \cup {t}]
<1>4. report' = [report EXCEPT ![p] = r]
  BY <1>1, <1>3
<1>5. /\ r \in Reports /\ r.processed = report[p].processed \cup {t}
      /\ r.asked = report[p].asked /\ r.succeeded = report[p].succeeded /\ r.failed = report[p].failed /\ r.skipped = report[p].skipped
  BY <1>3 DEF Reports
<1> HIDE DEF r
<1>6. Accounts(report[p], batch[p], NoTask)
  BY <1>2 DEF ReportInv, ReportIsTrue, Accounts
<1>7. Accounts(r, batch[p], t)
  BY <1>1, <1>3, <1>5, <1>6 DEF Accounts
<1>8. /\ \A u \in r.succeeded : table'[u].status = "succeeded"
      /\ \A u \in r.failed : table'[u].status = "failed"
  <2>1. r.succeeded \subseteq Tasks /\ r.failed \subseteq Tasks
    BY <1>5 DEF Reports
  <2> QED
    BY <1>5, <2>1 DEF ReportInv, ReportIsTrue, RowStep
<1> QED
  BY <1>1, <1>2, <1>3, <1>4, <1>5, <1>7, <1>8, ReportStep

\* A finished task goes from the current one to the list it belongs in.
LEMMA ResaveReport ==
  ASSUME IInv, ReportInv, RowStep, NEW p \in Procs, Resave(p)
  PROVE  ReportInv'
<1>1. /\ cur[p] \in Tasks /\ Mine(p) = table[cur[p]] /\ Mine(p).status \in {"succeeded", "failed"}
      /\ report[p] \in Reports
  BY CurrentTask DEF Resave, Inside, PCs, IInv, TypeOK
<1>2. /\ batch' = [batch EXCEPT ![p] = @ \ {cur[p]}] /\ cur' = [cur EXCEPT ![p] = NoTask]
      /\ pc' = [pc EXCEPT ![p] = "next"] /\ "next" \notin Inside
  BY DEF Resave, Inside
<1>3. table' = table
  BY <1>1 DEF Resave, Upsert, IInv, TypeOK
<1> DEFINE r == [report[p] EXCEPT !.succeeded = IF Mine(p).status = "succeeded" THEN @ \cup {cur[p]} ELSE @,
                                  !.failed = IF Mine(p).status = "failed" THEN @ \cup {cur[p]} ELSE @]
<1>4. report' = [report EXCEPT ![p] = r]
  BY <1>1 DEF Resave, IInv, TypeOK
<1>5. /\ r \in Reports /\ r.asked = report[p].asked /\ r.processed = report[p].processed /\ r.skipped = report[p].skipped
      /\ r.succeeded = IF Mine(p).status = "succeeded" THEN report[p].succeeded \cup {cur[p]} ELSE report[p].succeeded
      /\ r.failed = IF Mine(p).status = "failed" THEN report[p].failed \cup {cur[p]} ELSE report[p].failed
  BY <1>1 DEF Reports
<1> HIDE DEF r
<1>6. Accounts(report[p], batch[p], cur[p])
  BY DEF ReportInv, ReportIsTrue, Accounts
<1>7. cur[p] # NoTask /\ r.succeeded \cup r.failed = report[p].succeeded \cup report[p].failed \cup {cur[p]}
  BY <1>1, <1>5, TasksAssumption
<1>8. Accounts(r, batch[p] \ {cur[p]}, NoTask)
  BY <1>5, <1>6, <1>7 DEF Accounts
<1>9. /\ \A u \in r.succeeded : table'[u].status = "succeeded"
      /\ \A u \in r.failed : table'[u].status = "failed"
  BY <1>1, <1>3, <1>5 DEF ReportInv, ReportIsTrue
<1>10. batch' = [batch EXCEPT ![p] = batch[p] \ {cur[p]}]
  BY <1>2
<1> QED
  BY <1>2, <1>4, <1>5, <1>8, <1>9, <1>10, ReportStep

\* A run that returns, or dies, has no response any more.
LEMMA EmptyReport ==
  ASSUME IInv, ReportInv, RowStep, NEW p \in Procs, NEW next \in {"idle", "down"},
         pc' = [pc EXCEPT ![p] = next], report' = [report EXCEPT ![p] = NoReport],
         cur' = [cur EXCEPT ![p] = NoTask], NEW b, batch' = [batch EXCEPT ![p] = b]
  PROVE  ReportInv'
<1>1. NoReport \in Reports /\ NoReport.succeeded = {} /\ NoReport.failed = {} /\ Accounts(NoReport, b, NoTask)
  BY DEF NoReport, Reports, Accounts
<1>2. next \notin Inside
  BY DEF Inside
<1> QED
  BY <1>1, <1>2, ReportStep

\* A step outside of any run changes no response.
LEMMA IdleReport == IInv /\ ReportInv /\ RowStep /\ UNCHANGED <<report, batch, cur, pc>> => ReportInv'
<1> SUFFICES ASSUME IInv, ReportInv, RowStep, UNCHANGED <<report, batch, cur, pc>> PROVE ReportInv'
  OBVIOUS
<1>1. \A p \in Procs : report[p].succeeded \subseteq Tasks /\ report[p].failed \subseteq Tasks
  BY DEF IInv, TypeOK, Reports
<1>2. \A p \in Procs : /\ \A t \in report[p].succeeded : table'[t].status = "succeeded"
                       /\ \A t \in report[p].failed : table'[t].status = "failed"
  BY <1>1 DEF ReportInv, ReportIsTrue, RowStep
<1> QED
  BY <1>2 DEF ReportInv, ReportIsTrue

\* Every step keeps the responses true, on the SQLite table.
LEMMA NextReport == Backend = "sqlite" /\ IInv /\ ReportInv /\ [Next]_vars => ReportInv'
<1> SUFFICES ASSUME Backend = "sqlite", IInv, ReportInv, [Next]_vars PROVE ReportInv'
  OBVIOUS
<1>1. RowStep
  BY NextRows
<1>2. CASE \E t \in Tasks, plan \in Plans, at \in 0..MaxTime : Create(t, plan, at)
  <2>1. Api \in Procs /\ UNCHANGED <<report, batch, cur, pc>>
    BY <1>2 DEF Create, Procs
  <2> QED
    BY <1>1, <2>1, IdleReport
<1>3. CASE \E limit \in Limits, ids \in SUBSET Tasks : Claim(Api, limit, ids)
  BY <1>1, <1>3, ClaimReport DEF Procs
<1>4. CASE \E p \in Runners : Poll(p)
  BY <1>1, <1>4, ClaimReport DEF Poll, Procs
<1>5. ASSUME NEW p \in Procs, Step(p) PROVE ReportInv'
  <2>1. CASE StageUpdate(p)
    <3>1. PICK next \in Inside : pc' = [pc EXCEPT ![p] = next] /\ UNCHANGED <<report, batch, cur>> /\ pc[p] \in Inside
      BY <2>1 DEF StageUpdate, UpdateTask
    <3> QED
      BY <1>1, <3>1, ReportStays
  <2>2. CASE Begin(p)
    BY <1>1, <2>2, BeginReport
  <2>3. CASE WriteIndex(p)
    <3>1. PICK next \in Inside : pc' = [pc EXCEPT ![p] = next] /\ UNCHANGED <<report, batch, cur>> /\ pc[p] \in Inside
      BY <2>3 DEF WriteIndex, Inside, PCs
    <3> QED
      BY <1>1, <3>1, ReportStays
  <2>4. CASE Resave(p)
    BY <1>1, <2>4, ResaveReport
  <2>5. CASE Return(p)
    <3>1. /\ pc' = [pc EXCEPT ![p] = "idle"] /\ report' = [report EXCEPT ![p] = NoReport] /\ cur[p] = NoTask
          /\ cur' = cur /\ batch' = batch
      BY <2>5 DEF Return, ReportInv, Inside
    <3>2. cur' = [cur EXCEPT ![p] = NoTask] /\ batch' = [batch EXCEPT ![p] = batch[p]]
      BY <3>1 DEF IInv, TypeOK
    <3> QED
      BY <1>1, <3>1, <3>2, EmptyReport
  <2> QED
    BY <1>5, <2>1, <2>2, <2>3, <2>4, <2>5, StagesUpdate DEF Step
<1>6. ASSUME NEW p \in Procs, Abort(p) \/ Crash(p) PROVE ReportInv'
  <2>1. PICK next \in {"idle", "down"} : pc' = [pc EXCEPT ![p] = next]
    BY <1>6 DEF Abort, Crash
  <2>2. /\ report' = [report EXCEPT ![p] = NoReport] /\ cur' = [cur EXCEPT ![p] = NoTask]
        /\ batch' = [batch EXCEPT ![p] = {}]
    BY <1>6 DEF Abort, Crash, Forget
  <2> QED
    BY <1>1, <2>1, <2>2, EmptyReport
<1>7. ASSUME NEW p \in Procs, Restart(p) PROVE ReportInv'
  <2>1. pc[p] = "down" /\ pc' = [pc EXCEPT ![p] = "idle"] /\ UNCHANGED <<table, report, batch, cur>>
    BY <1>7 DEF Restart
  <2> QED
    BY <2>1 DEF ReportInv, ReportIsTrue, Inside, IInv, TypeOK
<1>8. CASE UNCHANGED vars
  <2>1. UNCHANGED <<report, batch, cur, pc>>
    BY <1>8 DEF vars
  <2> QED
    BY <1>1, <2>1, IdleReport
<1> QED
  BY <1>2, <1>3, <1>4, <1>5, <1>6, <1>7, <1>8 DEF Next

\* The response of a worker run is true when it is sent, whatever other processes did meanwhile.
THEOREM ResponsesAreTrue == Backend = "sqlite" /\ Spec => []ReportIsTrue
<1> SUFFICES ASSUME Backend = "sqlite" PROVE Spec => []ReportIsTrue
  OBVIOUS
<1>1. Init => ReportInv
  BY InitReport
<1>2. IInv /\ ReportInv /\ [Next]_vars => ReportInv'
  BY NextReport
<1>3. ReportInv => ReportIsTrue
  BY DEF ReportInv
<1> QED
  BY <1>1, <1>2, <1>3, InductiveInvariant, PTL DEF Spec

-----------------------------------------------------------------------------
(* The corpus *)

\* The trace of a task after each of its stages.
Untouched == <<"task-created", "queued">>
UpToClaim == Append(Untouched, "worker-claimed")
UpToParser == Append(UpToClaim, "parsing")
UpToChunker == Append(UpToParser, "chunking")
UpToEmbedding(plan) == IF plan.embedding THEN Append(UpToChunker, "embedding") ELSE UpToChunker
UpToIndexing(plan) == IF plan.index # "off" THEN Append(UpToEmbedding(plan), "indexing") ELSE UpToEmbedding(plan)

\* A row nobody has begun to work on.
Fresh(row) == row.trace = Untouched /\ ~row.chunks /\ ~row.embedded /\ ~row.indexed

\* How far a row is when its process is at a place of _process_task.
Reached(row, place) ==
  /\ place = "parse" => row.trace = UpToClaim /\ ~row.chunks /\ ~row.embedded /\ ~row.indexed
  /\ place = "decide" => row.trace = UpToParser /\ ~row.chunks /\ ~row.embedded /\ ~row.indexed
  /\ place = "embed" => row.trace = UpToChunker /\ row.chunks /\ ~row.embedded /\ ~row.indexed /\ row.plan.embedding
  /\ place \in {"index", "indexed", "unindexed"} =>
       /\ row.trace = UpToEmbedding(row.plan) /\ row.chunks /\ row.embedded = row.plan.embedding
       /\ ~row.indexed /\ row.plan.index # "off"
  /\ place = "complete" =>
       /\ row.trace = UpToIndexing(row.plan) /\ row.chunks /\ row.embedded = row.plan.embedding
       /\ row.indexed = (row.plan.index # "off")

\* From there on the chunks of a task that asked for it are in the vector store.
Stored(row, t, place, pts) == place \in {"indexed", "complete"} /\ row.plan.index = "qdrant" => t \in pts

\* What CorpusIsComplete asks of a row.
IsWhole(row, t, pts) ==
  row.status = "succeeded" /\ row.currentStage = "completed" =>
    /\ row.trace = FullTrace(row.plan)
    /\ row.chunks /\ row.embedded = row.plan.embedding
    /\ row.indexed = (row.plan.index # "off")
    /\ row.plan.index = "qdrant" => t \in pts

\* How far all rows are: pending and claimed ones have not been begun, and the current one of a
\* process is where the process is.
WaitingAreFresh == \A t \in Tasks : table[t].status = "pending" => Fresh(table[t])
HeldAreFresh ==
  \A p \in Procs : \A t \in batch[p] : pc[p] \notin Inside \/ t # cur[p] => Fresh(copy[p][t])
CurrentIsThere ==
  \A p \in Procs : pc[p] \in Inside => Reached(Mine(p), pc[p]) /\ Stored(Mine(p), cur[p], pc[p], points)
RowsAreWhole == \A t \in Tasks : IsWhole(table[t], t, points)

Progress == WaitingAreFresh /\ HeldAreFresh /\ CurrentIsThere /\ RowsAreWhole

\* FullTrace is the trace after indexing, completed.
LEMMA TraceIsWhole ==
  ASSUME NEW plan, plan.embedding \in BOOLEAN
  PROVE  FullTrace(plan) = Append(UpToIndexing(plan), "completed")
<1>1. {"task-created", "queued", "worker-claimed", "parsing", "chunking", "embedding", "indexing", "completed"}
        \subseteq Events
  BY DEF Events
<1>2. UpToChunker = <<"task-created", "queued", "worker-claimed", "parsing", "chunking">>
  <2>1. UpToClaim = <<"task-created", "queued", "worker-claimed">>
    BY <1>1, AppendTo2 DEF UpToClaim, Untouched
  <2>2. UpToParser = <<"task-created", "queued", "worker-claimed", "parsing">>
    BY <1>1, <2>1, AppendTo3 DEF UpToParser
  <2> QED
    BY <1>1, <2>2, AppendTo4 DEF UpToChunker
<1>3. UpToChunker \in Seq(Events)
  BY <1>1, <1>2
<1> DEFINE e == IF plan.embedding THEN <<"embedding">> ELSE <<>>
           i == IF plan.index # "off" THEN <<"indexing">> ELSE <<>>
<1>4. FullTrace(plan) = UpToChunker \o e \o i \o <<"completed">>
  BY <1>2 DEF FullTrace
<1>5. e \in Seq(Events) /\ i \in Seq(Events)
  BY <1>1
<1>6. \A s \in Seq(Events), x \in Events : s \o <<x>> = Append(s, x)
  OBVIOUS
<1>7. \A s \in Seq(Events) : s \o <<>> = s
  OBVIOUS
<1>8. UpToChunker \o e = UpToEmbedding(plan)
  BY <1>1, <1>3, <1>6, <1>7 DEF UpToEmbedding
<1>9. UpToEmbedding(plan) \in Seq(Events)
  BY <1>3, <1>5, <1>8
<1>10. UpToEmbedding(plan) \o i = UpToIndexing(plan)
  BY <1>1, <1>6, <1>7, <1>9 DEF UpToIndexing
<1>11. UpToIndexing(plan) \in Seq(Events)
  BY <1>5, <1>9, <1>10
<1> QED
  BY <1>1, <1>4, <1>6, <1>8, <1>10, <1>11

\* What a stage writes beside the stage and the event.
LEMMA AtStageFields ==
  ASSUME NEW row \in Row, NEW stage, NEW event
  PROVE  LET new == AtStage(row, stage, event) IN
         /\ new.trace = Append(row.trace, event) /\ new.currentStage = stage /\ new.status = row.status
         /\ new.plan = row.plan /\ new.chunks = row.chunks /\ new.embedded = row.embedded /\ new.indexed = row.indexed
BY DEF AtStage, Row

\* The invariant speaks of the corpus.
LEMMA ProgressIsCorpus == Progress => CorpusIsComplete
BY DEF Progress, RowsAreWhole, IsWhole, CorpusIsComplete, Corpus

\* At the start there are no rows.
LEMMA InitProgress == Init => Progress
BY AbsentType DEF Init, Progress, WaitingAreFresh, HeldAreFresh, CurrentIsThere, RowsAreWhole, IsWhole, Inside

\* Points only come, and a row stays whole.
LEMMA WholeStays ==
  ASSUME Progress, NEW t \in Tasks, table'[t] = table[t], points \subseteq points'
  PROVE  IsWhole(table'[t], t, points')
BY DEF Progress, RowsAreWhole, IsWhole

\* A stage of p keeps the progress if it leaves its row as far as p goes.
LEMMA StageProgress ==
  ASSUME IInv, Progress, NEW p \in Procs, NEW row \in Row, NEW next \in Inside,
         UpdateTask(p, row, next), pc[p] \in Inside \ {"resave"},
         row.status # "pending", row.plan = Mine(p).plan,
         Reached(row, next), Stored(row, cur[p], next, points), IsWhole(row, cur[p], points)
  PROVE  Progress'
<1>1. cur[p] \in Tasks /\ cur[p] \in batch[p]
  BY CurrentTask
<1>2. /\ table' = [table EXCEPT ![cur[p]] = row] /\ copy' = [copy EXCEPT ![p][cur[p]] = row]
      /\ pc' = [pc EXCEPT ![p] = next] /\ UNCHANGED <<points, cur, batch>>
  BY DEF UpdateTask, Upsert
<1>3. /\ table'[cur[p]] = row /\ \A t \in Tasks \ {cur[p]} : table'[t] = table[t]
      /\ copy'[p][cur[p]] = row /\ \A t \in Tasks \ {cur[p]} : copy'[p][t] = copy[p][t]
      /\ pc'[p] = next /\ \A q \in Procs \ {p} : copy'[q] = copy[q] /\ pc'[q] = pc[q]
  BY <1>1, <1>2 DEF IInv, TypeOK
<1>4. WaitingAreFresh'
  BY <1>3 DEF Progress, WaitingAreFresh
<1>5. HeldAreFresh'
  <2> SUFFICES ASSUME NEW q \in Procs, NEW t \in batch[q], pc'[q] \notin Inside \/ t # cur[q] PROVE Fresh(copy'[q][t])
    BY <1>2 DEF HeldAreFresh
  <2>1. t \in Tasks
    BY DEF IInv, TypeOK
  <2>2. CASE q = p
    BY <1>3, <2>1, <2>2 DEF Progress, HeldAreFresh
  <2>3. CASE q # p
    BY <1>3, <2>3 DEF Progress, HeldAreFresh
  <2> QED
    BY <2>2, <2>3
<1>6. CurrentIsThere'
  <2> SUFFICES ASSUME NEW q \in Procs, pc'[q] \in Inside
               PROVE  Reached(copy'[q][cur[q]], pc'[q]) /\ Stored(copy'[q][cur[q]], cur[q], pc'[q], points)
    BY <1>2 DEF CurrentIsThere, Mine
  <2>1. CASE q = p
    BY <1>3, <2>1
  <2>2. CASE q # p
    BY <1>3, <2>2 DEF Progress, CurrentIsThere, Mine
  <2> QED
    BY <2>1, <2>2
<1>7. RowsAreWhole'
  BY <1>2, <1>3 DEF Progress, RowsAreWhole, IsWhole
<1> QED
  BY <1>4, <1>5, <1>6, <1>7 DEF Progress

\* Failing a row keeps its plan.
LEMMA FailedPlan ==
  ASSUME NEW row \in Row, NEW stage
  PROVE  Failed(row, stage).plan = row.plan /\ Failed(row, stage).status = "failed"
<1> DEFINE mid == AtStage(row, "failed", "failed")
<1>1. mid \in Row /\ mid.plan = row.plan
  BY AtStageFields, AtStageType DEF Stages, Events
<1> HIDE DEF mid
<1>2. [mid EXCEPT !.status = "failed", !.failureStage = stage].plan = row.plan
  BY <1>1 DEF Row
<1>3. [mid EXCEPT !.status = "failed", !.failureStage = stage].status = "failed"
  BY <1>1 DEF Row
<1> QED
  BY <1>2, <1>3 DEF Failed, mid

\* The stages of _process_task that write the row.
LEMMA StagesProgress ==
  ASSUME IInv, Progress, NEW p \in Procs,
         \/ StartParser(p) \/ FailParser(p) \/ Chunk(p) \/ Embed(p)
         \/ RecordIndex(p) \/ FailIndex(p) \/ Complete(p)
  PROVE  Progress'
<1> DEFINE mine == Mine(p)
           plan == mine.plan
<1>1. pc[p] \in Inside \ {"resave"}
  BY DEF StartParser, FailParser, Chunk, Embed, RecordIndex, FailIndex, Complete, Inside, PCs
<1>2. mine \in Row /\ mine.status = "running"
  BY <1>1, CurrentTask
<1>3. Reached(mine, pc[p]) /\ Stored(mine, cur[p], pc[p], points)
  BY <1>1 DEF Progress, CurrentIsThere
<1>4. plan \in PlanSet /\ plan.embedding \in BOOLEAN
  BY <1>2 DEF Row, PlanSet
<1>5. /\ {"parser", "chunker", "embedding", "indexing", "completed"} \subseteq Stages
      /\ {"parsing", "chunking", "embedding", "indexing", "completed"} \subseteq Events
      /\ {"decide", "embed", "index", "complete", "resave"} \subseteq Inside
      /\ "succeeded" \in Statuses
  BY DEF Stages, Events, Inside, PCs, Statuses
<1>6. CASE StartParser(p)
  <2> DEFINE row == AtStage(mine, "parser", "parsing")
  <2>1. row \in Row /\ row.status = "running" /\ row.plan = plan
    <3>1. row \in Row /\ row.status = "running"
      BY <1>2, <1>5, AtStageType
    <3>2. row.plan = plan
      BY <1>2, AtStageFields
    <3> QED
      BY <3>1, <3>2
  <2>2. Reached(row, "decide")
    BY <1>2, <1>3, <1>6, AtStageFields DEF Reached, StartParser, UpToParser
  <2>3. UpdateTask(p, row, "decide")
    BY <1>6 DEF StartParser
  <2> HIDE DEF row
  <2> QED
    BY <1>1, <1>5, <2>1, <2>2, <2>3, StageProgress DEF Stored, IsWhole
<1>7. CASE FailParser(p)
  <2> DEFINE row == Failed(mine, "parser")
  <2>1. row \in Row /\ row.status = "failed" /\ row.plan = plan
    BY <1>2, FailedType, FailedPlan
  <2>2. UpdateTask(p, row, "resave")
    BY <1>7 DEF FailParser
  <2> HIDE DEF row
  <2> QED
    BY <1>1, <1>5, <2>1, <2>2, StageProgress DEF Reached, Stored, IsWhole
<1>8. CASE Chunk(p)
  <2> DEFINE mid == AtStage(mine, "chunker", "chunking")
             row == [mid EXCEPT !.chunks = TRUE]
  <2>1. mid \in Row /\ mid.status = "running" /\ mid.plan = plan
    <3>1. mid \in Row /\ mid.status = "running"
      BY <1>2, <1>5, AtStageType
    <3>2. mid.plan = plan
      BY <1>2, AtStageFields
    <3> QED
      BY <3>1, <3>2
  <2>2. mid.trace = UpToChunker /\ ~mid.embedded /\ ~mid.indexed
    BY <1>2, <1>3, <1>8, AtStageFields DEF Reached, Chunk, UpToChunker
  <2>3. UpdateTask(p, row, EmbedStep(plan))
    BY <1>8 DEF Chunk
  <2> HIDE DEF mid
  <2>4. row \in Row /\ row.status = "running" /\ row.plan = plan /\ row.chunks
        /\ row.trace = UpToChunker /\ row.embedded = FALSE /\ row.indexed = FALSE
    BY <2>1, <2>2 DEF Row
  <2> HIDE DEF row
  <2>5. EmbedStep(plan) \in {"embed", "index", "complete"}
    BY DEF EmbedStep, IndexStep
  <2>6. Reached(row, EmbedStep(plan))
    <3>1. CASE plan.embedding
      BY <2>4, <3>1 DEF Reached, EmbedStep
    <3>2. CASE ~plan.embedding /\ plan.index # "off"
      BY <1>4, <2>4, <3>2 DEF Reached, EmbedStep, IndexStep, UpToEmbedding
    <3>3. CASE ~plan.embedding /\ plan.index = "off"
      BY <1>4, <2>4, <3>3 DEF Reached, EmbedStep, IndexStep, UpToEmbedding, UpToIndexing
    <3> QED
      BY <3>1, <3>2, <3>3
  <2>7. Stored(row, cur[p], EmbedStep(plan), points)
    BY <2>4 DEF Stored, EmbedStep, IndexStep
  <2> QED
    BY <1>1, <1>5, <2>3, <2>4, <2>5, <2>6, <2>7, StageProgress DEF IsWhole
<1>9. CASE Embed(p)
  <2> DEFINE mid == AtStage(mine, "embedding", "embedding")
             row == [mid EXCEPT !.embedded = TRUE]
  <2>1. mid \in Row /\ mid.status = "running" /\ mid.plan = plan
    <3>1. mid \in Row /\ mid.status = "running"
      BY <1>2, <1>5, AtStageType
    <3>2. mid.plan = plan
      BY <1>2, AtStageFields
    <3> QED
      BY <3>1, <3>2
  <2>2. mid.trace = UpToEmbedding(plan) /\ mid.chunks /\ ~mid.indexed /\ plan.embedding
    <3>1. mine.trace = UpToChunker /\ mine.chunks /\ ~mine.indexed /\ plan.embedding
      BY <1>3, <1>9 DEF Reached, Embed
    <3>2. mid.trace = Append(mine.trace, "embedding") /\ mid.chunks = mine.chunks /\ mid.indexed = mine.indexed
      BY <1>2, AtStageFields
    <3> QED
      BY <3>1, <3>2 DEF UpToEmbedding
  <2>3. UpdateTask(p, row, IndexStep(plan))
    BY <1>9 DEF Embed
  <2> HIDE DEF mid
  <2>4. row \in Row /\ row.status = "running" /\ row.plan = plan /\ row.chunks
        /\ row.trace = UpToEmbedding(plan) /\ row.embedded = plan.embedding /\ row.indexed = FALSE
    BY <1>4, <2>1, <2>2 DEF Row
  <2> HIDE DEF row
  <2>5. IndexStep(plan) \in {"index", "complete"}
    BY DEF IndexStep
  <2>6. Reached(row, IndexStep(plan))
    <3>1. CASE plan.index # "off"
      BY <2>4, <3>1 DEF Reached, IndexStep
    <3>2. CASE plan.index = "off"
      BY <2>4, <3>2 DEF Reached, IndexStep, UpToIndexing
    <3> QED
      BY <3>1, <3>2
  <2>7. Stored(row, cur[p], IndexStep(plan), points)
    BY <2>4 DEF Stored, IndexStep
  <2> QED
    BY <1>1, <1>5, <2>3, <2>4, <2>5, <2>6, <2>7, StageProgress DEF IsWhole
<1>10. CASE RecordIndex(p)
  <2> DEFINE mid == AtStage(mine, "indexing", "indexing")
             row == [mid EXCEPT !.indexed = TRUE]
  <2>1. mid \in Row /\ mid.status = "running" /\ mid.plan = plan
    <3>1. mid \in Row /\ mid.status = "running"
      BY <1>2, <1>5, AtStageType
    <3>2. mid.plan = plan
      BY <1>2, AtStageFields
    <3> QED
      BY <3>1, <3>2
  <2>2. mid.trace = UpToIndexing(plan) /\ mid.chunks /\ mid.embedded = plan.embedding /\ plan.index # "off"
    BY <1>2, <1>3, <1>10, AtStageFields DEF Reached, RecordIndex, UpToIndexing
  <2>3. UpdateTask(p, row, "complete")
    BY <1>10 DEF RecordIndex
  <2>4. plan.index = "qdrant" => cur[p] \in points
    BY <1>3, <1>10 DEF Stored, RecordIndex
  <2> HIDE DEF mid
  <2>5. row \in Row /\ row.status = "running" /\ row.plan = plan /\ row.chunks
        /\ row.trace = UpToIndexing(plan) /\ row.embedded = plan.embedding /\ row.indexed
    BY <2>1, <2>2 DEF Row
  <2> HIDE DEF row
  <2>6. Reached(row, "complete")
    BY <2>2, <2>5 DEF Reached
  <2>7. Stored(row, cur[p], "complete", points)
    BY <2>4, <2>5 DEF Stored
  <2> QED
    BY <1>1, <1>5, <2>3, <2>5, <2>6, <2>7, StageProgress DEF IsWhole
<1>11. CASE FailIndex(p)
  <2> DEFINE row == Failed(mine, "indexing")
  <2>1. row \in Row /\ row.status = "failed" /\ row.plan = plan
    BY <1>2, FailedType, FailedPlan
  <2>2. UpdateTask(p, row, "resave")
    BY <1>11 DEF FailIndex
  <2> HIDE DEF row
  <2> QED
    BY <1>1, <1>5, <2>1, <2>2, StageProgress DEF Reached, Stored, IsWhole
<1>12. CASE Complete(p)
  <2> DEFINE mid == AtStage(mine, "completed", "completed")
             row == [mid EXCEPT !.status = "succeeded"]
  <2>1. mid \in Row /\ mid.plan = plan
    BY <1>2, <1>5, AtStageType, AtStageFields
  <2>2. mid.trace = Append(UpToIndexing(plan), "completed") /\ mid.chunks
        /\ mid.embedded = plan.embedding /\ mid.indexed = (plan.index # "off")
    BY <1>2, <1>3, <1>12, AtStageFields DEF Reached, Complete
  <2>3. UpdateTask(p, row, "resave")
    BY <1>12 DEF Complete
  <2>4. plan.index = "qdrant" => cur[p] \in points
    BY <1>3, <1>12 DEF Stored, Complete
  <2>5. mid.trace = FullTrace(plan)
    BY <1>4, <2>2, TraceIsWhole
  <2> HIDE DEF mid
  <2>6. row \in Row /\ row.status = "succeeded" /\ row.plan = plan /\ row.chunks
        /\ row.trace = FullTrace(plan) /\ row.embedded = plan.embedding /\ row.indexed = (plan.index # "off")
    BY <1>5, <2>1, <2>2, <2>5 DEF Row
  <2> HIDE DEF row
  <2>7. IsWhole(row, cur[p], points)
    BY <2>4, <2>6 DEF IsWhole
  <2> QED
    BY <1>1, <1>5, <2>3, <2>6, <2>7, StageProgress DEF Reached, Stored
<1> QED
  BY <1>6, <1>7, <1>8, <1>9, <1>10, <1>11, <1>12

\* What a step of p leaves of the progress, if the rows and p itself are as far as they should be.
LEMMA LocalProgress ==
  ASSUME Progress, NEW p \in Procs, points \subseteq points',
         \A q \in Procs \ {p} : copy'[q] = copy[q] /\ pc'[q] = pc[q] /\ cur'[q] = cur[q] /\ batch'[q] = batch[q],
         \A t \in Tasks : table'[t].status = "pending" => Fresh(table'[t]),
         \A t \in Tasks : IsWhole(table'[t], t, points'),
         \A t \in batch'[p] : pc'[p] \notin Inside \/ t # cur'[p] => Fresh(copy'[p][t]),
         pc'[p] \in Inside => Reached(copy'[p][cur'[p]], pc'[p]) /\ Stored(copy'[p][cur'[p]], cur'[p], pc'[p], points')
  PROVE  Progress'
<1>1. WaitingAreFresh' /\ RowsAreWhole'
  BY DEF WaitingAreFresh, RowsAreWhole
<1>2. HeldAreFresh'
  <2> SUFFICES ASSUME NEW q \in Procs, NEW t \in batch'[q], pc'[q] \notin Inside \/ t # cur'[q] PROVE Fresh(copy'[q][t])
    BY DEF HeldAreFresh
  <2>1. CASE q = p
    BY <2>1
  <2>2. CASE q # p
    BY <2>2 DEF Progress, HeldAreFresh
  <2> QED
    BY <2>1, <2>2
<1>3. CurrentIsThere'
  <2> SUFFICES ASSUME NEW q \in Procs, pc'[q] \in Inside
               PROVE  Reached(copy'[q][cur'[q]], pc'[q]) /\ Stored(copy'[q][cur'[q]], cur'[q], pc'[q], points')
    BY DEF CurrentIsThere, Mine
  <2>1. CASE q = p
    BY <2>1
  <2>2. CASE q # p
    <3>1. Reached(copy[q][cur[q]], pc[q]) /\ Stored(copy[q][cur[q]], cur[q], pc[q], points)
      BY <2>2 DEF Progress, CurrentIsThere, Mine
    <3> QED
      BY <2>2, <3>1 DEF Stored
  <2> QED
    BY <2>1, <2>2
<1> QED
  BY <1>1, <1>2, <1>3 DEF Progress

\* A new task has not been begun.
LEMMA CreateProgress ==
  ASSUME IInv, Progress, NEW t \in Tasks, NEW plan \in PlanSet, NEW at \in Nat, Create(t, plan, at)
  PROVE  Progress'
<1> DEFINE first == <<"task-created", "queued">>
<1>1. first \in Seq(Events)
  BY DEF Events
<1>2. NewRow(plan, at) = [Absent EXCEPT !.status = "pending", !.trace = first, !.createdAt = at, !.plan = plan]
  BY DEF NewRow
<1>3. first = Untouched
  BY DEF Untouched
<1> HIDE DEF first
<1>4. NewRow(plan, at).trace = Untouched /\ ~NewRow(plan, at).chunks
      /\ ~NewRow(plan, at).embedded /\ ~NewRow(plan, at).indexed
  BY <1>1, <1>2, <1>3 DEF Absent
<1>5. NewRow(plan, at).status = "pending"
  BY NewRowType
<1>6. table'[t] = NewRow(plan, at) /\ (\A u \in Tasks \ {t} : table'[u] = table[u])
      /\ UNCHANGED <<points, pc, cur, batch, copy>>
  BY DEF Create, IInv, TypeOK
<1>7. \A u \in Tasks : table'[u].status = "pending" => Fresh(table'[u])
  BY <1>4, <1>6 DEF Fresh, Progress, WaitingAreFresh
<1>8. \A u \in Tasks : IsWhole(table'[u], u, points')
  BY <1>5, <1>6 DEF IsWhole, Progress, RowsAreWhole
<1>9. WaitingAreFresh' /\ RowsAreWhole'
  BY <1>7, <1>8 DEF WaitingAreFresh, RowsAreWhole
<1>10. HeldAreFresh' /\ CurrentIsThere'
  BY <1>6 DEF Progress, HeldAreFresh, CurrentIsThere, Mine
<1> QED
  BY <1>9, <1>10 DEF Progress

\* A claim writes the status and the owner only.
LEMMA ClaimedFields ==
  ASSUME NEW p \in Procs, NEW t \in Tasks, table[t] \in Row, Fresh(table[t])
  PROVE  Fresh(Claimed(p, t))
BY DEF Claimed, Row, Fresh

\* What a claim takes was pending, so nobody has begun it.
LEMMA ClaimProgress ==
  ASSUME IInv, Progress, NEW p \in Procs, NEW limit, NEW ids \in SUBSET Tasks, Claim(p, limit, ids)
  PROVE  Progress'
<1>1. PICK C \in SUBSET Tasks :
        /\ \A t \in C : Pending(t)
        /\ table' = [t \in Tasks |-> IF t \in C THEN Claimed(p, t) ELSE table[t]]
        /\ copy' = [copy EXCEPT ![p] = [t \in Tasks |-> IF t \in C THEN Claimed(p, t) ELSE Absent]]
        /\ batch' = [batch EXCEPT ![p] = C]
  BY DEF Claim, Oldest, Eligible
<1>2. pc' = [pc EXCEPT ![p] = "next"] /\ UNCHANGED <<points, cur>>
  BY DEF Claim
<1>3. \A t \in C : Fresh(Claimed(p, t)) /\ Claimed(p, t).status = "running"
  BY <1>1, ClaimedFields, ClaimedType DEF IInv, TypeOK, Pending, Progress, WaitingAreFresh
<1>4. /\ \A t \in C : table'[t] = Claimed(p, t)
      /\ \A t \in Tasks \ C : table'[t] = table[t]
      /\ \A t \in C : copy'[p][t] = Claimed(p, t)
      /\ batch'[p] = C /\ pc'[p] = "next"
      /\ \A q \in Procs \ {p} : copy'[q] = copy[q] /\ pc'[q] = pc[q] /\ cur'[q] = cur[q] /\ batch'[q] = batch[q]
  BY <1>1, <1>2 DEF IInv, TypeOK
<1>5. \A t \in Tasks : table'[t].status = "pending" => Fresh(table'[t])
  BY <1>3, <1>4 DEF Progress, WaitingAreFresh
<1>6. \A t \in Tasks : IsWhole(table'[t], t, points')
  BY <1>2, <1>3, <1>4 DEF IsWhole, Progress, RowsAreWhole
<1>7. \A t \in batch'[p] : Fresh(copy'[p][t])
  BY <1>3, <1>4
<1>8. pc'[p] \notin Inside
  BY <1>4 DEF Inside
<1> QED
  BY <1>2, <1>4, <1>5, <1>6, <1>7, <1>8, LocalProgress

\* The first stage of a task nobody had begun.
LEMMA BeginProgress ==
  ASSUME IInv, Progress, NEW p \in Procs, Begin(p)
  PROVE  Progress'
<1>1. PICK t \in batch[p] :
        /\ table' = [table EXCEPT ![t] = [AtStage(copy[p][t], "parser", "worker-claimed") EXCEPT !.attemptCount = @ + 1]]
        /\ copy' = [copy EXCEPT ![p][t] = [AtStage(copy[p][t], "parser", "worker-claimed") EXCEPT !.attemptCount = @ + 1]]
        /\ cur' = [cur EXCEPT ![p] = t]
  BY DEF Begin, Upsert
<1>2. /\ pc[p] = "next"
      /\ pc' = [pc EXCEPT ![p] = "parse"]
      /\ UNCHANGED <<points, batch>>
  BY DEF Begin
<1> DEFINE mid == AtStage(copy[p][t], "parser", "worker-claimed")
           row == [mid EXCEPT !.attemptCount = @ + 1]
<1>3. t \in Tasks /\ copy[p][t] \in Row /\ copy[p][t].status = "running"
  BY <1>2 DEF IInv, TypeOK, HeldIsRunning
<1>4. mid \in Row /\ mid.status = "running"
  BY <1>3, AtStageType DEF Stages, Events
<1>5. Fresh(copy[p][t])
  BY <1>2 DEF Progress, HeldAreFresh, Inside
<1>6. mid.trace = UpToClaim /\ ~mid.chunks /\ ~mid.embedded /\ ~mid.indexed
  <2>1. mid.trace = Append(copy[p][t].trace, "worker-claimed") /\ mid.chunks = copy[p][t].chunks
        /\ mid.embedded = copy[p][t].embedded /\ mid.indexed = copy[p][t].indexed
    BY <1>3, AtStageFields
  <2> QED
    BY <1>5, <2>1 DEF Fresh, UpToClaim
<1>7. table' = [table EXCEPT ![t] = row] /\ copy' = [copy EXCEPT ![p][t] = row]
  BY <1>1
<1> HIDE DEF mid
<1>8. row.status = "running" /\ row.trace = UpToClaim /\ ~row.chunks /\ ~row.embedded /\ ~row.indexed
  BY <1>4, <1>6 DEF Row
<1> HIDE DEF row
<1>9. /\ table'[t] = row /\ copy'[p][t] = row /\ cur'[p] = t /\ pc'[p] = "parse" /\ batch'[p] = batch[p]
      /\ \A u \in Tasks \ {t} : table'[u] = table[u] /\ copy'[p][u] = copy[p][u]
      /\ \A q \in Procs \ {p} : copy'[q] = copy[q] /\ pc'[q] = pc[q] /\ cur'[q] = cur[q] /\ batch'[q] = batch[q]
  BY <1>1, <1>2, <1>3, <1>7 DEF IInv, TypeOK
<1>10. \A u \in Tasks : table'[u].status = "pending" => Fresh(table'[u])
  BY <1>8, <1>9 DEF Progress, WaitingAreFresh
<1>11. \A u \in Tasks : IsWhole(table'[u], u, points')
  BY <1>2, <1>8, <1>9 DEF IsWhole, Progress, RowsAreWhole
<1>12. \A u \in batch'[p] : u # cur'[p] => Fresh(copy'[p][u])
  BY <1>2, <1>9 DEF Progress, HeldAreFresh, Inside, IInv, TypeOK
<1>13. Reached(copy'[p][cur'[p]], pc'[p]) /\ Stored(copy'[p][cur'[p]], cur'[p], pc'[p], points')
  BY <1>8, <1>9 DEF Reached, Stored
<1>14. pc'[p] \in Inside
  BY <1>9 DEF Inside, PCs
<1> QED
  BY <1>2, <1>9, <1>10, <1>11, <1>12, <1>13, <1>14, LocalProgress

\* Writing to the vector store moves the process only.
LEMMA WriteIndexProgress ==
  ASSUME IInv, Progress, NEW p \in Procs, WriteIndex(p)
  PROVE  Progress'
<1>1. pc[p] = "index" /\ pc[p] \in Inside /\ UNCHANGED <<table, cur, batch, copy>>
  BY DEF WriteIndex, Inside, PCs
<1>2. Reached(Mine(p), "index")
  BY <1>1 DEF Progress, CurrentIsThere
<1>3. PICK next \in {"indexed", "unindexed"} :
        /\ pc' = [pc EXCEPT ![p] = next]
        /\ next = "indexed" /\ Mine(p).plan.index = "qdrant" => cur[p] \in points'
  BY DEF WriteIndex
<1>4. points \subseteq points'
  BY DEF WriteIndex
<1>5. pc'[p] = next /\ \A q \in Procs \ {p} : pc'[q] = pc[q]
  BY <1>3 DEF IInv, TypeOK
<1>6. \A t \in Tasks : IsWhole(table'[t], t, points')
  BY <1>1, <1>4 DEF IsWhole, Progress, RowsAreWhole
<1>7. \A t \in Tasks : table'[t].status = "pending" => Fresh(table'[t])
  BY <1>1 DEF Progress, WaitingAreFresh
<1>8. \A t \in batch'[p] : pc'[p] \notin Inside \/ t # cur'[p] => Fresh(copy'[p][t])
  BY <1>1, <1>5 DEF Progress, HeldAreFresh, Inside, PCs
<1>9. Reached(copy'[p][cur'[p]], pc'[p]) /\ Stored(copy'[p][cur'[p]], cur'[p], pc'[p], points')
  BY <1>1, <1>2, <1>3, <1>5 DEF Reached, Stored, Mine
<1> QED
  BY <1>1, <1>4, <1>5, <1>6, <1>7, <1>8, <1>9, LocalProgress

\* The repeated upsert writes what is there and lets the task go.
LEMMA ResaveProgress ==
  ASSUME IInv, Progress, NEW p \in Procs, Resave(p)
  PROVE  Progress'
<1>1. pc[p] = "resave" /\ pc[p] \in Inside
  BY DEF Resave, Inside, PCs
<1>2. cur[p] \in Tasks /\ cur[p] \in batch[p] /\ Mine(p) = table[cur[p]]
  BY <1>1, CurrentTask
<1>3. table' = table
  BY <1>2 DEF Resave, Upsert, IInv, TypeOK
<1>4. /\ pc'[p] = "next" /\ batch'[p] = batch[p] \ {cur[p]} /\ points' = points
      /\ \A t \in Tasks \ {cur[p]} : copy'[p][t] = copy[p][t]
      /\ \A q \in Procs \ {p} : copy'[q] = copy[q] /\ pc'[q] = pc[q] /\ cur'[q] = cur[q] /\ batch'[q] = batch[q]
  BY DEF Resave, IInv, TypeOK
<1>5. \A t \in batch'[p] : Fresh(copy'[p][t])
  BY <1>4 DEF Progress, HeldAreFresh, IInv, TypeOK
<1>6. \A t \in Tasks : IsWhole(table'[t], t, points') /\ (table'[t].status = "pending" => Fresh(table'[t]))
  BY <1>3, <1>4 DEF Progress, RowsAreWhole, WaitingAreFresh
<1>7. pc'[p] \notin Inside
  BY <1>4 DEF Inside
<1> QED
  BY <1>4, <1>5, <1>6, <1>7, LocalProgress

\* A process that lets go of all it held, or held nothing, is inside nothing.
LEMMA OutsideProgress ==
  ASSUME IInv, Progress, NEW p \in Procs, UNCHANGED points, batch'[p] = {}, pc'[p] \in {"idle", "down"},
         \A q \in Procs \ {p} : copy'[q] = copy[q] /\ pc'[q] = pc[q] /\ cur'[q] = cur[q] /\ batch'[q] = batch[q],
         table' = table \/ table' = [t \in Tasks |-> Absent]
  PROVE  Progress'
<1>1. \A t \in Tasks : table'[t] = table[t] \/ table'[t] = Absent
  OBVIOUS
<1>2. \A t \in Tasks : IsWhole(table'[t], t, points') /\ (table'[t].status = "pending" => Fresh(table'[t]))
  BY <1>1, AbsentType DEF Progress, RowsAreWhole, WaitingAreFresh, IsWhole
<1>3. pc'[p] \notin Inside
  BY DEF Inside
<1> QED
  BY <1>2, <1>3, LocalProgress

\* Every step of the system keeps the progress.
LEMMA NextProgress == IInv /\ Progress /\ [Next]_vars => Progress'
<1> SUFFICES ASSUME IInv, Progress, [Next]_vars PROVE Progress'
  OBVIOUS
<1>1. ASSUME NEW t \in Tasks, NEW plan \in Plans, NEW at \in 0..MaxTime, Create(t, plan, at) PROVE Progress'
  <2>1. plan \in PlanSet /\ at \in Nat
    BY PlansAssumption, LimitsAssumption
  <2> QED
    BY <1>1, <2>1, CreateProgress
<1>2. ASSUME NEW p \in Procs, NEW limit, NEW ids \in SUBSET Tasks, Claim(p, limit, ids) PROVE Progress'
  BY <1>2, ClaimProgress
<1>3. ASSUME NEW p \in Procs, Step(p) PROVE Progress'
  <2>1. CASE Return(p)
    <3>1. batch'[p] = {} /\ pc'[p] = "idle" /\ UNCHANGED <<table, points>>
          /\ \A q \in Procs \ {p} : copy'[q] = copy[q] /\ pc'[q] = pc[q] /\ cur'[q] = cur[q] /\ batch'[q] = batch[q]
      BY <2>1 DEF Return, IInv, TypeOK
    <3> QED
      BY <3>1, OutsideProgress
  <2>2. CASE Begin(p) \/ WriteIndex(p) \/ Resave(p)
    BY <2>2, BeginProgress, WriteIndexProgress, ResaveProgress
  <2> QED
    BY <1>3, <2>1, <2>2, StagesProgress DEF Step
<1>4. ASSUME NEW p \in Procs, Abort(p) \/ Crash(p) PROVE Progress'
  <2>1. batch'[p] = {} /\ pc'[p] \in {"idle", "down"} /\ UNCHANGED points
        /\ \A q \in Procs \ {p} : copy'[q] = copy[q] /\ pc'[q] = pc[q] /\ cur'[q] = cur[q] /\ batch'[q] = batch[q]
    BY <1>4 DEF Abort, Crash, Forget, IInv, TypeOK
  <2>2. table' = table \/ table' = [t \in Tasks |-> Absent]
    BY <1>4 DEF Abort, Crash
  <2> QED
    BY <2>1, <2>2, OutsideProgress
<1>5. ASSUME NEW p \in Procs, Restart(p) PROVE Progress'
  <2>1. pc[p] = "down" /\ pc'[p] = "idle" /\ UNCHANGED <<table, points, cur, batch, copy>>
        /\ \A q \in Procs \ {p} : pc'[q] = pc[q]
    BY <1>5 DEF Restart, IInv, TypeOK
  <2>2. batch'[p] = {}
    BY <2>1 DEF IInv, HoldsInRun
  <2> QED
    BY <2>1, <2>2, OutsideProgress
<1>6. CASE UNCHANGED vars
  BY <1>6 DEF vars, Progress, WaitingAreFresh, HeldAreFresh, CurrentIsThere, RowsAreWhole, Mine
<1> QED
  BY <1>1, <1>2, <1>3, <1>4, <1>5, <1>6 DEF Next, Poll, Procs

\* A task the searches read has run all the stages of its plan, none of them out of order, and
\* what its plan asks to be indexed is in the vector store (_process_task, iter_ingestion_corpus).
THEOREM CorpusIsWhole == Spec => []CorpusIsComplete
<1>1. Spec => []IInv
  BY InductiveInvariant
<1>2. Init => Progress
  BY InitProgress
<1>3. IInv /\ Progress /\ [Next]_vars => Progress'
  BY NextProgress
<1>4. Progress => CorpusIsComplete
  BY ProgressIsCorpus
<1> QED
  BY <1>1, <1>2, <1>3, <1>4, PTL DEF Spec

-----------------------------------------------------------------------------
(* The vector store *)

\* A row that is not there has no chunks, so that a task in the store is one somebody created.
PointsInv == PointsHaveChunks /\ \A t \in Tasks : table[t].status = "absent" => ~table[t].chunks

\* No step writes an absent row, but for a table that goes with its process.
AbsentStay == \A t \in Tasks : table'[t].status = "absent" => table'[t] = table[t] \/ table'[t] = Absent

\* No step makes a row absent that says anything.
LEMMA NextAbsent == IInv /\ [Next]_vars => AbsentStay
<1> SUFFICES ASSUME IInv, [Next]_vars PROVE AbsentStay
  OBVIOUS
<1>1. ASSUME NEW t \in Tasks, NEW plan \in Plans, NEW at \in 0..MaxTime, Create(t, plan, at) PROVE AbsentStay
  <2>1. plan \in PlanSet /\ at \in Nat
    BY PlansAssumption, LimitsAssumption
  <2>2. NewRow(plan, at).status = "pending"
    BY <2>1, NewRowType
  <2> QED
    BY <1>1, <2>2 DEF Create, AbsentStay, IInv, TypeOK
<1>2. ASSUME NEW p \in Procs, NEW limit, NEW ids \in SUBSET Tasks, Claim(p, limit, ids) PROVE AbsentStay
  <2>1. PICK C \in SUBSET Tasks : table' = [t \in Tasks |-> IF t \in C THEN Claimed(p, t) ELSE table[t]]
    BY <1>2 DEF Claim, Oldest, Eligible
  <2>2. \A t \in C : Claimed(p, t).status = "running"
    BY ClaimedType DEF IInv, TypeOK
  <2> QED
    BY <2>1, <2>2 DEF AbsentStay
<1>3. ASSUME NEW p \in Procs, Step(p) PROVE AbsentStay
  <2>1. CASE StageUpdate(p)
    <3>1. PICK row \in Row, next \in Inside :
            UpdateTask(p, row, next) /\ row.status \in {"running", "succeeded", "failed"}
      BY <2>1 DEF StageUpdate
    <3> QED
      BY <3>1 DEF UpdateTask, Upsert, AbsentStay, IInv, TypeOK
  <2>2. CASE Begin(p)
    <3>1. PICK t \in batch[p] :
            table' = [table EXCEPT ![t] = [AtStage(copy[p][t], "parser", "worker-claimed") EXCEPT !.attemptCount = @ + 1]]
      BY <2>2 DEF Begin, Upsert
    <3> DEFINE mid == AtStage(copy[p][t], "parser", "worker-claimed")
               row == [mid EXCEPT !.attemptCount = @ + 1]
    <3>2. t \in Tasks /\ copy[p][t] \in Row /\ copy[p][t].status = "running"
      BY <2>2 DEF Begin, IInv, TypeOK, HeldIsRunning
    <3>3. mid \in Row /\ mid.status = "running"
      BY <3>2, AtStageType DEF Stages, Events
    <3> HIDE DEF mid
    <3>4. row.status = "running"
      BY <3>3 DEF Row
    <3>5. table' = [table EXCEPT ![t] = row]
      BY <3>1 DEF mid
    <3> HIDE DEF row
    <3> QED
      BY <3>2, <3>4, <3>5 DEF AbsentStay, IInv, TypeOK
  <2>3. CASE Resave(p)
    <3>1. Mine(p) = table[cur[p]]
      BY <2>3, CurrentTask DEF Resave, Inside, PCs
    <3> QED
      BY <2>3, <3>1 DEF Resave, Upsert, AbsentStay, IInv, TypeOK
  <2>4. CASE WriteIndex(p) \/ Return(p)
    BY <2>4 DEF WriteIndex, Return, AbsentStay
  <2> QED
    BY <1>3, <2>1, <2>2, <2>3, <2>4, StagesUpdate DEF Step
<1>4. ASSUME NEW p \in Procs, Abort(p) \/ Crash(p) \/ Restart(p) PROVE AbsentStay
  BY <1>4 DEF Abort, Crash, Restart, AbsentStay
<1>5. CASE UNCHANGED vars
  BY <1>5 DEF vars, AbsentStay
<1> QED
  BY <1>1, <1>2, <1>3, <1>4, <1>5 DEF Next, Poll, Procs

\* What a step adds to the store is the task a process is indexing.
LEMMA NextPoints ==
  ASSUME IInv, [Next]_vars
  PROVE  \A t \in points' \ points :
           \E p \in Procs : t = cur[p] /\ pc[p] = "index" /\ Mine(p).plan.index = "qdrant" /\ UNCHANGED table
<1>1. CASE UNCHANGED points
  BY <1>1
<1>2. ASSUME NEW p \in Procs, WriteIndex(p)
      PROVE  \A t \in points' \ points :
               t = cur[p] /\ pc[p] = "index" /\ Mine(p).plan.index = "qdrant" /\ UNCHANGED table
  BY <1>2 DEF WriteIndex
<1>3. ASSUME NEW p \in Procs, Step(p), ~WriteIndex(p) PROVE UNCHANGED points
  BY <1>3 DEF Step, Begin, StartParser, FailParser, Chunk, Embed, RecordIndex, FailIndex, Complete,
              Resave, Return, UpdateTask
<1>4. ASSUME NEW p \in Procs, Abort(p) \/ Crash(p) \/ Restart(p) PROVE UNCHANGED points
  BY <1>4 DEF Abort, Crash, Restart, Forget
<1>5. ASSUME NEW t \in Tasks, NEW plan \in Plans, NEW at \in 0..MaxTime, Create(t, plan, at) PROVE UNCHANGED points
  BY <1>5 DEF Create
<1>6. ASSUME NEW p \in Procs, NEW limit, NEW ids \in SUBSET Tasks, Claim(p, limit, ids) PROVE UNCHANGED points
  BY <1>6 DEF Claim
<1>7. CASE UNCHANGED vars
  BY <1>7 DEF vars
<1> QED
  BY <1>1, <1>2, <1>3, <1>4, <1>5, <1>6, <1>7 DEF Next, Poll, Procs

\* Every step keeps what is in the store.
LEMMA NextPointsInv ==
  ASSUME Backend = "sqlite", IInv, Progress, PointsInv, [Next]_vars
  PROVE  PointsInv'
<1>1. RowStep
  BY NextRows
<1>2. AbsentStay
  BY NextAbsent
<1>3. \A t \in Tasks : table'[t].status = "absent" => ~table'[t].chunks
  <2>1. ~Absent.chunks
    BY DEF Absent
  <2> QED
    BY <1>2, <2>1 DEF AbsentStay, PointsInv
<1>4. ASSUME NEW t \in points, t \in Tasks PROVE table'[t].chunks /\ table'[t].plan.index = "qdrant"
  <2>1. table[t].chunks /\ table[t].plan.index = "qdrant" /\ Exists(t)
    BY <1>4 DEF PointsInv, PointsHaveChunks, Exists
  <2> QED
    BY <1>1, <1>4, <2>1 DEF RowStep, Extends
<1>5. ASSUME NEW t \in points' \ points PROVE table'[t].chunks /\ table'[t].plan.index = "qdrant"
  <2>1. PICK p \in Procs : t = cur[p] /\ pc[p] = "index" /\ Mine(p).plan.index = "qdrant" /\ UNCHANGED table
    BY NextPoints
  <2>2. pc[p] \in Inside
    BY <2>1 DEF Inside, PCs
  <2>3. Mine(p) = table[t]
    BY <2>1, <2>2, CurrentTask
  <2>4. Mine(p).chunks
    BY <2>1, <2>2 DEF Progress, CurrentIsThere, Reached
  <2> QED
    BY <2>1, <2>3, <2>4
<1>6. points \subseteq Tasks
  BY DEF IInv, TypeOK
<1> QED
  BY <1>3, <1>4, <1>5, <1>6 DEF PointsInv, PointsHaveChunks

\* With rows that outlive their process the vector store holds nothing of a task that was never
\* chunked or whose plan does not write there (_index_chunks).
THEOREM PointsAreChunked == Backend = "sqlite" /\ Spec => []PointsHaveChunks
<1> SUFFICES ASSUME Backend = "sqlite" PROVE Spec => []PointsHaveChunks
  OBVIOUS
<1>1. Init => Progress /\ PointsInv
  BY InitProgress DEF Init, PointsInv, PointsHaveChunks, Absent
<1>2. IInv /\ (Progress /\ PointsInv) /\ [Next]_vars => (Progress /\ PointsInv)'
  BY NextProgress, NextPointsInv
<1>3. Progress /\ PointsInv => PointsHaveChunks
  BY DEF PointsInv
<1> QED
  BY <1>1, <1>2, <1>3, InductiveInvariant, PTL DEF Spec
=============================================================================
