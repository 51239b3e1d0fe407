------------------------ MODULE PostgresStorageProofs ------------------------
(***************************************************************************)
(* Theorems about PostgresStorage, for any set of mutations.  TaskInv      *)
(* holds whatever the database does with a statement whose client is gone; *)
(* the chain from the row to the cache, and what follows from it, holds if *)
(* it drops such a statement.                                              *)
(***************************************************************************)
EXTENDS PostgresStorage, TLAPS

(* Nullable blobs *)

\* A nullable blob is null or holds one blob, which is then its union.
LEMMA NullableCases ==
  ASSUME NEW x \in Nullable
  PROVE  x = {} \/ \E s \in Blob : x = {s}
BY DEF Nullable

\* The union of null is the seed, and of a blob the blob.
LEMMA Unions == UNION {} = {} /\ \A s : UNION {s} = s
OBVIOUS

\* Whatever is read from a nullable blob is a blob.
LEMMA UnionIsBlob ==
  ASSUME NEW x \in Nullable
  PROVE  UNION x \in Blob
<1>1. CASE x = {}
  BY <1>1, Unions DEF Blob
<1>2. CASE \E s \in Blob : x = {s}
  BY <1>2, Unions
<1>. QED  BY <1>1, <1>2, NullableCases

\* Null and a blob put in its box are nullable.
LEMMA Boxes == {} \in Nullable /\ \A s \in Blob : {s} \in Nullable
BY DEF Nullable

\* Two boxes with the same content are the same box.
LEMMA BoxOf ==
  ASSUME NEW x \in Nullable, x # {}
  PROVE  x = {UNION x}
BY NullableCases, Unions

-----------------------------------------------------------------------------
(* The task *)

\* The invariant of the task holds before the first process starts.
LEMMA InitTask == Init => TaskInv
BY Boxes DEF Init, TaskInv, TypeOK, NoSpin, LatestIsQueued, TaskShape, Blob

\* A process that starts has no task and nothing to write.
LEMMA StartTask == TaskInv /\ Start => TaskInv'
<1>. SUFFICES ASSUME TaskInv, Start PROVE TaskInv'
  OBVIOUS
<1>1. cache' \in Blob
  BY UnionIsBlob DEF Start, TaskInv, TypeOK
<1>2. TypeOK'
  BY <1>1 DEF Start, TaskInv, TypeOK
<1>. QED  BY <1>2 DEF Start, TaskInv, NoSpin, LatestIsQueued, TaskShape

\* A mutation is queued, if there is a task, or starts one.
LEMMA MutateTask ==
  ASSUME TaskInv, NEW m \in Mutations, Mutate(m)
  PROVE  TaskInv'
<1>1. cache' \in Blob /\ used' \in Blob /\ {cache'} \in Nullable
  BY Boxes DEF Mutate, TaskInv, TypeOK, Blob
<1>2. {cache'} # {}
  OBVIOUS
<1>3. CASE closed /\ UNCHANGED <<pending, query, snapshot, drain>>
  BY <1>1, <1>3 DEF Mutate, TaskInv, TypeOK, NoSpin, LatestIsQueued, TaskShape
<1>4. CASE ~closed /\ drain # "none" /\ pending' = {cache'} /\ UNCHANGED <<query, snapshot, drain>>
  BY <1>1, <1>2, <1>4 DEF Mutate, TaskInv, TypeOK, NoSpin, LatestIsQueued, TaskShape
<1>5. CASE ~closed /\ drain = "none" /\ Turn({cache'})
  BY <1>1, <1>2, <1>5, Boxes DEF Mutate, Turn, TaskInv, TypeOK, NoSpin, LatestIsQueued, TaskShape
<1>. QED  BY <1>3, <1>4, <1>5 DEF Mutate

\* A turn of the loop takes what is waiting, or ends the task.
LEMMA TurnTask ==
  ASSUME TaskInv, Resume \/ Retry
  PROVE  TaskInv'
<1>1. drain # "none" /\ Turn(pending) /\ (drain = "backoff" => pending # {})
  BY DEF Resume, Retry, TaskInv, TaskShape
<1>2. UNCHANGED <<row, seedQuery, orphans, up, cache, closed, promised, flushes, hooked, used>>
  BY DEF Resume, Retry
<1>3. TypeOK'
  BY <1>1, <1>2, Boxes DEF Turn, TaskInv, TypeOK
<1>4. NoSpin' /\ LatestIsQueued'
  BY <1>1, <1>2 DEF Turn, TaskInv, NoSpin, LatestIsQueued
<1>5. TaskShape'
  BY <1>1, <1>2 DEF Turn, TaskInv, TaskShape
<1>. QED  BY <1>3, <1>4, <1>5 DEF TaskInv

\* A failed write is put back unless something newer waits.
LEMMA PutBackTask == TaskInv /\ PutBack => TaskInv'
BY DEF PutBack, TaskInv, TypeOK, NoSpin, LatestIsQueued, TaskShape

\* The steps of callers and hooks leave the task alone.
LEMMA CallerTask ==
  ASSUME TaskInv, Close \/ Signal \/ \E f \in {"hook", "close"} : FlushReturns(f)
  PROVE  TaskInv'
<1>1. CASE Close
  BY <1>1 DEF Close, TaskInv, TypeOK, NoSpin, LatestIsQueued, TaskShape
<1>2. CASE Signal
  BY <1>2 DEF Signal, TaskInv, TypeOK, NoSpin, LatestIsQueued, TaskShape
<1>3. CASE \E f \in {"hook", "close"} : FlushReturns(f)
  BY <1>3 DEF FlushReturns, TaskInv, TypeOK, NoSpin, LatestIsQueued, TaskShape
<1>. QED  BY <1>1, <1>2, <1>3

\* What statements a client leaves behind are blobs.
LEMMA LeftoversAreBlobs ==
  ASSUME TypeOK, NEW o \in Leftovers
  PROVE  o \in SUBSET Blob
<1>1. query \subseteq Blob
  BY NullableCases DEF TypeOK
<1>. QED  BY <1>1 DEF Leftovers, TypeOK

\* The database runs statements and answers: the cache and the queue stay.
LEMMA DatabaseTask ==
  ASSUME TaskInv, RunUpsert \/ Answer \/ Reject \/ RunSeed \/ \E s \in orphans : RunOrphan(s)
  PROVE  TaskInv'
<1>1. CASE RunUpsert
  BY <1>1, Boxes DEF RunUpsert, TaskInv, TypeOK, NoSpin, LatestIsQueued, TaskShape
<1>2. CASE Answer
  BY <1>2 DEF Answer, database, TaskInv, TypeOK, NoSpin, LatestIsQueued, TaskShape
<1>3. CASE Reject
  <2>1. orphans' \in SUBSET Blob
    BY <1>3, LeftoversAreBlobs DEF Reject, TaskInv
  <2>. QED  BY <1>3, <2>1, Boxes DEF Reject, TaskInv, TypeOK, NoSpin, LatestIsQueued, TaskShape
<1>4. CASE RunSeed
  <2>1. {} \in Blob
    BY DEF Blob
  <2>. QED  BY <1>4, <2>1, Boxes DEF RunSeed, TaskInv, TypeOK, NoSpin, LatestIsQueued, TaskShape
<1>5. CASE \E s \in orphans : RunOrphan(s)
  <2>. PICK s \in orphans : RunOrphan(s)
    BY <1>5
  <2>1. s \in Blob
    BY DEF TaskInv, TypeOK
  <2>. QED  BY <2>1, Boxes DEF RunOrphan, TaskInv, TypeOK, NoSpin, LatestIsQueued, TaskShape
<1>. QED  BY <1>1, <1>2, <1>3, <1>4, <1>5

\* A dead process has no task.
LEMMA DieTask == TaskInv /\ Die => TaskInv'
<1>. SUFFICES ASSUME TaskInv, Die PROVE TaskInv'
  OBVIOUS
<1>1. orphans' \in SUBSET Blob
  BY LeftoversAreBlobs DEF Die, TaskInv
<1>2. {} \in Blob
  BY DEF Blob
<1>3. TypeOK'
  BY <1>1, <1>2, Boxes DEF Die, Blank, TaskInv, TypeOK
<1>. QED  BY <1>3 DEF Die, Blank, TaskInv, NoSpin, LatestIsQueued, TaskShape

\* Every step keeps the invariant of the task.
LEMMA NextTask == TaskInv /\ [Next]_vars => TaskInv'
<1>. SUFFICES ASSUME TaskInv, [Next]_vars PROVE TaskInv'
  OBVIOUS
<1>1. CASE UNCHANGED vars
  BY <1>1 DEF vars, TaskInv, TypeOK, NoSpin, LatestIsQueued, TaskShape
<1>. QED
  BY <1>1, StartTask, MutateTask, TurnTask, PutBackTask, CallerTask, DatabaseTask, DieTask
     DEF Next, Crash, Exit

\* Whatever the database does with statements nobody waits for any more, the
\* task never loses the newest state and flush() never spins.
THEOREM TaskIsSound == Spec => []TaskInv
BY InitTask, NextTask, PTL DEF Spec

\* While a task runs, the cache is what it is writing or will write next.
THEOREM NewestIsQueued == Spec => [](NoSpin /\ LatestIsQueued)
<1>1. TaskInv => NoSpin /\ LatestIsQueued
  BY DEF TaskInv
<1>. QED  BY <1>1, TaskIsSound, PTL

-----------------------------------------------------------------------------
(* The chain from the row to the cache *)

\* The chain holds before the first process starts.
LEMMA InitChain == Init => Chain
BY Unions DEF Init, Chain, Latest, Durable

\* A process starts from the row, and so has nothing to write.
LEMMA StartChain == IInv /\ Start => Chain'
<1>. SUFFICES ASSUME IInv, Start PROVE Chain'
  OBVIOUS
<1>1. /\ row' = row /\ pending' = {} /\ snapshot' = {} /\ drain' = "none" /\ ~closed'
      /\ cache' = UNION row /\ orphans' = {}
  BY DEF Start, IInv, TaskInv, TaskShape, Chain
<1>. QED  BY <1>1, Unions DEF Chain, Latest, Durable

\* A mutation is the newest blob and extends the cache.
LEMMA MutateChain ==
  ASSUME IInv, NEW m \in Mutations, Mutate(m)
  PROVE  Chain'
<1>1. /\ up /\ cache \subseteq cache' /\ UNION {cache'} = cache' /\ {cache'} # {}
      /\ UNCHANGED <<row, orphans, up, closed, promised>>
  BY Unions DEF Mutate
<1>2. CASE closed /\ UNCHANGED <<pending, query, snapshot, drain>>
  BY <1>1, <1>2 DEF IInv, Chain, Latest, Durable
<1>3. CASE ~closed /\ drain # "none" /\ pending' = {cache'} /\ UNCHANGED <<query, snapshot, drain>>
  BY <1>1, <1>3 DEF IInv, Chain, Latest, Durable
<1>4. CASE ~closed /\ drain = "none" /\ Turn({cache'})
  BY <1>1, <1>4, Unions DEF Turn, IInv, Chain, Latest, Durable
<1>. QED  BY <1>2, <1>3, <1>4 DEF Mutate

\* A turn moves the waiting blob on, or finds the row up to date.
LEMMA TurnChain ==
  ASSUME IInv, Resume \/ Retry
  PROVE  Chain'
<1>1. /\ Turn(pending)
      /\ (drain = "backoff" /\ pending # {}) \/ (drain = "resolved" /\ row = snapshot)
      /\ snapshot # {}
  BY DEF Resume, Retry, IInv, TaskInv, TaskShape, Chain
<1>2. UNCHANGED <<row, orphans, up, cache, closed, promised>>
  BY DEF Resume, Retry
<1>3. CASE pending = {}
  BY <1>1, <1>2, <1>3, Unions DEF Turn, IInv, Chain, Latest, Durable
<1>4. CASE pending # {}
  <2>1. UNION row \subseteq UNION pending
    BY <1>1, <1>4 DEF IInv, Chain, Durable
  <2>. QED  BY <1>1, <1>2, <1>4, <2>1, Unions DEF Turn, IInv, Chain, Latest, Durable
<1>. QED  BY <1>3, <1>4

\* The blob that is put back is the newest one.
LEMMA PutBackChain == IInv /\ PutBack => Chain'
BY DEF PutBack, IInv, TaskInv, TaskShape, Chain, Latest, Durable

\* A caller that closes the adapter is promised the cache, which is the newest blob.
LEMMA CallerChain ==
  ASSUME IInv, Close \/ Signal \/ \E f \in {"hook", "close"} : FlushReturns(f)
  PROVE  Chain'
<1>1. CASE Close
  BY <1>1 DEF Close, IInv, Chain, Latest, Durable
<1>2. CASE Signal
  BY <1>2 DEF Signal, IInv, Chain, Latest, Durable
<1>3. CASE \E f \in {"hook", "close"} : FlushReturns(f)
  BY <1>3 DEF FlushReturns, IInv, Chain, Latest, Durable
<1>. QED  BY <1>1, <1>2, <1>3

\* The upsert writes the blob the task awaits, which extends the row; the seed
\* adds nothing to it.
LEMMA DatabaseChain ==
  ASSUME ~LateWrites, IInv,
         RunUpsert \/ Answer \/ Reject \/ RunSeed \/ \E s \in orphans : RunOrphan(s)
  PROVE  Chain'
<1>1. CASE RunUpsert
  <2>1. query = snapshot /\ snapshot # {} /\ drain = "waiting" /\ up
    BY <1>1 DEF RunUpsert, IInv, TaskInv, TaskShape
  <2>. QED  BY <1>1, <2>1 DEF RunUpsert, IInv, Chain, Latest, Durable
<1>2. CASE Answer
  BY <1>2 DEF Answer, database, IInv, Chain, Latest, Durable
<1>3. CASE Reject
  BY <1>3 DEF Reject, Leftovers, IInv, Chain, Latest, Durable
<1>4. CASE RunSeed
  <2>1. UNION row' = UNION row
    BY <1>4, Unions DEF RunSeed
  <2>2. drain = "resolved" \/ (drain = "waiting" /\ query = {}) => row # {}
    BY DEF IInv, TaskInv, TaskShape, Chain
  <2>3. row # {} => row' = row
    BY <1>4 DEF RunSeed
  <2>. QED  BY <1>4, <2>1, <2>2, <2>3 DEF RunSeed, IInv, Chain, Latest, Durable
<1>5. CASE \E s \in orphans : RunOrphan(s)
  BY <1>5 DEF IInv, Chain
<1>. QED  BY <1>1, <1>2, <1>3, <1>4, <1>5

\* With the process only the row is left.
LEMMA DieChain == ~LateWrites /\ IInv /\ Die => Chain'
<1>. SUFFICES ASSUME ~LateWrites, IInv, Die PROVE Chain'
  OBVIOUS
<1>1. /\ ~up' /\ snapshot' = {} /\ pending' = {} /\ drain' = "none" /\ orphans' = {}
  BY DEF Die, Blank, Leftovers, IInv, Chain
<1>. QED  BY <1>1 DEF Chain

\* Every step keeps the whole invariant, if the database drops the statements
\* of clients that are gone.
LEMMA NextChain == ~LateWrites /\ IInv /\ [Next]_vars => IInv'
<1>. SUFFICES ASSUME ~LateWrites, IInv, [Next]_vars PROVE IInv'
  OBVIOUS
<1>1. TaskInv'
  BY NextTask DEF IInv
<1>2. CASE UNCHANGED vars
  BY <1>1, <1>2 DEF vars, IInv, Chain, Latest, Durable
<1>3. CASE Next
  BY <1>1, <1>3, StartChain, MutateChain, TurnChain, PutBackChain, CallerChain, DatabaseChain,
     DieChain DEF Next, Crash, Exit, IInv
<1>. QED  BY <1>2, <1>3

\* The inductive invariant of the adapter.
THEOREM InductiveInvariant == ~LateWrites /\ Spec => []IInv
<1>. SUFFICES ASSUME ~LateWrites PROVE Spec => []IInv
  OBVIOUS
<1>1. Init => IInv
  BY InitTask, InitChain DEF IInv
<1>2. IInv /\ [Next]_vars => IInv'
  BY NextChain
<1>. QED  BY <1>1, <1>2, PTL DEF Spec

\* When no task runs the row holds the cache: coalescing, failed writes and
\* retries leave nothing behind.
THEOREM QuietIsDurable == ~LateWrites /\ Spec => []QuietMeansDurable
<1>. SUFFICES ASSUME ~LateWrites PROVE Spec => []QuietMeansDurable
  OBVIOUS
<1>1. IInv => QuietMeansDurable
  <2>. SUFFICES ASSUME IInv, up, ~closed, drain = "none"
                PROVE  row = {cache} \/ (row = {} /\ cache = {})
    BY DEF QuietMeansDurable
  <2>1. pending = {} /\ snapshot = {}
    BY DEF IInv, TaskInv, NoSpin, TaskShape
  <2>2. UNION row = cache
    BY <2>1 DEF IInv, Chain, Latest, Durable
  <2>. QED  BY <2>2, BoxOf, Unions DEF IInv, TaskInv, TypeOK
<1>. QED  BY <1>1, InductiveInvariant, PTL

\* close() resolves only when everything written before it is in the row.
THEOREM CloseLosesNothing == ~LateWrites /\ Spec => []CloseKeepsAll
<1>. SUFFICES ASSUME ~LateWrites PROVE Spec => []CloseKeepsAll
  OBVIOUS
<1>1. IInv => CloseKeepsAll
  BY DEF IInv, TaskInv, NoSpin, TaskShape, Chain, Latest, CloseKeepsAll
<1>. QED  BY <1>1, InductiveInvariant, PTL

-----------------------------------------------------------------------------
(* Steps of the row, and the refinement *)

\* The row changes when a process is up and its blob is written, or when the
\* seed is put into a table without the row.
LEMMA RowSteps ==
  ASSUME ~LateWrites, IInv, [Next]_vars
  PROVE  /\ Durable \subseteq UNION row' /\ (row # {} => row' # {})
         /\ UNION row' # Durable => up /\ UNION row' \subseteq cache /\ UNCHANGED <<up, cache>>
<1>1. CASE RunUpsert
  <2>1. query = snapshot /\ snapshot # {} /\ drain = "waiting" /\ up
    BY <1>1 DEF RunUpsert, IInv, TaskInv, TaskShape
  <2>. QED  BY <1>1, <2>1 DEF RunUpsert, IInv, Chain, Durable
<1>2. CASE RunSeed
  BY <1>2, Unions DEF RunSeed, Durable
<1>3. CASE \E s \in orphans : RunOrphan(s)
  BY <1>3 DEF IInv, Chain
<1>4. CASE UNCHANGED row
  BY <1>4 DEF Durable
<1>. QED
  BY <1>1, <1>2, <1>3, <1>4
     DEF Next, vars, database, Start, Mutate, Resume, PutBack, Retry, Close, Signal, FlushReturns,
         Answer, Reject, Crash, Exit, Die

\* No statement takes the row back to an older state, or away.
THEOREM RowIsMonotone == ~LateWrites /\ Spec => RowNeverGoesBack
<1>. SUFFICES ASSUME ~LateWrites PROVE Spec => RowNeverGoesBack
  OBVIOUS
<1>1. IInv /\ [Next]_vars => [Durable \subseteq UNION row' /\ (row # {} => row' # {})]_vars
  BY RowSteps
<1>. QED  BY <1>1, InductiveInvariant, PTL DEF Spec, RowNeverGoesBack

\* Before the first process the store is empty.
LEMMA InitStore == Init => Store!Init
BY Unions DEF Init, Store!Init, Durable

\* Every step of the adapter, of the database or of a failure is a step of the
\* store or a stutter.
LEMMA NextStore ==
  ASSUME ~LateWrites, IInv, IInv', [Next]_vars
  PROVE  [Store!Next]_(Store!vars)
<1>1. CASE Start
  BY <1>1 DEF Start, Store!Next, Store!Start, Durable
<1>2. ASSUME NEW m \in Mutations, Mutate(m) PROVE Store!Next
  BY <1>2 DEF Mutate, Store!Next, Store!Mutate, Durable
<1>3. CASE Crash \/ Exit
  BY <1>3 DEF Crash, Exit, Die, Blank, Store!Next, Store!Stop, Durable
<1>4. CASE UNCHANGED <<up, cache>>
  <2>1. CASE UNION row' = Durable
    BY <1>4, <2>1 DEF Store!vars, Durable
  <2>2. CASE UNION row' # Durable
    <3>1. UNION row' \in SUBSET Mutations
      BY UnionIsBlob DEF IInv, TaskInv, TypeOK, Blob
    <3>. QED  BY <1>4, <2>2, <3>1, RowSteps DEF Store!Next, Store!Sync, Durable
  <2>. QED  BY <2>1, <2>2
<1>5. CASE UNCHANGED vars
  BY <1>4, <1>5 DEF vars
<1>6. CASE Next
  BY <1>1, <1>2, <1>3, <1>4, <1>6
     DEF Next, vars, database, Resume, PutBack, Retry, Close, Signal, FlushReturns, RunUpsert,
         RunSeed, RunOrphan, Answer, Reject, Turn
<1>. QED  BY <1>5, <1>6

\* The cache, the task and the row together are the store callers see: what the
\* next process starts from is never ahead of memory and never goes back.
THEOREM AdapterImplementsStore == ~LateWrites /\ Spec => ImplementsStateStore
<1>. SUFFICES ASSUME ~LateWrites PROVE Spec => ImplementsStateStore
  OBVIOUS
<1>1. IInv /\ IInv' /\ [Next]_vars => [Store!Next]_(Store!vars)
  BY NextStore
<1>. QED  BY <1>1, InitStore, InductiveInvariant, PTL DEF Spec, ImplementsStateStore, Store!Spec
=============================================================================
