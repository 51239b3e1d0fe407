--------------------------- MODULE PostgresStorage ---------------------------
(***************************************************************************)
(* The write-back cache of web/lib/storage/postgres-storage-adapter.ts:    *)
(* read() and update() work on a blob in memory, and a background task     *)
(* ("drain") writes the latest blob to one Postgres row.  JavaScript runs  *)
(* on one thread, so a step is what happens between two awaits; the        *)
(* database, the answers it sends and the death of the process come in     *)
(* between.                                                                *)
(*                                                                         *)
(* A blob is the set of mutations applied to the seed, {} being the seed   *)
(* itself.  "null" is {} where the code has a nullable blob, and {s} where *)
(* it has the blob s.                                                      *)
(*                                                                         *)
(* A definition marked [variant] is a faulty form of the one after it.     *)
(* Nothing uses it: it is there to show that a property notices the fault. *)
(***************************************************************************)
EXTENDS FiniteSets

CONSTANTS
  Mutations,   \* the mutations callers make, each once (bounds the updates)
  LateWrites   \* whether a statement whose client is gone may run later

ASSUME LateWritesAssumption == LateWrites \in BOOLEAN

VARIABLES
  row,       \* the row of the state key: null or a blob
  seedQuery, \* the INSERT ... DO NOTHING of the seed is on its way
  query,     \* the upsert the drain awaits, while it has not run: null or a blob
  orphans,   \* upserts nobody awaits that the database may still run
  up,        \* the process is running and its constructor has returned
  cache,
  pending,   \* pendingWriteState
  snapshot,  \* the local variable of drainPendingWrites: null or a blob
  drain,     \* where drainPendingWrites is; "none" is flushTask = null
  closed,
  promised,  \* the cache when close() was called
  flushes,   \* who is inside flush()
  hooked,    \* the shutdown hook has not run yet (process.once)
  used       \* the mutations made so far, by any process

database == <<row, seedQuery, query, orphans>>
vars == <<row, seedQuery, query, orphans, up, cache, pending, snapshot, drain,
          closed, promised, flushes, hooked, used>>

Blob == SUBSET Mutations
Nullable == {{}} \cup {{s} : s \in Blob}

TypeOK ==
  /\ row \in Nullable /\ query \in Nullable /\ orphans \in SUBSET Blob
  /\ pending \in Nullable /\ snapshot \in Nullable
  /\ cache \in Blob /\ promised \in Blob /\ used \in Blob
  /\ seedQuery \in BOOLEAN /\ up \in BOOLEAN /\ closed \in BOOLEAN /\ hooked \in BOOLEAN
  /\ drain \in {"none", "waiting", "resolved", "rejected", "backoff"}
  /\ flushes \in SUBSET {"hook", "close"}

\* What a process knows before its constructor runs.
Blank ==
  /\ up' = FALSE /\ cache' = {} /\ pending' = {} /\ snapshot' = {} /\ drain' = "none"
  /\ closed' = FALSE /\ promised' = {} /\ flushes' = {} /\ hooked' = FALSE

Init ==
  /\ row = {} /\ seedQuery = FALSE /\ query = {} /\ orphans = {}
  /\ up = FALSE /\ cache = {} /\ pending = {} /\ snapshot = {} /\ drain = "none"
  /\ closed = FALSE /\ promised = {} /\ flushes = {} /\ hooked = FALSE
  /\ used = {}

-----------------------------------------------------------------------------
(* The adapter *)

\* [variant] The process starts from the seed whatever the row holds.
StartFromSeed ==
  /\ ~up /\ up' = TRUE
  /\ cache' = {}
  /\ seedQuery' = TRUE
  /\ hooked' = TRUE
  /\ UNCHANGED <<row, query, orphans, pending, snapshot, drain, closed, promised, flushes, used>>

\* The constructor: loadBlobSync blocks the thread, and when there is no row
\* seedAndPersistInitial sends the seed and does not wait for it.
Start ==
  /\ ~up /\ up' = TRUE
  /\ cache' = UNION row
  /\ seedQuery' = (seedQuery \/ row = {})
  /\ hooked' = TRUE
  /\ UNCHANGED <<row, query, orphans, pending, snapshot, drain, closed, promised, flushes, used>>

\* One turn of the loop of drainPendingWrites, up to its await of writeBlob;
\* with nothing left to write the task ends and flushTask becomes null.
Turn(waiting) ==
  /\ pending' = {}
  /\ query' = waiting
  /\ snapshot' = waiting
  /\ drain' = IF waiting = {} THEN "none" ELSE "waiting"

\* write() and update(), with scheduleFlush.
Mutate(m) ==
  /\ up /\ m \notin used
  /\ used' = used \cup {m}
  /\ cache' = cache \cup {m}
  /\ \/ /\ closed
        /\ UNCHANGED <<pending, query, snapshot, drain>>
     \/ /\ ~closed /\ drain # "none"
        /\ pending' = {cache'}
        /\ UNCHANGED <<query, snapshot, drain>>
     \/ /\ ~closed /\ drain = "none"
        /\ Turn({cache'})
  /\ UNCHANGED <<row, seedQuery, orphans, up, closed, promised, flushes, hooked>>

\* [variant] The task writes one blob and ends.
ResumeOnce ==
  /\ drain = "resolved"
  /\ Turn({})
  /\ UNCHANGED <<row, seedQuery, orphans, up, cache, closed, promised, flushes, hooked, used>>

\* writeBlob resolved: the loop goes round.
Resume ==
  /\ drain = "resolved"
  /\ Turn(pending)
  /\ UNCHANGED <<row, seedQuery, orphans, up, cache, closed, promised, flushes, hooked, used>>

\* [variant] The blob is put back over a newer one, or the task ends there and
\* leaves the rest to the next mutation.
PutBackAlways ==
  /\ drain = "rejected"
  /\ pending' = snapshot
  /\ drain' = "backoff"
  /\ UNCHANGED <<row, seedQuery, query, orphans, up, cache, snapshot, closed, promised,
                 flushes, hooked, used>>
PutBackAndEnd ==
  /\ drain = "rejected"
  /\ pending' = IF pending = {} THEN snapshot ELSE pending
  /\ drain' = "none"
  /\ UNCHANGED <<row, seedQuery, query, orphans, up, cache, snapshot, closed, promised,
                 flushes, hooked, used>>

\* writeBlob rejected: the blob is put back, unless a newer one is waiting.
PutBack ==
  /\ drain = "rejected"
  /\ pending' = IF pending = {} THEN snapshot ELSE pending
  /\ drain' = "backoff"
  /\ UNCHANGED <<row, seedQuery, query, orphans, up, cache, snapshot, closed, promised,
                 flushes, hooked, used>>

\* The 250 ms are over.
Retry ==
  /\ drain = "backoff"
  /\ Turn(pending)
  /\ UNCHANGED <<row, seedQuery, orphans, up, cache, closed, promised, flushes, hooked, used>>

Close ==
  /\ up /\ ~closed /\ closed' = TRUE
  /\ promised' = cache
  /\ flushes' = flushes \cup {"close"}
  /\ UNCHANGED <<row, seedQuery, query, orphans, up, cache, pending, snapshot, drain, hooked, used>>

\* [variant] flush() looks at the waiting blob only, not at the task.
FlushReturnsEarly(f) ==
  /\ f \in flushes
  /\ pending = {}
  /\ flushes' = flushes \ {f}
  /\ UNCHANGED <<row, seedQuery, query, orphans, up, cache, pending, snapshot, drain,
                 closed, promised, hooked, used>>

\* flush() returns when it finds no task and nothing to write.
FlushReturns(f) ==
  /\ f \in flushes
  /\ drain = "none" /\ pending = {}
  /\ flushes' = flushes \ {f}
  /\ UNCHANGED <<row, seedQuery, query, orphans, up, cache, pending, snapshot, drain,
                 closed, promised, hooked, used>>

\* SIGTERM, SIGINT or beforeExit.  The hook starts a flush and returns; being
\* registered with process.once it is gone afterwards.
Signal ==
  /\ up /\ hooked /\ hooked' = FALSE
  /\ flushes' = IF pending # {} \/ drain # "none" THEN flushes \cup {"hook"} ELSE flushes
  /\ UNCHANGED <<row, seedQuery, query, orphans, up, cache, pending, snapshot, drain,
                 closed, promised, used>>

-----------------------------------------------------------------------------
(* The database and the connections to it *)

\* The upsert runs ...
RunUpsert ==
  /\ query # {}
  /\ row' = query
  /\ query' = {}
  /\ UNCHANGED <<seedQuery, orphans, up, cache, pending, snapshot, drain, closed, promised,
                 flushes, hooked, used>>

\* ... and its answer arrives.
Answer ==
  /\ drain = "waiting" /\ query = {}
  /\ drain' = "resolved"
  /\ UNCHANGED <<database, up, cache, pending, snapshot, closed, promised, flushes, hooked, used>>

\* The statements an upsert leaves behind when its client goes away before it
\* has run: none, or with LateWrites possibly itself.
Leftovers == {orphans} \cup (IF LateWrites THEN {orphans \cup query} ELSE {})

\* The client gets an error instead, whether the upsert has run or not.
Reject ==
  /\ drain = "waiting"
  /\ drain' = "rejected"
  /\ query' = {}
  /\ orphans' \in Leftovers
  /\ UNCHANGED <<row, seedQuery, up, cache, pending, snapshot, closed, promised, flushes, hooked, used>>

RunOrphan(s) ==
  /\ s \in orphans
  /\ orphans' = orphans \ {s}
  /\ row' \in {row, {s}}
  /\ UNCHANGED <<seedQuery, query, up, cache, pending, snapshot, drain, closed, promised,
                 flushes, hooked, used>>

\* [variant] The insert of the seed replaces the row there is.
RunSeedOver ==
  /\ seedQuery /\ seedQuery' = FALSE
  /\ row' \in {row, {{}}}
  /\ UNCHANGED <<query, orphans, up, cache, pending, snapshot, drain, closed, promised,
                 flushes, hooked, used>>

\* The insert of the seed runs (and does nothing if there is a row), or is lost.
RunSeed ==
  /\ seedQuery /\ seedQuery' = FALSE
  /\ row' \in {row, IF row = {} THEN {{}} ELSE row}
  /\ UNCHANGED <<query, orphans, up, cache, pending, snapshot, drain, closed, promised,
                 flushes, hooked, used>>

-----------------------------------------------------------------------------
(* The end of a process *)

\* The process is gone, with the query it was waiting for.
Die ==
  /\ up
  /\ Blank
  /\ query' = {}
  /\ orphans' \in Leftovers
  /\ UNCHANGED <<row, seedQuery, used>>

\* It is killed, or fails ...
Crash == hooked /\ Die

\* ... or it was told to stop and the hook has run.  Nothing in the adapter
\* keeps the process alive until the flush is done: another signal ends it at
\* once, the listener being gone, and so does the exit of whoever handles the
\* signal for the server, or the kill after the grace period of the container.
Exit == ~hooked /\ Die

Next ==
  \/ Start \/ Resume \/ PutBack \/ Retry \/ Close \/ Signal
  \/ RunUpsert \/ Answer \/ Reject \/ RunSeed \/ Crash \/ Exit
  \/ \E m \in Mutations : Mutate(m)
  \/ \E f \in {"hook", "close"} : FlushReturns(f)
  \/ \E s \in orphans : RunOrphan(s)

Spec == Init /\ [][Next]_vars

\* The event loop runs what is ready, and a database that is asked again and
\* again does run a statement and answer some day.
Fairness ==
  /\ WF_vars(Resume) /\ WF_vars(PutBack) /\ WF_vars(Retry)
  /\ WF_vars(\E f \in {"hook", "close"} : FlushReturns(f))
  /\ SF_vars(RunUpsert) /\ SF_vars(Answer)

FairSpec == Spec /\ Fairness

-----------------------------------------------------------------------------
(* Correctness *)

Durable == UNION row

\* flush() loops without awaiting anything when it finds a blob to write and no
\* task writing it, which would hang the server: that state is never reached.
NoSpin == pending # {} => drain # "none"

\* Coalescing never drops the newest blob: while a task is running, the cache
\* is what it is writing or what it will write next.
LatestIsQueued ==
  drain # "none" /\ ~closed => IF pending = {} THEN snapshot = {cache} ELSE pending = {cache}

\* When no task is running nothing is left to write: the row holds the cache
\* (or there is no row and the cache is still the seed).  A failed write, or an
\* update that arrives while the last write is being answered, cannot leave
\* the row behind.
QuietMeansDurable ==
  up /\ ~closed /\ drain = "none" => row = {cache} \/ (row = {} /\ cache = {})

\* What callers had written when close() was called is in the row when it
\* has returned.
CloseKeepsAll ==
  up /\ closed /\ "close" \notin flushes => promised \subseteq Durable

\* No statement takes the row back: not the seed of a process that finds no
\* row, not the retry of an old snapshot, not a statement of a dead process.
RowNeverGoesBack ==
  [][Durable \subseteq UNION row' /\ (row # {} => row' # {})]_vars

-----------------------------------------------------------------------------
(* The inductive invariant *)

\* Where the task is and what it holds.
TaskShape ==
  /\ ~up => drain = "none" /\ pending = {} /\ cache = {} /\ ~closed /\ flushes = {}
  /\ drain = "none" <=> snapshot = {}
  /\ drain = "backoff" => pending # {}
  /\ query # {} => drain = "waiting" /\ query = snapshot
  /\ closed /\ "close" \notin flushes => drain = "none"

\* The newest blob there is, in memory or in the row.
Latest ==
  IF pending # {} THEN UNION pending ELSE IF snapshot # {} THEN UNION snapshot ELSE Durable

\* Row, blob being written, blob waiting and cache grow in this order.
Chain ==
  /\ orphans = {}
  /\ up => Durable \subseteq cache /\ UNION snapshot \subseteq cache /\ UNION pending \subseteq cache
  /\ snapshot # {} => Durable \subseteq UNION snapshot
  /\ pending # {} => UNION snapshot \subseteq UNION pending
  /\ drain = "resolved" \/ (drain = "waiting" /\ query = {}) => row = snapshot
  /\ up => IF closed THEN promised \subseteq Latest ELSE Latest = cache

\* What holds whatever the database does with a statement of a client that is
\* gone, and what holds if it drops it.
TaskInv == TypeOK /\ NoSpin /\ LatestIsQueued /\ TaskShape
IInv == TaskInv /\ Chain

-----------------------------------------------------------------------------
Store == INSTANCE StateStore
           WITH mem <- IF up THEN cache ELSE Durable, disk <- Durable

\* The cache, the drain and the row together are the store callers see.
ImplementsStateStore == Store!Spec

\* A mutation becomes durable, unless its process ends or close() was called
\* before it.
WriteBehind ==
  \A m \in Mutations : m \in cache /\ ~closed ~> m \in Durable \/ ~up

\* The flush a shutdown hook starts resolves, if the process lives that long.
HookFlushResolves == "hook" \in flushes ~> "hook" \notin flushes

\* The README: beforeExit, SIGTERM and SIGINT drain the pending flush queue
\* before the process exits.
ExitDrains == [][Exit /\ ~closed => Durable = cache]_vars
=============================================================================
