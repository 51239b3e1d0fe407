------------------------------ MODULE FileStorage ------------------------------
(***************************************************************************)
(* The two file-based storages of the platform state, used by several      *)
(* server processes at once: a JSON file that is read, changed and written *)
(* anew, and a row of a SQLite table.  Every call is synchronous, so within*)
(* one process it is never interrupted, except by death; the steps of two  *)
(* processes interleave at their file operations.                          *)
(*                                                                         *)
(* As in StateStore, a state is the set of mutations applied to the seed.  *)
(*                                                                         *)
(* A definition marked [variant] is a faulty form of the one after it.     *)
(* Nothing uses it: it is there to show that a property notices the fault. *)
(***************************************************************************)
EXTENDS Integers, FiniteSets

CONSTANTS
  Servers,      \* the processes that share the file
  Changes,      \* the mutations, each made once
  Backends      \* which of "json" and "sqlite" are looked at

ASSUME BackendsAssumption == Backends \subseteq {"json", "sqlite"}

VARIABLES
  backend,  \* what the resolver chose, for all of them
  file,     \* what the file or the row holds, as a set of at most one content
  torn,     \* the file exists and is not JSON
  at,       \* at[p]: where process p is in a call
  got,      \* got[p]: the state its call works on
  doing,    \* doing[p]: the mutation it applies, if any
  acked,    \* the mutations whose update has returned
  lockedBy, \* who holds the write lock of the SQLite file, as a set
  clashed   \* what the JSON file cannot stand has happened: see Overlaps, JsonWriteFails, SqliteSeed and Die

filesVars == <<backend, file, torn, at, got, doing, acked, lockedBy, clashed>>

Content == SUBSET Changes
SeedState == {}

FilesTypeOK ==
  /\ backend \in Backends
  /\ file \in SUBSET Content /\ Cardinality(file) <= 1 /\ torn \in BOOLEAN
  /\ at \in [Servers -> {"idle", "looked", "read", "opened", "dead"}]
  /\ got \in [Servers -> Content]
  /\ doing \in [Servers -> {S \in Content : Cardinality(S) <= 1}]
  /\ acked \in Content
  /\ lockedBy \in SUBSET Servers /\ Cardinality(lockedBy) <= 1
  /\ clashed \in BOOLEAN

\* No file yet, or one left by an earlier process.
FilesInit ==
  /\ backend \in Backends
  /\ file \in {{}, {SeedState}} /\ torn = FALSE
  /\ at = [p \in Servers |-> "idle"]
  /\ got = [p \in Servers |-> SeedState] /\ doing = [p \in Servers |-> {}]
  /\ acked = {} /\ lockedBy = {} /\ clashed = FALSE

\* Two processes inside their calls at the same time.
Overlaps(p) == \E q \in Servers \ {p} : at[q] \in {"looked", "read", "opened"}

Step(p, place) == at' = [at EXCEPT ![p] = place]

\* What reading finds: the content, or the seed if there is none or it cannot be parsed.
Found == IF torn THEN SeedState ELSE UNION file

-----------------------------------------------------------------------------
(* The JSON file *)

\* update begins with read.  A file that exists is read at once.
JsonRead(p, m) ==
  /\ backend = "json" /\ at[p] = "idle" /\ m \notin acked /\ \A q \in Servers : m \notin doing[q]
  /\ file # {} \/ torn
  /\ got' = [got EXCEPT ![p] = Found]
  /\ doing' = [doing EXCEPT ![p] = {m}]
  /\ Step(p, "read")
  /\ clashed' = (clashed \/ Overlaps(p))
  /\ UNCHANGED <<backend, file, torn, acked, lockedBy>>

\* A file that does not exist is to be written with the seed, by update or by read alone.
JsonMisses(p, S) ==
  /\ backend = "json" /\ at[p] = "idle" /\ \A m \in S : m \notin acked /\ \A q \in Servers : m \notin doing[q]
  /\ file = {} /\ ~torn
  /\ got' = [got EXCEPT ![p] = SeedState]
  /\ doing' = [doing EXCEPT ![p] = S]
  /\ Step(p, "looked")
  /\ clashed' = (clashed \/ Overlaps(p))
  /\ UNCHANGED <<backend, file, torn, acked, lockedBy>>

\* ensureSeedData: update goes on with the seed, read is done.
JsonSeed(p) ==
  /\ backend = "json" /\ at[p] = "looked"
  /\ file' = {SeedState} /\ torn' = FALSE
  /\ Step(p, IF doing[p] = {} THEN "idle" ELSE "read")
  /\ UNCHANGED <<backend, got, doing, acked, lockedBy, clashed>>

\* writeFileSync truncates the file, ...
JsonOpen(p) ==
  /\ backend = "json" /\ at[p] = "read"
  /\ file' = {} /\ torn' = TRUE
  /\ Step(p, "opened")
  /\ UNCHANGED <<backend, got, doing, acked, lockedBy, clashed>>

\* ... writes the text, and update returns.
JsonWrite(p) ==
  /\ backend = "json" /\ at[p] = "opened"
  /\ file' = {got[p] \cup doing[p]} /\ torn' = FALSE
  /\ acked' = acked \cup doing[p]
  /\ doing' = [doing EXCEPT ![p] = {}] /\ Step(p, "idle")
  /\ UNCHANGED <<backend, got, lockedBy, clashed>>

\* The write fails after the file was truncated, and update throws.
JsonWriteFails(p) ==
  /\ backend = "json" /\ at[p] = "opened"
  /\ doing' = [doing EXCEPT ![p] = {}] /\ Step(p, "idle")
  /\ clashed' = TRUE
  /\ UNCHANGED <<backend, file, torn, got, acked, lockedBy>>

-----------------------------------------------------------------------------
(* The SQLite row *)

\* [variant] The lock is taken only when the transaction first writes.
SqliteBeginDeferred(p, m) ==
  /\ backend = "sqlite" /\ at[p] = "idle" /\ m \notin acked /\ \A q \in Servers : m \notin doing[q]
  /\ got' = [got EXCEPT ![p] = Found]
  /\ doing' = [doing EXCEPT ![p] = {m}]
  /\ Step(p, "read")
  /\ UNCHANGED <<backend, file, torn, acked, lockedBy, clashed>>

\* BEGIN IMMEDIATE takes the write lock, or fails at once, and the read and the
\* upsert are inside: a row that cannot be parsed or is not there counts as the seed.
SqliteBegin(p, m) ==
  /\ backend = "sqlite" /\ at[p] = "idle" /\ lockedBy = {} /\ m \notin acked
  /\ lockedBy' = {p}
  /\ got' = [got EXCEPT ![p] = Found]
  /\ doing' = [doing EXCEPT ![p] = {m}]
  /\ Step(p, "read")
  /\ UNCHANGED <<backend, file, torn, acked, clashed>>

SqliteCommit(p) ==
  /\ backend = "sqlite" /\ at[p] = "read"
  /\ file' = {got[p] \cup doing[p]}
  /\ acked' = acked \cup doing[p] /\ lockedBy' = lockedBy \ {p}
  /\ doing' = [doing EXCEPT ![p] = {}] /\ Step(p, "idle")
  /\ UNCHANGED <<backend, torn, got, clashed>>

\* The mutator throws: ROLLBACK, and update throws too.
SqliteRollback(p) ==
  /\ backend = "sqlite" /\ at[p] = "read"
  /\ lockedBy' = lockedBy \ {p}
  /\ doing' = [doing EXCEPT ![p] = {}] /\ Step(p, "idle")
  /\ UNCHANGED <<backend, file, torn, got, acked, clashed>>

\* read() outside of a transaction finds no row, ...
SqliteMisses(p) ==
  /\ backend = "sqlite" /\ at[p] = "idle" /\ file = {}
  /\ Step(p, "looked")
  /\ UNCHANGED <<backend, file, torn, got, doing, acked, lockedBy, clashed>>

\* ... and writes the seed, over whatever was written meanwhile.
SqliteSeed(p) ==
  /\ backend = "sqlite" /\ at[p] = "looked" /\ lockedBy = {}
  /\ file' = {SeedState}
  /\ clashed' = (clashed \/ file # {})
  /\ Step(p, "idle")
  /\ UNCHANGED <<backend, torn, got, doing, acked, lockedBy>>

\* ... or is refused while another process holds the lock.
SqliteSeedBusy(p) ==
  /\ backend = "sqlite" /\ at[p] = "looked" /\ lockedBy # {}
  /\ Step(p, "idle")
  /\ UNCHANGED <<backend, file, torn, got, doing, acked, lockedBy, clashed>>

-----------------------------------------------------------------------------
\* A process dies; of SQLite an open transaction is undone, of the JSON file
\* what was truncated stays so.
Die(p) ==
  /\ at[p] # "dead"
  /\ lockedBy' = lockedBy \ {p}
  /\ doing' = [doing EXCEPT ![p] = {}] /\ Step(p, "dead")
  /\ clashed' = (clashed \/ at[p] = "opened")
  /\ UNCHANGED <<backend, file, torn, got, acked>>

Restart(p) ==
  /\ at[p] = "dead"
  /\ Step(p, "idle")
  /\ UNCHANGED <<backend, file, torn, got, doing, acked, lockedBy, clashed>>

FilesNext ==
  \E p \in Servers :
    \/ \E m \in Changes : JsonRead(p, m) \/ JsonMisses(p, {m}) \/ SqliteBegin(p, m)
    \/ JsonMisses(p, {})
    \/ JsonSeed(p) \/ JsonOpen(p) \/ JsonWrite(p) \/ JsonWriteFails(p)
    \/ SqliteCommit(p) \/ SqliteRollback(p) \/ SqliteMisses(p) \/ SqliteSeed(p) \/ SqliteSeedBusy(p)
    \/ Die(p) \/ Restart(p)

FilesSpec == FilesInit /\ [][FilesNext]_filesVars

-----------------------------------------------------------------------------
\* An update that has returned stays in the state, whatever processes do and
\* die of: on SQLite unless a first read seeds a row over it, on JSON unless two
\* processes are in their calls at once or one dies while the file is open.
AcknowledgedStays ==
  ~clashed /\ (\A p \in Servers : at[p] # "opened") => acked \subseteq Found
=============================================================================
