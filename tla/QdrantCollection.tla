----------------------------- MODULE QdrantCollection -----------------------------
(***************************************************************************)
(* The collection in Qdrant that the processes of the Python backend       *)
(* create when it is not there, and index into and search.  Whether it is  *)
(* there is asked once per process.  A search that fails is answered by    *)
(* keywords alone, an index write that fails ends the task.                *)
(*                                                                         *)
(* A definition marked [variant] is a faulty form of the one after it.     *)
(* Nothing uses it: it is there to show that a property notices the fault. *)
(***************************************************************************)
EXTENDS Integers, FiniteSets

CONSTANTS
  Processes,   \* each has one provider, whose calls may overlap
  Callers,     \* the calls: an ingestion task or a search
  Home,        \* Home[c]: the process that makes the call
  MaxDeletes,  \* bounds how often an operator deletes the collection
  MaxDowns     \* bounds how often a request finds Qdrant unavailable

ASSUME HomeAssumption == Home \in [Callers -> Processes]
ASSUME CollectionBounds == MaxDeletes \in Nat /\ MaxDowns \in Nat

VARIABLES
  exists,   \* the collection is there
  ready,    \* ready[p]: _collection_ready
  phase,    \* phase[c]: where a call is
  cause,    \* cause[c]: what explains a failure, for the property: see CollectionFailureHasCause
  deletes, downs

collectionVars == <<exists, ready, phase, cause, deletes, downs>>

Phases == {"idle", "asking", "missing", "using", "done", "failed"}

CollectionTypeOK ==
  /\ exists \in BOOLEAN
  /\ ready \in [Processes -> BOOLEAN] /\ phase \in [Callers -> Phases]
  /\ cause \in [Callers -> SUBSET {"deleted", "created", "down"}]
  /\ deletes \in 0..MaxDeletes /\ downs \in 0..MaxDowns

CollectionInit ==
  /\ exists \in BOOLEAN
  /\ ready = [p \in Processes |-> FALSE]
  /\ phase = [c \in Callers |-> "idle"]
  /\ cause = [c \in Callers |-> {}] /\ deletes = 0 /\ downs = 0

Busy(c) == phase[c] \in {"asking", "missing", "using"}
Phase(c, p) == phase' = [phase EXCEPT ![c] = p]
\* What happened is a cause for every call it may make fail.
Explain(why, S) == cause' = [c \in Callers |-> IF c \in S THEN cause[c] \cup {why} ELSE cause[c]]

\* A call begins: the collection is asked for unless the process has seen it.  If it
\* was deleted since, that is why it will fail.
BeginCall(c) ==
  /\ phase[c] = "idle"
  /\ Phase(c, IF ready[Home[c]] THEN "using" ELSE "asking")
  /\ IF ready[Home[c]] /\ ~exists THEN Explain("deleted", {c}) ELSE UNCHANGED cause
  /\ UNCHANGED <<exists, ready, deletes, downs>>

SetReady(c) == ready' = [ready EXCEPT ![Home[c]] = TRUE]

\* GET of the collection: 404 is allowed.
AskCollection(c) ==
  /\ phase[c] = "asking"
  /\ IF exists THEN Phase(c, "using") /\ SetReady(c) ELSE Phase(c, "missing") /\ UNCHANGED ready
  /\ UNCHANGED <<exists, cause, deletes, downs>>

\* [variant] The process takes the collection for ready before it is.
CreateLater(c) ==
  /\ phase[c] = "missing" /\ ~exists
  /\ Phase(c, "using") /\ SetReady(c)
  /\ UNCHANGED <<exists, cause, deletes, downs>>

\* PUT of the collection.  Others that found it missing will be refused.
CreateCollection(c) ==
  /\ phase[c] = "missing" /\ ~exists
  /\ exists' = TRUE /\ Phase(c, "using") /\ SetReady(c)
  /\ Explain("created", {d \in Callers \ {c} : phase[d] = "missing"})
  /\ UNCHANGED <<deletes, downs>>

\* The same, but the answer comes too late for the one who asked.
CreationUnanswered(c) ==
  /\ phase[c] = "missing" /\ ~exists /\ downs < MaxDowns /\ downs' = downs + 1
  /\ exists' = TRUE /\ Phase(c, "failed")
  /\ cause' = [d \in Callers |-> IF d = c THEN cause[d] \cup {"down"}
                                ELSE IF phase[d] = "missing" THEN cause[d] \cup {"created"} ELSE cause[d]]
  /\ UNCHANGED <<ready, deletes>>

\* It is there by now: 409, which raises.
CreationRefused(c) ==
  /\ phase[c] = "missing" /\ exists
  /\ Phase(c, "failed")
  /\ UNCHANGED <<exists, ready, cause, deletes, downs>>

\* The points are written or searched.
UseCollection(c) ==
  /\ phase[c] = "using" /\ exists
  /\ Phase(c, "done")
  /\ UNCHANGED <<exists, ready, cause, deletes, downs>>

\* There is no collection: 404, which is not allowed here.
UseFails(c) ==
  /\ phase[c] = "using" /\ ~exists
  /\ Phase(c, "failed")
  /\ UNCHANGED <<exists, ready, cause, deletes, downs>>

\* Qdrant does not answer in time.
QdrantDown(c) ==
  /\ Busy(c) /\ downs < MaxDowns /\ downs' = downs + 1
  /\ Phase(c, "failed") /\ Explain("down", {c})
  /\ UNCHANGED <<exists, ready, deletes>>

\* An operator deletes the collection.
DeleteCollection ==
  /\ exists /\ deletes < MaxDeletes /\ deletes' = deletes + 1
  /\ exists' = FALSE
  /\ Explain("deleted", {c \in Callers : phase[c] = "using"})
  /\ UNCHANGED <<ready, phase, downs>>

\* A process restarts: its calls are gone, and so is what it knew.
ProcessRestarts(p) ==
  /\ ready[p]
  /\ ready' = [ready EXCEPT ![p] = FALSE]
  /\ phase' = [c \in Callers |-> IF Home[c] = p /\ Busy(c) THEN "failed" ELSE phase[c]]
  /\ Explain("down", {c \in Callers : Home[c] = p /\ Busy(c)})
  /\ UNCHANGED <<exists, deletes, downs>>

CollectionNext ==
  \/ \E c \in Callers :
       \/ BeginCall(c) \/ AskCollection(c) \/ CreateCollection(c) \/ CreationUnanswered(c)
       \/ CreationRefused(c) \/ UseCollection(c) \/ UseFails(c) \/ QdrantDown(c)
  \/ DeleteCollection \/ \E p \in Processes : ProcessRestarts(p)

CollectionSpec == CollectionInit /\ [][CollectionNext]_collectionVars

-----------------------------------------------------------------------------
(* Properties *)

\* A call fails only because Qdrant was down, because the collection was deleted
\* after the process had seen it, or because another call created it between the
\* question and the creation.
CollectionFailureHasCause ==
  \A c \in Callers : phase[c] = "failed" => cause[c] # {}
=============================================================================
