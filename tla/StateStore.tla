----------------------------- MODULE StateStore -----------------------------
(***************************************************************************)
(* What the platform-state storage promises its callers: a state in        *)
(* memory that every mutation takes effect on at once, and a durable state *)
(* that follows it, perhaps several mutations at a time, but never runs    *)
(* ahead of it, never goes back, and is what the next process starts from. *)
(* A state is the set of mutations applied to the seed.                    *)
(***************************************************************************)
CONSTANT Mutations

VARIABLES up, mem, disk

vars == <<up, mem, disk>>

Init ==
  /\ up = FALSE
  /\ mem = {}
  /\ disk = {}

Start ==
  /\ ~up /\ up'
  /\ mem' = disk
  /\ UNCHANGED disk

Mutate(m) ==
  /\ up
  /\ mem' = mem \cup {m}
  /\ UNCHANGED <<up, disk>>

Sync ==
  /\ disk' \in SUBSET Mutations
  /\ disk \subseteq disk'
  /\ disk' \subseteq mem
  /\ UNCHANGED <<up, mem>>

\* What was not durable is gone.
Stop ==
  /\ up /\ ~up'
  /\ mem' = disk
  /\ UNCHANGED disk

Next == Start \/ Sync \/ Stop \/ \E m \in Mutations : Mutate(m)

Spec == Init /\ [][Next]_vars
=============================================================================
