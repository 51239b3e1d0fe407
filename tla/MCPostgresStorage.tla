------------------------- MODULE MCPostgresStorage -------------------------
(* Instances of PostgresStorage for TLC. *)
EXTENDS PostgresStorage, TLC

Symmetry == Permutations(Mutations)
=============================================================================
