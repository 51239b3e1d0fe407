---------------------------- MODULE MCIngestion ----------------------------
(* Instances of Ingestion for TLC. *)
EXTENDS Ingestion, TLC

\* Every stage on, the mock store, nothing but chunking, and a parser failure.
MCPlans ==
  {[embedding |-> TRUE, index |-> "qdrant", fail |-> FALSE],
   [embedding |-> FALSE, index |-> "mock", fail |-> FALSE],
   [embedding |-> FALSE, index |-> "off", fail |-> FALSE],
   [embedding |-> TRUE, index |-> "off", fail |-> TRUE]}

MCLivePlans ==
  {[embedding |-> TRUE, index |-> "qdrant", fail |-> FALSE],
   [embedding |-> FALSE, index |-> "off", fail |-> TRUE]}

MCLimits == {0, 1, 2}
=============================================================================
