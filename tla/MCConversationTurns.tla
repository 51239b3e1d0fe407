------------------------- MODULE MCConversationTurns -------------------------
(* Instances of ConversationTurns for TLC. *)
EXTENDS ConversationTurns, TLC

Symmetry == Permutations(Turns)

\* Every message costs one token.
MCUniform == [m \in Message |-> 1]
=============================================================================
