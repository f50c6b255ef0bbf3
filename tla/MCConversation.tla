--------------------------- MODULE MCConversation ---------------------------
(* Two tasks at once; the bounds are the smallest at which calls are cut   *)
(* off, a checkpoint is saved and resumed, and prose is questioned.        *)
EXTENDS Conversation, TLC
Symmetry == Permutations(Runs)
=============================================================================
