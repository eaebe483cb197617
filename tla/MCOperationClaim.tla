--------------------------- MODULE MCOperationClaim ---------------------------
(* OperationClaim for TLC. *)
EXTENDS OperationClaim, TLC

CONSTANTS h1, h2, h3

MCHandlers == {h1, h2, h3}
HandlerSymmetry == Permutations(MCHandlers)
==============================================================================
