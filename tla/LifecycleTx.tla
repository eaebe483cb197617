----------------------------- MODULE LifecycleTx -----------------------------
(***************************************************************************)
(* What a durable compute transaction promises, without the claims and     *)
(* retries that bring it about: it is open until one direction is chosen,  *)
(* the choice is made once, and it only ends in the direction chosen.      *)
(***************************************************************************)
CONSTANTS Directions, \* the ways the transaction can end
          Undecided   \* no direction yet, none of the directions

VARIABLES chosen, \* the direction whose writes are allowed, or Undecided
          ended   \* the direction the transaction ended in, or Undecided

txVars == <<chosen, ended>>

TxInit == chosen = Undecided /\ ended = Undecided

Choose(d) == chosen = Undecided /\ chosen' = d /\ UNCHANGED ended

End == /\ chosen # Undecided /\ ended = Undecided
       /\ ended' = chosen /\ UNCHANGED chosen

TxNext == (\E d \in Directions : Choose(d)) \/ End

TxSpec == TxInit /\ [][TxNext]_txVars
==============================================================================
