------------------------------ MODULE MCHAStart ------------------------------
(* HAStart for TLC: one VM on node a, its move to b, and assignments of its *)
(* HA service to b and then back to a.                                      *)
EXTENDS HAStart

CONSTANTS a, b

MCNodes == {a, b}
MCMove == [src |-> a, dst |-> b, online |-> TRUE]
MCMoves == {MCMove}
MCThereAndBack == {MCMove, [src |-> b, dst |-> a, online |-> FALSE]}
MCProofs == {[uid |-> "u1", node |-> b, epoch |-> 1], [uid |-> "u2", node |-> a, epoch |-> 2]}
MCHARows == {[uid |-> x.uid] : x \in MCProofs}
==============================================================================
