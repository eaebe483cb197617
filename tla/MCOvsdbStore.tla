---------------------------- MODULE MCOvsdbStore ----------------------------
(***************************************************************************)
(* Small instances of OvsdbStore, one scene per behaviour: a network and a *)
(* port that may be on it; two ports that want the same address; and one   *)
(* port whose requests carry idempotency keys and are sent again.  A scene *)
(* says which calls the clients make and when they stop writing.           *)
(***************************************************************************)
EXTENDS OvsdbStore, TLC

CONSTANTS net, port, other

VARIABLE scene

Kinds == net :> "network" @@ port :> "port" @@ other :> "port"
PortOnNet == {<<"port", "network">>}

Made == [references |-> {a \in Calls : a.id # other /\ a.claim = Nil /\ a.key = Nil},
         claims |-> {a \in Calls : a.id # net /\ a.ref = Nil /\ a.key = Nil},
         tokens |-> {a \in Calls : a.id = port /\ a.ref = Nil}]

LastEpoch == [references |-> MaxEpoch - 1, claims |-> MaxEpoch - 1, tokens |-> MaxEpoch]

MCInit == Init /\ scene \in DOMAIN Made

MCNext ==
  \E c \in Clients :
    \/ /\ \E a \in Made[scene] : (epoch < LastEpoch[scene] \/ a.op = "get") /\ Invoke(c, a)
       /\ UNCHANGED scene
    \/ Load(c) /\ UNCHANGED scene
    \/ Initialize(c) /\ UNCHANGED scene
    \/ Commit(c) /\ UNCHANGED scene
    \/ Conflict(c) /\ UNCHANGED scene
    \/ Disconnect(c) /\ UNCHANGED scene

MCSpec == MCInit /\ [][MCNext]_<<vars, scene>>

ClientSymmetry == Permutations(Clients)
=============================================================================
