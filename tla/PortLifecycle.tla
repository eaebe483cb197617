---------------------------- MODULE PortLifecycle ----------------------------
(***************************************************************************)
(* What the manager promises about a port's attachment, without saying how *)
(* requests, reports and agents bring it about: the binding status walks   *)
(* one cycle, every attachment has a generation of its own, and only the   *)
(* end of an attachment forgets the node.                                  *)
(***************************************************************************)
EXTENDS Naturals

CONSTANTS Nodes,  \* transport nodes
          Nil     \* no node

ASSUME NodesAssumption == Nil \notin Nodes

VARIABLES status,     \* binding_status
          generation, \* generation of the latest attachment
          node        \* node_id and requested_chassis

portVars == <<status, generation, node>>

Statuses == {"unbound", "binding", "bound", "detaching"}

PortInit == status = "unbound" /\ generation = 1 /\ node = Nil

Attach(n) == /\ status = "unbound"
             /\ status' = "binding" /\ generation' = generation + 1 /\ node' = n

Detach == /\ status \in {"binding", "bound"}
          /\ status' = "detaching" /\ UNCHANGED <<generation, node>>

ReportBound == /\ status = "binding"
               /\ status' = "bound" /\ UNCHANGED <<generation, node>>

ReportUnbound == /\ status = "detaching"
                 /\ status' = "unbound" /\ node' = Nil /\ UNCHANGED generation

PortNext == \/ \E n \in Nodes : Attach(n)
            \/ Detach \/ ReportBound \/ ReportUnbound

\* The binding cycle the attach, detach and report handlers may move a port
\* through: a step that skips a status, reuses a generation or forgets the node
\* of a live attachment is none of it.
PortSpec == PortInit /\ [][PortNext]_portVars
=============================================================================
