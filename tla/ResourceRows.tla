--------------------------- MODULE ResourceRows ---------------------------
(***************************************************************************)
(* The rows that provisioning, clones, template conversions, snapshots and *)
(* destroys share: ports, their address allocations, the tokens that make  *)
(* a delete repeatable, and the Operation rows of the transactions.        *)
(*                                                                         *)
(* A port keeps the VM it is attached to (Nil when detached), its binding  *)
(* status, address, revision and life.  Every update moves the revision by *)
(* one, so a manifest that names the revision names the whole row; the     *)
(* generation counter, which moves with it, is left out.  Names, MACs and  *)
(* security groups never change here.                                      *)
(*                                                                         *)
(* Realizing a row in OVN is part of the step before it: it changes no     *)
(* row, and its failure is the failure of the handler's next call.         *)
(***************************************************************************)
EXTENDS ComputeOperation, Naturals, FiniteSets

CONSTANTS Nil,      \* no VM, no address
          Ports,    \* <<owner, NIC>>
          Tx,       \* the transactions PVE may ask for: kind, VM and source of each
          Subnet    \* its first and last address and its gateway

VARIABLES ports,  \* port rows
          allocs, \* the address allocation of each port
          tokens, \* idempotency tokens of deletes
          prov,   \* status of each port's provisioning operation
          ops,    \* operation rows of the transactions
          h,      \* handlers: the holder of a VM's lock, or one API request
          pve,    \* the source VM and its snapshots, as PVE has them
          ask,    \* what PVE asks for in each transaction
          taken,  \* ports that a user attached in the middle of things
          faults, \* calls that failed and restarts so far
          plan    \* what happens in this behaviour: transactions and bounds

Ids == DOMAIN Tx

Kind(id) == Tx[id].kind

ASSUME TxAssumption ==
    /\ Nil \notin Ids
    /\ \A id \in Ids : Kind(id) \in {"snapshot", "mutation", "template", "destroy", "clone"}

\* The transactions of one VM compete for its slot.
VMSlotFree(vm) == SlotFree([id \in {j \in Ids : Tx[j].vm = vm} |-> ops[id]])

rows == <<ports, allocs, tokens>>
world == <<pve, ask, taken, plan>>
vars == <<ports, allocs, tokens, prov, ops, h, pve, ask, taken, faults, plan>>

NoPort == [life |-> "absent", vm |-> Nil, st |-> "unbound", rev |-> 0, addr |-> Nil]

NoAlloc == [life |-> "absent", use |-> "reserved", rev |-> 0, addr |-> Nil]

Present(r) == r.life # "absent"

Tombstone(r) == r.life = "deleting"

\* An update makes a tombstone live again.
Updated(r) == [r EXCEPT !.rev = @ + 1, !.life = "live"]

Deleted(r) == [r EXCEPT !.rev = @ + 1, !.life = "deleting"]

\* An allocated address names its port.
Holds(a) == Present(a) /\ a.use = "allocated"

portCanBeDeprovisioned(r) == r.vm = Nil /\ r.st = "unbound"

VMPorts(vm) == {p \in Ports : Present(ports[p]) /\ ports[p].vm = vm}

\* A delete writes a tombstone once; the same key and revision find it again.
DeleteToken(key, kind, p, rev) == [key |-> key, kind |-> kind, port |-> p, rev |-> rev]

Begun(key, kind, p, rev) == DeleteToken(key, kind, p, rev) \in tokens

\* A port is not deleted while an allocated address names it.
CanDeletePort(p, rev) == Present(ports[p]) /\ ports[p].rev = rev /\ ~Holds(allocs[p])

CanDeleteAlloc(p, rev) == Present(allocs[p]) /\ allocs[p].rev = rev

\* Purging an absent row succeeds; otherwise it needs the tombstone itself.
CanPurgePort(p, rev) ==
    ~Present(ports[p]) \/ (Tombstone(ports[p]) /\ ports[p].rev = rev /\ ~Holds(allocs[p]))

CanPurgeAlloc(p, rev) == ~Present(allocs[p]) \/ (Tombstone(allocs[p]) /\ allocs[p].rev = rev)

\* The periodic reconciler finishes a delete that was left half done.
Sweep(p) ==
    /\ \/ /\ Tombstone(allocs[p])
          /\ allocs' = [allocs EXCEPT ![p] = NoAlloc] /\ UNCHANGED ports
       \/ /\ Tombstone(ports[p]) /\ ~Holds(allocs[p])
          /\ ports' = [ports EXCEPT ![p] = NoPort] /\ UNCHANGED allocs
    /\ UNCHANGED <<tokens, prov, ops, h, world, faults>>
===========================================================================
