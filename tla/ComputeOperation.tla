-------------------------- MODULE ComputeOperation --------------------------
(***************************************************************************)
(* The Operation row of a compute transaction (a migration, an HA start, a *)
(* clone, a template conversion, a snapshot, a destroy) and the updates    *)
(* its helpers make to it.  A row is a record: its action, status, phase   *)
(* (a field of the payload), the rest of the payload, and whether its      *)
(* target is the VM's slot or a history name.  The read-and-swap loops     *)
(* around each update are in OperationClaim; here an update is one step.   *)
(***************************************************************************)

NoOperation == [status |-> "absent", slot |-> "none"]

Exists(op) == op.status # "absent"

Active(op) == op.slot = "active"

\* The target "compute-vm:<id>" at revision 1 names at most one row.
SlotFree(ops) == \A id \in DOMAIN ops : ~Active(ops[id])

Running(op, action) == /\ op.status = "running" /\ op.action = action

createComputeOperation(action, phase, pay) ==
    [action |-> action, status |-> "running", phase |-> phase, slot |-> "active", pay |-> pay]

\* A claim needs the running row of this action in a phase it may leave, or
\* in the claimed phase already.
Claimable(op, action, from, claim) == Running(op, action) /\ op.phase \in from \cup {claim}

claimComputeOperation(op, claim) == [op EXCEPT !.phase = claim]

\* Ending a transaction needs its own claim, or the very end it asks for.
Terminalizable(op, action, claim, terminal, status) ==
    /\ Exists(op) /\ op.action = action
    /\ \/ op.status = status /\ op.phase = terminal
       \/ op.status = "running" /\ op.phase = claim

terminalizeClaimedComputeOperation(op, terminal, status) ==
    [op EXCEPT !.phase = terminal, !.status = status, !.slot = "history"]

\* A handler still owns the transaction while the row runs in the slot with
\* the payload the handler expects.
OwnedAs(op, action, phase, pay) ==
    /\ Running(op, action) /\ Active(op)
    /\ op.phase = phase /\ op.pay = pay
==============================================================================
