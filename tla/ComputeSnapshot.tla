-------------------------- MODULE ComputeSnapshot --------------------------
(***************************************************************************)
(* The snapshots of a VM.  A manifest row records the VM's ports at one    *)
(* snapshot (a name and an epoch); a mutation row is the transaction of a  *)
(* rollback or a delete.  PVE takes its own snapshot before it asks for    *)
(* the manifest, undoes it and asks for a cleanup when that fails, and     *)
(* rolls back or deletes between the prepare and the finish of a mutation. *)
(* The VM's requests run one at a time, under its lock.                    *)
(***************************************************************************)
EXTENDS PortProvision

CONSTANTS Src,  \* the VM that is snapshot, converted, destroyed or cloned
          NICs  \* 1..n

Snapshots == {s \in Ids : Kind(s) = "snapshot"}

Mutations == {m \in Ids : Kind(m) = "mutation"}

SrcPorts == {<<Src, i>> : i \in NICs}

\* Snapshots, conversions and destroys are the source VM's; a clone is some
\* other VM's.
ASSUME SourceAssumption ==
    /\ \A id \in Ids : Tx[id].vm = Src <=> Kind(id) # "clone"
    /\ \A m \in Mutations : Tx[m].snap \in Snapshots
    /\ NICs = 1..Cardinality(NICs) /\ Cardinality(NICs) \in Nat
    /\ SrcPorts \subseteq Ports \ APIPorts
    /\ Src \notin Ids \cup Callers \cup {Nil}

Asked(id, kind) == id \in plan.ids /\ Kind(id) = kind /\ At(Tx[id].vm, "idle")

Start(id, pc) == h' = [h EXCEPT ![Tx[id].vm] = [Idle EXCEPT !.pc = pc, !.op = id, !.req = id]]

Done(l) == h' = [h EXCEPT ![l] = Idle]

Created(s) == ops[s].status = "succeeded" /\ ops[s].phase = "created"

ActiveManifest(s) ==
    /\ Exists(ops[s]) /\ ops[s].status # "failed"
    /\ ops[s].phase \notin {"deleted", "conflicted"}

findActiveSnapshotByNameExcept(s) ==
    {t \in Snapshots \ {s} : Tx[t].name = Tx[s].name /\ ActiveManifest(t)}

\* Every port of the manifest is on the VM with its allocated address.
verifySnapshotPorts ==
    /\ VMPorts(Src) = SrcPorts
    /\ \A p \in SrcPorts : Holds(allocs[p]) /\ allocs[p].life = "live"

\* PVE takes its snapshot, or removes it because the manifest failed.
PVESnapshot(s) ==
    /\ s \in plan.ids /\ s \in Snapshots /\ pve.vm = "vm" /\ ask[s] = "none"
    /\ pve.snaps \cap {t \in Snapshots : Tx[t].name = Tx[s].name} = {}
    /\ \A t \in Snapshots : ask[t] # "wanted"
    /\ pve' = [pve EXCEPT !.snaps = @ \cup {s}]
    /\ ask' = [ask EXCEPT ![s] = "wanted"]
    /\ UNCHANGED <<rows, prov, ops, h, taken, plan, faults>>

PVEUndoSnapshot(s) ==
    /\ s \in Snapshots /\ ask[s] = "wanted" /\ At(Src, "idle")
    /\ pve' = [pve EXCEPT !.snaps = @ \ {s}]
    /\ ask' = [ask EXCEPT ![s] = "undone"]
    /\ UNCHANGED <<rows, prov, ops, h, taken, plan, faults>>

computeSnapshotCreate(s) ==
    /\ Asked(s, "snapshot") /\ ask[s] = "wanted"
    /\ \/ Running(ops[s], "snapshot") /\ ops[s].phase = "creating" /\ Start(s, "snapVerify")
       \/ /\ ~Exists(ops[s]) /\ findActiveSnapshotByNameExcept(s) = {}
          /\ VMPorts(Src) = SrcPorts /\ Start(s, "snapNew")
       \/ Created(s) /\ Start(s, "snapReply")
    /\ UNCHANGED <<rows, prov, ops, world, faults>>

snapshotNew(l) ==
    /\ At(l, "snapNew")
    /\ LET s == h[l].op IN
       IF VMSlotFree(Src)
       THEN ops' = [ops EXCEPT ![s] = createComputeOperation("snapshot", "creating", Nil)] /\ Goto(l, "snapOther")
       ELSE Done(l) /\ UNCHANGED ops
    /\ UNCHANGED <<rows, prov, world, faults>>

\* A manifest of the same name that came in between makes this one conflict.
snapshotOther(l) ==
    /\ At(l, "snapOther")
    /\ LET s == h[l].op
           clash == findActiveSnapshotByNameExcept(s) # {}
       IN /\ Try(l, clash, Idle, [h[l] EXCEPT !.pc = "snapVerify"])
          /\ ops' = IF clash THEN [ops EXCEPT ![s] = terminalizeClaimedComputeOperation(@, "conflicted", "failed")]
                    ELSE ops
    /\ UNCHANGED <<rows, prov, world, faults>>

\* The ports are read again once the row is there.
snapshotVerify(l) ==
    /\ At(l, "snapVerify")
    /\ Try(l, verifySnapshotPorts, [h[l] EXCEPT !.pc = "snapEnd"], Idle)
    /\ UNCHANGED <<rows, prov, ops, world, faults>>

snapshotEnd(l) ==
    /\ At(l, "snapEnd")
    /\ LET s == h[l].op
           ok == Terminalizable(ops[s], "snapshot", "creating", "created", "succeeded")
       IN /\ Try(l, ok, [h[l] EXCEPT !.pc = "snapReply"], Idle)
          /\ ops' = IF ok THEN [ops EXCEPT ![s] = terminalizeClaimedComputeOperation(@, "created", "succeeded")] ELSE ops
    /\ UNCHANGED <<rows, prov, world, faults>>

snapshotReply(l) ==
    /\ At(l, "snapReply")
    /\ ask' = [ask EXCEPT ![h[l].op] = "kept"] /\ Done(l)
    /\ UNCHANGED <<rows, prov, ops, pve, taken, plan, faults>>

\* Cleaning up an epoch PVE no longer has: without a row, one is created that
\* keeps a late create out; a finished row takes the slot again.
computeSnapshotCleanup(s) ==
    /\ Asked(s, "snapshot") /\ ask[s] = "undone"
    /\ LET op == ops[s]
           open == VMSlotFree(Src)
           cleaning == createComputeOperation("snapshot", "cleaning", Nil)
       IN /\ \/ ~Exists(op) /\ open
             \/ op.status = "running" /\ op.phase \in {"creating", "cleaning"}
             \/ Created(s) /\ open
             \/ op.status = "failed" /\ op.phase = "conflicted" /\ open
          /\ ops' = [ops EXCEPT ![s] = cleaning]
          /\ Start(s, "snapClean")
    /\ UNCHANGED <<rows, prov, world, faults>>

snapshotClean(l) ==
    /\ At(l, "snapClean")
    /\ LET s == h[l].op IN
       ops' = IF Terminalizable(ops[s], "snapshot", "cleaning", "deleted", "succeeded")
              THEN [ops EXCEPT ![s] = terminalizeClaimedComputeOperation(@, "deleted", "succeeded")] ELSE ops
    /\ Done(l)
    /\ UNCHANGED <<rows, prov, world, faults>>

(***************************************************************************)
(* The end of every two-phase transaction.  PVE decides once which way a   *)
(* prepared transaction goes and asks until it is answered; the row takes  *)
(* one direction, and a repeated request resumes it.                       *)
(***************************************************************************)
ASSUME DirectionAssumption == Nil \notin {"commit", "abort", "undo"}

Prepared(id) == IF Kind(id) = "destroy" THEN "captured" ELSE "prepared"

ClaimOf(dir) == CASE dir = "commit" -> "committing" [] dir = "abort" -> "aborting" [] dir = "undo" -> "compensating"

EndOf(dir) == CASE dir = "commit" -> "committed" [] dir = "abort" -> "aborted" [] dir = "undo" -> "compensated"

StatusOf(dir) == IF dir = "undo" THEN "failed" ELSE "succeeded"

\* As if a repeated finish did not resume its own claim.
FinishNoResume(id, kind) ==
    /\ Asked(id, kind) /\ ask[id] \in {"commit", "abort"}
    /\ Running(ops[id], kind) /\ ops[id].phase = Prepared(id)
    /\ ops' = [ops EXCEPT ![id] = claimComputeOperation(@, ClaimOf(ask[id]))]
    /\ h' = [h EXCEPT ![Tx[id].vm] = [Idle EXCEPT !.pc = "check", !.op = id, !.req = id, !.dir = ask[id],
                                                  !.key = <<ask[id], id>>]]
    /\ UNCHANGED <<rows, prov, world, faults>>

computeFinish(id, kind) ==
    /\ Asked(id, kind) /\ ask[id] \in {"commit", "abort"}
    /\ Claimable(ops[id], kind, {Prepared(id)}, ClaimOf(ask[id]))
    /\ ops' = [ops EXCEPT ![id] = claimComputeOperation(@, ClaimOf(ask[id]))]
    /\ h' = [h EXCEPT ![Tx[id].vm] = [Idle EXCEPT !.pc = "check", !.op = id, !.req = id, !.dir = ask[id],
                                                  !.key = <<ask[id], id>>]]
    /\ UNCHANGED <<rows, prov, world, faults>>

terminalizeClaimed(l, after) ==
    LET w == h[l]
        ok == Terminalizable(ops[w.op], Kind(w.op), ClaimOf(w.dir), EndOf(w.dir), StatusOf(w.dir))
    IN /\ Try(l, ok, after, Idle)
       /\ ops' = IF ok
                 THEN [ops EXCEPT ![w.op] = terminalizeClaimedComputeOperation(@, EndOf(w.dir), StatusOf(w.dir))]
                 ELSE ops
       /\ UNCHANGED <<rows, prov, world, faults>>

(***************************************************************************)
(* Rollback and delete of a snapshot.                                      *)
(***************************************************************************)
computeSnapshotPrepare(m) ==
    /\ Asked(m, "mutation") /\ ask[m] = "none" /\ pve.vm = "vm" /\ Tx[m].snap \in pve.snaps
    /\ ask[Tx[m].snap] = "kept"
    /\ \/ Running(ops[m], "mutation") /\ ops[m].phase = "prepared" /\ Start(m, "mutationVerify")
       \/ ~Exists(ops[m]) /\ Created(Tx[m].snap) /\ Start(m, "mutationNew")
    /\ UNCHANGED <<rows, prov, ops, world, faults>>

mutationNew(l) ==
    /\ At(l, "mutationNew")
    /\ LET open == VMSlotFree(Src) IN
       /\ Try(l, open, [h[l] EXCEPT !.pc = "mutationVerify"], Idle)
       /\ ops' = IF open THEN [ops EXCEPT ![h[l].op] = createComputeOperation("mutation", "prepared", Nil)] ELSE ops
    /\ UNCHANGED <<rows, prov, world, faults>>

\* A delete finds its manifest deleted when it is repeated.
verifySnapshotMutationManifest(m) ==
    LET s == ops[Tx[m].snap] IN
    s.status = "succeeded" /\ (s.phase = "created" \/ (Tx[m].act = "delete" /\ s.phase = "deleted"))

MutationSound(m) == verifySnapshotMutationManifest(m) /\ (Tx[m].act = "rollback" => verifySnapshotPorts)

mutationVerify(l) ==
    /\ At(l, "mutationVerify")
    /\ LET m == h[l].op IN
       IF MutationSound(m)
       THEN ask' = [ask EXCEPT ![m] = "ready"] /\ UNCHANGED ops
       ELSE ops' = [ops EXCEPT ![m] = terminalizeClaimedComputeOperation(@, "compensated", "failed")] /\ UNCHANGED ask
    /\ Done(l)
    /\ UNCHANGED <<rows, prov, pve, taken, plan, faults>>

mutationCheck(l) ==
    /\ At(l, "check") /\ Kind(h[l].op) = "mutation"
    /\ LET m == h[l].op IN
       Try(l, h[l].dir = "abort" \/ MutationSound(m),
           [h[l] EXCEPT !.pc = IF h[l].dir = "commit" /\ Tx[m].act = "delete" THEN "mutationDelete" ELSE "mutationEnd"],
           Idle)
    /\ UNCHANGED <<rows, prov, ops, world, faults>>

deleteSnapshotManifestExact(l) ==
    /\ At(l, "mutationDelete")
    /\ LET m == h[l].op
           ok == verifySnapshotMutationManifest(m)
       IN /\ Try(l, ok, [h[l] EXCEPT !.pc = "mutationEnd"], Idle)
          /\ ops' = IF ok THEN [ops EXCEPT ![Tx[m].snap].phase = "deleted"] ELSE ops
    /\ UNCHANGED <<rows, prov, world, faults>>

mutationEnd(l) == At(l, "mutationEnd") /\ terminalizeClaimed(l, Idle)

SnapshotStep(l) ==
    \/ snapshotNew(l) \/ snapshotOther(l) \/ snapshotVerify(l) \/ snapshotEnd(l)
    \/ snapshotReply(l) \/ snapshotClean(l)
    \/ mutationNew(l) \/ mutationVerify(l) \/ mutationCheck(l)
    \/ deleteSnapshotManifestExact(l) \/ mutationEnd(l)
=============================================================================
