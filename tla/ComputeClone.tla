---------------------------- MODULE ComputeClone ----------------------------
(***************************************************************************)
(* Cloning a VM, one of its snapshots, or its template.  The prepare       *)
(* provisions a port per NIC of the source, attaches it to the target VM   *)
(* and verifies the whole; the commit verifies again; the abort, and the   *)
(* compensation of a failed prepare, delete whatever state each port was   *)
(* left in: reserved address only, provisional, attached, detached or a    *)
(* tombstone of either.  The lock and the slot are the target VM's.        *)
(***************************************************************************)
EXTENDS ComputeSource

Clones == {c \in Ids : Kind(c) = "clone"}

CloneNICs(c) == 1..Tx[c].nics

ClonePorts(c) == {<<c, i>> : i \in CloneNICs(c)}

ASSUME CloneAssumption ==
    \A c \in Clones :
        /\ Tx[c].nics \in Nat \ {0}
        /\ ClonePorts(c) \subseteq Ports \ APIPorts
        /\ Tx[c].vm \notin Callers \cup {Nil}

ClonePort(l) == <<h[l].op, h[l].i>>

ProvisionNIC(w, i) == [w EXCEPT !.i = i, !.pc = IF i \in CloneNICs(w.op) THEN "provision" ELSE "verify",
                                !.port = IF i \in CloneNICs(w.op) THEN <<w.op, i>> ELSE Nil]

\* The revisions a clone's port and its address go through.
clonePortAttached(p, vm) == ports[p].vm = vm /\ ports[p].rev = 2 /\ ports[p].st \in {"binding", "bound"}

clonePortDetached(p) == portCanBeDeprovisioned(ports[p]) /\ ports[p].rev = 3

clonePortDeletionTombstone(p) == Tombstone(ports[p]) /\ portCanBeDeprovisioned(ports[p]) /\ ports[p].rev = 4

validateCloneAllocation(p) == Holds(allocs[p]) /\ allocs[p].rev = 2 /\ allocs[p].addr = ports[p].addr

validateCloneAllocationForDeletion(p) ==
    \/ ~Present(allocs[p])
    \/ /\ Holds(allocs[p]) /\ allocs[p].addr = ports[p].addr
       /\ allocs[p].rev = IF Tombstone(allocs[p]) THEN 3 ELSE 2

\* Where the NICs of the new VM come from.
\* As if a clone of the template did not need PVE's template flag.
BlueprintsUnflagged(c) ==
    CASE Tx[c].from = "vm" -> /\ pve.vm = "vm" /\ VMPorts(Src) = SrcPorts
                              /\ \A p \in SrcPorts : ports[p].life = "live" /\ ports[p].st \in {"binding", "bound"}
      [] Tx[c].from = "snapshot" -> Tx[c].snap \in pve.snaps /\ Created(Tx[c].snap)
      [] Tx[c].from = "template" -> VMPorts(Src) = {}

cloneSourceBlueprints(c) ==
    CASE Tx[c].from = "vm" -> /\ pve.vm = "vm" /\ VMPorts(Src) = SrcPorts
                              /\ \A p \in SrcPorts : ports[p].life = "live" /\ ports[p].st \in {"binding", "bound"}
      [] Tx[c].from = "snapshot" -> Tx[c].snap \in pve.snaps /\ Created(Tx[c].snap)
      [] Tx[c].from = "template" -> pve.vm = "template" /\ VMPorts(Src) = {}

computeClonePrepare(c) ==
    /\ Asked(c, "clone") /\ ask[c] = "none"
    /\ LET l == Tx[c].vm
           w == [Idle EXCEPT !.op = c, !.req = c, !.i = 1]
       IN \/ /\ Running(ops[c], "clone") /\ ops[c].phase = "compensating"
             /\ h' = [h EXCEPT ![l] = [w EXCEPT !.pc = "drop", !.dir = "undo"]]
          \/ /\ Running(ops[c], "clone") /\ ops[c].phase = "preparing"
             /\ h' = [h EXCEPT ![l] = ProvisionNIC(w, 1)]
          \/ /\ Running(ops[c], "clone") /\ ops[c].phase = "prepared"
             /\ h' = [h EXCEPT ![l] = [w EXCEPT !.pc = "verify"]]
          \/ /\ ~Exists(ops[c]) /\ cloneSourceBlueprints(c)
             /\ h' = [h EXCEPT ![l] = [w EXCEPT !.pc = IF Tx[c].from = "template" THEN "findTemplate" ELSE "cloneNew",
                                                !.saw = [tmpl |-> Nil]]]
    /\ UNCHANGED <<rows, prov, ops, world, faults>>

\* The target has no ports, and none of the clone's own is left over.
cloneNew(l) ==
    /\ At(l, "cloneNew")
    /\ LET w == h[l]
           c == w.op
           ok == VMPorts(l) = {} /\ (\A p \in ClonePorts(c) : ~Present(ports[p])) /\ VMSlotFree(l)
       IN /\ Try(l, ok, ProvisionNIC([w EXCEPT !.saw = Nil], 1), Idle)
          /\ ops' = IF ok THEN [ops EXCEPT ![c] = createComputeOperation("clone", "preparing", Nil)] ELSE ops
    /\ UNCHANGED <<rows, prov, world, faults>>

\* After provisioning: a port that is attached already is verified.
attachClonePort(l) ==
    /\ At(l, "attach")
    /\ LET w == h[l]
           p == w.port
           kept == clonePortAttached(p, l) /\ validateCloneAllocation(p)
           fresh == Present(ports[p]) /\ portCanBeDeprovisioned(ports[p]) /\ ports[p].rev = 1
       IN /\ Try(l, kept \/ fresh, ProvisionNIC(w, w.i + 1), [w EXCEPT !.pc = "compensate"])
          /\ ports' = IF fresh THEN [ports EXCEPT ![p] = [Updated(@) EXCEPT !.vm = l, !.st = "binding"]] ELSE ports
    /\ UNCHANGED <<allocs, tokens, prov, ops, world, faults>>

CloneSound(c, vm) ==
    /\ VMPorts(vm) = ClonePorts(c)
    /\ \A p \in ClonePorts(c) : clonePortAttached(p, vm) /\ validateCloneAllocation(p)

verifyClonePorts(l) ==
    /\ At(l, "verify")
    /\ LET w == h[l] IN
       CASE w.dir = "commit" -> Try(l, CloneSound(w.op, l), [w EXCEPT !.pc = "end"], Idle)
         [] w.dir # "commit" -> Try(l, CloneSound(w.op, l),
                                      [w EXCEPT !.pc = IF ops[w.op].phase = "prepared" THEN "reply" ELSE "persist"],
                                      [w EXCEPT !.pc = "compensate"])
    /\ UNCHANGED <<rows, prov, ops, world, faults>>

persistClonePrepared(l) ==
    /\ At(l, "persist")
    /\ LET c == h[l].op
           ok == Running(ops[c], "clone") /\ ops[c].phase = "preparing"
       IN /\ Try(l, ok, [h[l] EXCEPT !.pc = "reply"], [h[l] EXCEPT !.pc = "compensate"])
          /\ ops' = IF ok THEN [ops EXCEPT ![c].phase = "prepared"] ELSE ops
    /\ UNCHANGED <<rows, prov, world, faults>>

failClonePrepare(l) ==
    /\ At(l, "compensate") /\ Kind(h[l].op) = "clone"
    /\ LET w == h[l]
           ok == Claimable(ops[w.op], "clone", {"preparing", "prepared"}, "compensating")
       IN /\ Try(l, ok, [w EXCEPT !.pc = "drop", !.dir = "undo", !.i = 1, !.bad = 0, !.port = Nil], Idle)
          /\ ops' = IF ok THEN [ops EXCEPT ![w.op] = claimComputeOperation(@, "compensating")] ELSE ops
    /\ UNCHANGED <<rows, prov, world, faults>>

cloneCheck(l) ==
    /\ At(l, "check") /\ Kind(h[l].op) = "clone"
    /\ LET w == h[l] IN
       IF w.dir = "commit" THEN Goto(l, "verify")
       ELSE Try(l, VMPorts(l) \subseteq ClonePorts(w.op), [w EXCEPT !.pc = "drop", !.i = 1], Idle)
    /\ UNCHANGED <<rows, prov, ops, world, faults>>

(***************************************************************************)
(* Deleting one port of a clone, from whatever state it is in.  The field  *)
(* rev is the revision at which the port itself is to be removed (1, 3) or *)
(* purged (2, 4), or 0 when only an address is left.                       *)
(***************************************************************************)
deletePreparingClonePort(l) ==
    /\ At(l, "drop") /\ h[l].i \in CloneNICs(h[l].op)
    /\ LET p == ClonePort(l)
           r == ports[p]
           w == [h[l] EXCEPT !.port = p, !.key = <<"drop", h[l].op>>]
           unbind == Present(r) /\ clonePortAttached(p, l) /\ validateCloneAllocation(p)
           owned == clonePortAttached(p, l) \/ clonePortDetached(p) \/ clonePortDeletionTombstone(p)
           provisional == portCanBeDeprovisioned(r) /\ r.rev = IF Tombstone(r) THEN 2 ELSE 1
       IN /\ h' = [h EXCEPT ![l] =
                CASE ~Present(r) -> [w EXCEPT !.pc = "dropAlloc", !.rev = 0]
                  [] Present(r) /\ unbind -> [w EXCEPT !.pc = "dropRelease", !.rev = 3]
                  [] Present(r) /\ clonePortDetached(p) -> [w EXCEPT !.pc = "dropRelease", !.rev = 3]
                  [] Present(r) /\ clonePortDeletionTombstone(p) -> [w EXCEPT !.pc = "dropRelease", !.rev = 4]
                  [] Present(r) /\ ~owned /\ provisional -> [w EXCEPT !.pc = "dropAlloc", !.rev = r.rev]
                  [] OTHER -> NotRemoved(w)]
          /\ ports' = IF unbind THEN [ports EXCEPT ![p] = [Updated(@) EXCEPT !.vm = Nil, !.st = "unbound"]] ELSE ports
    /\ UNCHANGED <<allocs, tokens, prov, ops, world, faults>>

deleteOwnedComputePort(l) ==
    /\ At(l, "dropRelease")
    /\ LET w == h[l] IN
       Try(l, validateCloneAllocationForDeletion(w.port),
              [w EXCEPT !.pc = IF w.rev = 4 THEN "purge" ELSE "release"], NotRemoved(w))
    /\ UNCHANGED <<rows, prov, ops, world, faults>>

\* With its address gone, the port itself.
AfterAddress(w) ==
    CASE w.rev = 0 -> NextPort(w)
      [] w.rev = 1 -> [w EXCEPT !.pc = "remove", !.arev = 0]
      [] w.rev = 2 -> [w EXCEPT !.pc = "purge", !.arev = 0]

deletePreparingCloneAllocation(l) ==
    /\ At(l, "dropAlloc")
    /\ LET w == h[l]
           p == w.port
           a == allocs[p]
           base == IF a.use = "allocated" THEN 2 ELSE 1
           sound == w.rev = 0 \/ a.addr = ports[p].addr
           tomb == sound /\ Tombstone(a) /\ a.rev = base + 1
           fresh == sound /\ a.life = "live" /\ a.rev = base
       IN /\ h' = [h EXCEPT ![l] =
                CASE ~Present(a) -> AfterAddress(w)
                  [] Present(a) /\ (tomb \/ fresh) -> [w EXCEPT !.pc = "dropAllocPurge", !.arev = base + 1]
                  [] OTHER -> NotRemoved(w)]
          /\ allocs' = IF fresh THEN [allocs EXCEPT ![p] = Deleted(@)] ELSE allocs
          /\ tokens' = IF fresh THEN tokens \cup {DeleteToken(<<"dropAlloc", w.op>>, "alloc", p, base)} ELSE tokens
    /\ UNCHANGED <<ports, prov, ops, world, faults>>

purgeCloneAllocation(l) ==
    /\ At(l, "dropAllocPurge")
    /\ LET w == h[l]
           ok == CanPurgeAlloc(w.port, w.arev)
       IN /\ Try(l, ok, AfterAddress(w), NotRemoved(w))
          /\ allocs' = IF ok THEN [allocs EXCEPT ![w.port] = NoAlloc] ELSE allocs
    /\ UNCHANGED <<ports, tokens, prov, ops, world, faults>>

\* As if a port that could not be deleted were no obstacle.
DropEndLenient(l) ==
    /\ At(l, "drop") /\ h[l].i \notin CloneNICs(h[l].op)
    /\ Goto(l, "end")
    /\ UNCHANGED <<rows, prov, ops, world, faults>>

dropEnd(l) ==
    /\ At(l, "drop") /\ h[l].i \notin CloneNICs(h[l].op)
    /\ Try(l, h[l].bad = 0, [h[l] EXCEPT !.pc = "end"], Idle)
    /\ UNCHANGED <<rows, prov, ops, world, faults>>

CloneStep(l) ==
    \/ cloneNew(l) \/ attachClonePort(l) \/ verifyClonePorts(l) \/ persistClonePrepared(l)
    \/ failClonePrepare(l) \/ cloneCheck(l)
    \/ deletePreparingClonePort(l) \/ deleteOwnedComputePort(l)
    \/ deletePreparingCloneAllocation(l) \/ purgeCloneAllocation(l) \/ dropEnd(l)
=============================================================================
