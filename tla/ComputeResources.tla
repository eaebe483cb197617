-------------------------- MODULE ComputeResources --------------------------
(***************************************************************************)
(* Port provisioning and the compute transactions of one source VM and its *)
(* clones, together: they share ports, addresses and operation rows, and   *)
(* run beside each other, the port agent, API users, the periodic          *)
(* reconciler, failing calls and restarts of the manager.                  *)
(***************************************************************************)
EXTENDS ComputeClone

\* A plan: the transactions PVE will ask for, the binding state of the VM's
\* ports at the start, the VM that users attach ports to, and the bounds on
\* API requests, on ports that users take, and on calls that fail or managers
\* that restart.
CONSTANT Plans

ASSUME PlanAssumption == \A b \in Plans : {"ids", "st", "guest", "calls", "taken", "faults", "pools"} = DOMAIN b

Targets == {Tx[c].vm : c \in Clones}

Handlers == {Src} \cup Targets \cup Callers

Init ==
    /\ plan \in Plans
    /\ ports = [p \in Ports |-> IF p \in SrcPorts
                                THEN [life |-> "live", vm |-> Src, st |-> plan.st, rev |-> 3, addr |-> p[2]]
                                ELSE NoPort]
    /\ allocs = [p \in Ports |-> IF p \in SrcPorts
                                 THEN [life |-> "live", use |-> "allocated", rev |-> 2, addr |-> p[2]]
                                 ELSE NoAlloc]
    /\ tokens = {} /\ prov = [p \in Ports |-> "none"]
    /\ ops = [id \in Ids |-> NoOperation]
    /\ h = [l \in Handlers |-> Idle]
    /\ pve = [vm |-> "vm", snaps |-> {}]
    /\ ask = [id \in Ids |-> "none"]
    /\ taken = {} /\ faults = 0

(***************************************************************************)
(* PVE.  Between prepare and finish it does its own part, and asks for the *)
(* commit when that is done and for the abort when it failed.              *)
(***************************************************************************)
PVEDone(id) ==
    CASE Kind(id) = "template" -> [pve EXCEPT !.vm = "template"]
      [] Kind(id) = "destroy" -> [vm |-> "gone", snaps |-> {}]
      [] Kind(id) = "mutation" /\ Tx[id].act = "delete" -> [pve EXCEPT !.snaps = @ \ {Tx[id].snap}]
      [] OTHER -> pve

PVECommits(id) ==
    /\ ask[id] = "ready"
    /\ ask' = [ask EXCEPT ![id] = "commit"] /\ pve' = PVEDone(id)
    /\ UNCHANGED <<rows, prov, ops, h, taken, plan, faults>>

PVEAborts(id) ==
    /\ ask[id] = "ready"
    /\ ask' = [ask EXCEPT ![id] = "abort"]
    /\ UNCHANGED <<rows, prov, ops, h, pve, taken, plan, faults>>

\* A request of PVE reaches the manager; PVE repeats it until it is answered.
Request(id) ==
    \/ computeSnapshotCreate(id) \/ computeSnapshotCleanup(id)
    \/ computeSnapshotPrepare(id) \/ computeFinish(id, "mutation")
    \/ computeTemplatePrepare(id) \/ computeFinish(id, "template")
    \/ computeDestroyCapture(id) \/ computeFinish(id, "destroy")
    \/ computeClonePrepare(id) \/ computeFinish(id, "clone")

(***************************************************************************)
(* The others.                                                             *)
(***************************************************************************)
\* The node agent reports a port of the running VM bound.
ReportBound(p) ==
    /\ p \in SrcPorts /\ ports[p].life = "live" /\ ports[p].vm = Src /\ ports[p].st = "binding"
    /\ ports' = [ports EXCEPT ![p] = [Updated(@) EXCEPT !.st = "bound"]]
    /\ UNCHANGED <<allocs, tokens, prov, ops, h, world, faults>>

\* Where a handler goes when a call of it fails.
OnError(w) ==
    CASE w.pc \in {"provision", "complete", "failProvision"} -> NotProvisioned([w EXCEPT !.addr = Nil])
      [] w.pc \in {"reserve", "pick", "create", "rollback", "giveBack", "giveBackPurge", "allocate"} ->
           ProvisionError([w EXCEPT !.used = {}])
      [] w.pc \in {"attach", "persist", "detach"} \/ (w.pc = "verify" /\ w.dir # "commit") ->
           [w EXCEPT !.pc = "compensate"]
      [] w.pc = "restore" -> [w EXCEPT !.i = @ + 1, !.bad = 1]
      [] w.pc \in {"delete", "release", "releasePurge", "remove", "purge",
                   "drop", "dropRelease", "dropAlloc", "dropAllocPurge"} -> NotRemoved(w)
      [] OTHER -> Idle

CallFails(l) ==
    /\ ~At(l, "idle") /\ faults < plan.faults
    /\ faults' = faults + 1 /\ h' = [h EXCEPT ![l] = OnError(@)]
    /\ UNCHANGED <<rows, prov, ops, world>>

\* The manager restarts, and every request it was serving is gone.
Restart ==
    /\ faults < plan.faults /\ \E l \in Handlers : ~At(l, "idle")
    /\ faults' = faults + 1 /\ h' = [l \in Handlers |-> Idle]
    /\ UNCHANGED <<rows, prov, ops, world>>

APICall(l) ==
    \E p \in APIPorts : \/ provisionPort(l, p)
                        \/ \E expected \in {ports[p].rev, ports[p].rev - 1} : deprovisionPort(l, p, expected)

Step(l) ==
    /\ ~At(l, "idle")
    /\ ProvisionStep(l) \/ RemoveStep(l) \/ SnapshotStep(l) \/ SourceStep(l) \/ CloneStep(l)

Next ==
    \/ \E l \in Handlers : Step(l) \/ CallFails(l)
    \/ \E l \in Callers : APICall(l)
    \/ \E id \in Ids : Request(id) \/ PVESnapshot(id) \/ PVEUndoSnapshot(id) \/ PVECommits(id) \/ PVEAborts(id)
    \/ \E p \in Ports : ReportBound(p) \/ takePort(p) \/ Sweep(p)
    \/ Restart

Spec == Init /\ [][Next]_vars

\* Requests for the transaction that has claimed the VM.
Claims == {"committing", "aborting", "compensating"}

Claimed(id) == Exists(ops[id]) /\ ops[id].phase \in Claims

Resume(vm) == \E id \in Ids : Tx[id].vm = vm /\ Claimed(id) /\ Request(id)

\* Handlers finish, PVE (or an operator) repeats the request of a claimed
\* transaction and is not kept from the VM's lock for ever, and the periodic
\* reconciler comes round.
Fairness ==
    /\ \A l \in Handlers : WF_vars(Step(l))
    /\ \A vm \in {Src} \cup Targets : SF_vars(Resume(vm))
    /\ WF_vars(\E p \in Ports : Sweep(p))

FairSpec == Spec /\ Fairness

-----------------------------------------------------------------------------
TwoPhase == Ids \ Snapshots

\* createComputeOperation and computeVMOperationTarget: whichever handlers prepare,
\* resume or recover at the same time, no VM has two active transactions.
SlotHeldOnce ==
    \A vm \in {Src} \cup Targets : Cardinality({id \in Ids : Tx[id].vm = vm /\ Active(ops[id])}) <= 1

\* computeTemplateFinish, computeDestroyFinish and failSourcePrepare work port
\* by port, through failures, restarts and a second handler that recovers the
\* same commit: once no transaction holds the VM's slot, either every port of
\* the VM is attached with its address, or every port and every address is
\* gone, and then PVE has converted or destroyed the VM.
Consumed == \E id \in Ids : Kind(id) \in {"template", "destroy"} /\ Exists(ops[id])
                            /\ ops[id].phase \in {"committed", "destroyed"}

AllOrNothing ==
    VMSlotFree(Src) =>
        IF Consumed
        THEN pve.vm # "vm" /\ \A p \in SrcPorts : ~Present(ports[p]) /\ ~Present(allocs[p])
        ELSE \A p \in SrcPorts : ports[p].life = "live" /\ ports[p].vm = Src /\ Holds(allocs[p]) /\ allocs[p].life = "live"

\* computeCloneFinish and failClonePrepare: a clone that ended without being
\* committed has left no port and no address behind, whichever step of
\* provisioning, attaching or deleting was interrupted; a committed one has
\* all its ports on the target with their own addresses.
NoLeak ==
    \A c \in Clones : Exists(ops[c]) =>
        /\ ops[c].phase \in {"aborted", "compensated"} =>
             \A p \in ClonePorts(c) : ~Present(ports[p]) /\ ~Present(allocs[p])
        /\ ops[c].phase = "committed" => CloneSound(c, Tx[c].vm)

\* The rows follow what PVE did: a transaction is committed only when PVE did
\* its part, aborted only when PVE gave it up, and compensated only when PVE
\* was never told it was prepared; a clone or destroy that recovers a
\* template's commit (findCommittedTemplate) guesses no different.
Agreed ==
    \A id \in TwoPhase : Exists(ops[id]) =>
        /\ ops[id].phase \in {"committing", "committed", "destroyed"} => ask[id] = "commit"
        /\ ops[id].phase \in {"aborting", "aborted"} => ask[id] = "abort"
        /\ ops[id].phase \in {"compensating", "compensated"} => ask[id] = "none"

\* computeSnapshotCreate, computeSnapshotCleanup, deleteSnapshotManifestExact
\* and deleteCapturedSnapshots: when no transaction holds the VM's slot, an
\* active manifest without its PVE snapshot is one PVE is still to clean up,
\* and a PVE snapshot without an active manifest is one PVE is still to have
\* recorded or to undo.
SnapshotsMatch ==
    VMSlotFree(Src) =>
        \A s \in Snapshots : /\ Created(s) /\ s \notin pve.snaps => ask[s] = "undone"
                             /\ s \in pve.snaps /\ ~Created(s) => ask[s] = "wanted"

\* detachSourcePorts leaves ports that any user may attach elsewhere before
\* the transaction ends: no restore, delete or compensation touches such a
\* port afterwards (sourcePortDetached, deleteOwnedComputePort).
TakenStays == \A p \in taken \ APIPorts : ports[p].life = "live" /\ ports[p].vm = plan.guest

\* allocateProvisionAddress and releasePortAllocations: a port that was
\* provisioned and that no delete has begun on holds its own address.
Backed ==
    \A p \in Ports : prov[p] = "succeeded" /\ ports[p].life = "live" =>
        \/ Holds(allocs[p]) /\ allocs[p].addr = ports[p].addr
        \/ \E t \in tokens : t.port = p

\* provisionCandidateIterator.next steps through pools whose ends may be the
\* subnet's own or the largest address: provisioning gives up for want of
\* addresses only when it has found every usable address of the pools in use.
EveryAddressTried ==
    [][\A l \in Handlers :
          At(l, "pick") /\ h'[l].pc = "failProvision" /\ faults' = faults =>
              \A a \in Subnet.network..Subnet.broadcast :
                  /\ usableProvisionAddress(a)
                  /\ plan.pools # <<>> => \E i \in DOMAIN plan.pools : a \in plan.pools[i][1]..plan.pools[i][2]
                  => a \in h[l].used]_vars

\* A claimed transaction, whose claim keeps every other operation of the VM
\* out, ends: unless a port of it was changed from outside, which the code
\* leaves to an operator.
Changed(id) ==
    CASE Kind(id) = "clone" -> ClonePorts(id) \cap taken # {}
      [] Kind(id) = "mutation" -> ~verifySnapshotPorts
      [] Kind(id) \in {"template", "destroy"} ->
         \/ \E i \in NICs : LET p == <<Src, i>> IN
                ports[p].vm # Nil /\ ~sourcePortAttached(p, ops[id].pay.m[i]) /\ ~sourcePortRestored(p, ops[id].pay.m[i])
         \/ ~(VMPorts(Src) \subseteq SrcPorts)

ClaimedEnds ==
    \A vm \in {Src} \cup Targets :
        LET held == {id \in TwoPhase : Tx[id].vm = vm /\ Claimed(id)} IN
        held # {} ~> (held = {} \/ \E id \in held : Changed(id))
=============================================================================
