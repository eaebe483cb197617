--------------------------- MODULE ComputeSource ---------------------------
(***************************************************************************)
(* Converting a VM to a template and destroying it.  The prepare records   *)
(* the VM's ports in a manifest and detaches them; the commit deletes the  *)
(* detached ports, the abort (or the compensation of a failed prepare)     *)
(* attaches them again.  A manifest names three revisions of each port:    *)
(* as found, detached one above, restored two above.  A destroy also       *)
(* captures the VM's snapshots, or the template it was converted to.       *)
(*                                                                         *)
(* A clone or a destroy that needs the template finishes its commit under  *)
(* its own lock, so this commit may run twice at once.                     *)
(***************************************************************************)
EXTENDS ComputeSnapshot

Templates == {t \in Ids : Kind(t) = "template"}

Manifest(p) == [rev |-> ports[p].rev, st |-> ports[p].st, arev |-> allocs[p].rev]

SourceReady(p) == /\ ports[p].life = "live" /\ ports[p].vm = Src
                  /\ ports[p].st \in {"binding", "bound"}
                  /\ Holds(allocs[p]) /\ ~Tombstone(allocs[p])

sourcePortAttached(p, m) == ports[p].vm = Src /\ ports[p].rev = m.rev /\ ports[p].st = m.st

\* As if the revision alone told a detached port.
DetachedByRevision(p, m) == Present(ports[p]) /\ ports[p].rev > m.rev

sourcePortDetached(p, m) == portCanBeDeprovisioned(ports[p]) /\ ports[p].rev = m.rev + 1

sourcePortRestored(p, m) == ports[p].vm = Src /\ ports[p].rev = m.rev + 2 /\ ports[p].st = m.st

\* The address of the manifest, or when the port is being deleted what an
\* earlier attempt left of it.
validateSourceAllocations(p, m, deleting) ==
    \/ Holds(allocs[p]) /\ allocs[p].life = "live" /\ allocs[p].rev = m.arev
    \/ deleting /\ ~Present(allocs[p])
    \/ deleting /\ Holds(allocs[p]) /\ Tombstone(allocs[p]) /\ allocs[p].rev = m.arev + 1

\* The records of the VM's template that are still in force.
findTemplateRecord ==
    {t \in Templates : Exists(ops[t]) /\ ops[t].phase \notin {"aborted", "compensated", "destroyed"}}

Committed(t) == ops[t].status = "succeeded" /\ ops[t].phase = "committed"

SourcePort(l) == <<Src, h[l].i>>

Entry(l) == ops[h[l].op].pay.m[h[l].i]

ManifestOf(ready) == [i \in NICs |-> IF ready THEN Manifest(<<Src, i>>) ELSE Nil]

(***************************************************************************)
(* Prepare and capture.                                                    *)
(***************************************************************************)
computeTemplatePrepare(t) ==
    /\ Asked(t, "template") /\ ask[t] = "none" /\ pve.vm = "vm" /\ pve.snaps = {}
    /\ LET l == Tx[t].vm
           w == [Idle EXCEPT !.op = t, !.req = t, !.i = 1]
       IN \/ /\ Running(ops[t], "template") /\ ops[t].phase = "compensating"
             /\ h' = [h EXCEPT ![l] = [w EXCEPT !.pc = "restore", !.dir = "undo"]]
          \/ /\ Running(ops[t], "template") /\ ops[t].phase = "prepared"
             /\ h' = [h EXCEPT ![l] = [w EXCEPT !.pc = "detach"]]
          \/ /\ ~Exists(ops[t]) /\ findTemplateRecord = {}
             /\ VMPorts(Src) = SrcPorts /\ \A p \in SrcPorts : SourceReady(p)
             /\ h' = [h EXCEPT ![l] = [w EXCEPT !.pc = "new", !.saw = [m |-> ManifestOf(TRUE), snaps |-> {}, tmpl |-> Nil]]]
    /\ UNCHANGED <<rows, prov, ops, world, faults>>

computeDestroyCapture(d) ==
    /\ Asked(d, "destroy") /\ ask[d] = "none" /\ pve.vm \in {"vm", "template"}
    /\ LET l == Tx[d].vm
           w == [Idle EXCEPT !.op = d, !.req = d, !.i = 1]
           template == pve.vm = "template"
       IN \/ /\ Running(ops[d], "destroy") /\ ops[d].phase = "compensating"
             /\ h' = [h EXCEPT ![l] = [w EXCEPT !.pc = "restore", !.dir = "undo"]]
          \/ /\ Running(ops[d], "destroy") /\ ops[d].phase = "captured"
             /\ h' = [h EXCEPT ![l] = [w EXCEPT !.pc = IF template THEN "reply" ELSE "detach"]]
          \/ /\ ~Exists(ops[d])
             /\ IF template THEN VMPorts(Src) = {}
                ELSE VMPorts(Src) = SrcPorts /\ \A p \in SrcPorts : SourceReady(p)
             /\ h' = [h EXCEPT ![l] = [w EXCEPT !.pc = "capture",
                         !.saw = [m |-> ManifestOf(~template), snaps |-> pve.snaps, tmpl |-> Nil]]]
    /\ UNCHANGED <<rows, prov, ops, world, faults>>

\* A snapshot whose creation was interrupted is completed; then the VM's
\* manifests must be exactly the snapshots PVE has.
captureSnapshotRefs(l) ==
    /\ At(l, "capture")
    /\ LET w == h[l]
           open == {s \in w.saw.snaps : Running(ops[s], "snapshot") /\ ops[s].phase = "creating"}
       IN IF open # {} /\ verifySnapshotPorts
          THEN /\ ops' = [ops EXCEPT ![CHOOSE s \in open : TRUE] =
                              terminalizeClaimedComputeOperation(@, "created", "succeeded")]
               /\ UNCHANGED h
          ELSE /\ Try(l, w.saw.snaps = {s \in Snapshots : Created(s)},
                         [w EXCEPT !.pc = IF pve.vm = "template" THEN "findTemplate" ELSE "new"], Idle)
               /\ UNCHANGED ops
    /\ UNCHANGED <<rows, prov, world, faults>>

\* As if the operation did not have to take the VM's slot.
PrepareUnfenced(l) ==
    /\ At(l, "new")
    /\ LET w == h[l] IN
       /\ h' = [h EXCEPT ![l] = [w EXCEPT !.saw = Nil, !.pc = IF w.saw.tmpl = Nil THEN "detach" ELSE "reply"]]
       /\ ops' = [ops EXCEPT ![w.req] = createComputeOperation(Kind(w.req), Prepared(w.req), w.saw)]
    /\ UNCHANGED <<rows, prov, world, faults>>

prepareNew(l) ==
    /\ At(l, "new")
    /\ LET w == h[l]
           id == w.req
           open == VMSlotFree(Tx[id].vm)
       IN /\ Try(l, open, [w EXCEPT !.saw = Nil, !.pc = IF w.saw.tmpl = Nil THEN "detach" ELSE "reply"], Idle)
          /\ ops' = IF open THEN [ops EXCEPT ![id] = createComputeOperation(Kind(id), Prepared(id), w.saw)] ELSE ops
    /\ UNCHANGED <<rows, prov, world, faults>>

detachSourcePorts(l) ==
    /\ At(l, "detach") /\ h[l].i \in NICs
    /\ LET w == h[l]
           p == SourcePort(l)
           m == Entry(l)
           sound == validateSourceAllocations(p, m, FALSE)
           now == sourcePortAttached(p, m) /\ sound
       IN /\ Try(l, now \/ (sourcePortDetached(p, m) /\ sound), [w EXCEPT !.i = @ + 1], [w EXCEPT !.pc = "compensate"])
          /\ ports' = IF now THEN [ports EXCEPT ![p] = [Updated(@) EXCEPT !.vm = Nil, !.st = "unbound"]] ELSE ports
    /\ UNCHANGED <<allocs, tokens, prov, ops, world, faults>>

\* PVE has the transaction once the prepare answers.
prepareReply(l) ==
    /\ At(l, "reply") \/ (At(l, "detach") /\ h[l].i \notin NICs)
    /\ ask' = [ask EXCEPT ![h[l].op] = "ready"] /\ Done(l)
    /\ UNCHANGED <<rows, prov, ops, pve, taken, plan, faults>>

failSourcePrepare(l) ==
    /\ At(l, "compensate") /\ Kind(h[l].op) # "clone"
    /\ LET w == h[l]
           ok == Claimable(ops[w.op], Kind(w.op), {Prepared(w.op)}, "compensating")
       IN /\ Try(l, ok, [w EXCEPT !.pc = "restore", !.dir = "undo", !.i = 1, !.bad = 0], Idle)
          /\ ops' = IF ok THEN [ops EXCEPT ![w.op] = claimComputeOperation(@, "compensating")] ELSE ops
    /\ UNCHANGED <<rows, prov, world, faults>>

\* Each port is restored on its own: one that cannot be does not stop the
\* others.
restoreSourcePorts(l) ==
    /\ At(l, "restore") /\ h[l].i \in NICs
    /\ LET w == h[l]
           p == SourcePort(l)
           m == Entry(l)
           sound == validateSourceAllocations(p, m, FALSE)
           now == sourcePortDetached(p, m) /\ sound
       IN /\ Try(l, now \/ ((sourcePortAttached(p, m) \/ sourcePortRestored(p, m)) /\ sound),
                    [w EXCEPT !.i = @ + 1], [w EXCEPT !.i = @ + 1, !.bad = 1])
          /\ ports' = IF now THEN [ports EXCEPT ![p] = [Updated(@) EXCEPT !.vm = Src, !.st = m.st]] ELSE ports
    /\ UNCHANGED <<allocs, tokens, prov, ops, world, faults>>

\* As if a port that could not be restored were no obstacle.
RestoreEndLenient(l) ==
    /\ At(l, "restore") /\ h[l].i \notin NICs
    /\ Goto(l, "end")
    /\ UNCHANGED <<rows, prov, ops, world, faults>>

restoreEnd(l) ==
    /\ At(l, "restore") /\ h[l].i \notin NICs
    /\ Try(l, h[l].bad = 0, [h[l] EXCEPT !.pc = "end"], Idle)
    /\ UNCHANGED <<rows, prov, ops, world, faults>>

(***************************************************************************)
(* Commit and abort.                                                       *)
(***************************************************************************)
verifyDestroyAbortResources(pay) ==
    (\A s \in pay.snaps : Created(s)) /\ (pay.tmpl # Nil => Committed(pay.tmpl))

verifyCapturedSnapshotSet(pay) ==
    /\ \A s \in Snapshots : Created(s) => s \in pay.snaps
    /\ \A s \in pay.snaps : ops[s].phase \in {"created", "deleted"} /\ ops[s].status = "succeeded"

\* What is verified between the claim and the first write.
finishCheck(l) ==
    /\ At(l, "check") /\ Kind(h[l].op) \in {"template", "destroy"}
    /\ LET w == h[l]
           pay == ops[w.op].pay
           sound == IF w.dir = "abort"
                    THEN verifyDestroyAbortResources(pay) /\ (pay.tmpl = Nil => VMPorts(Src) \subseteq SrcPorts)
                    ELSE (Kind(w.op) = "destroy" => verifyCapturedSnapshotSet(pay)) /\ VMPorts(Src) = {}
           first == CASE pay.tmpl = Nil /\ w.dir = "abort" -> "restore"
                      [] pay.tmpl = Nil /\ w.dir = "commit" -> "delete"
                      [] pay.tmpl # Nil /\ w.dir = "abort" -> "end"
                      [] pay.tmpl # Nil /\ w.dir = "commit" -> "consume"
       IN Try(l, sound, [w EXCEPT !.pc = first, !.i = 1, !.bad = 0], Idle)
    /\ UNCHANGED <<rows, prov, ops, world, faults>>

\* A port is deleted only as the prepare left it, or as an earlier attempt
\* at deleting it did.
deleteDetachedSourcePorts(l) ==
    /\ At(l, "delete") /\ h[l].i \in NICs
    /\ LET w == h[l]
           p == SourcePort(l)
           m == Entry(l)
           tomb == Tombstone(ports[p]) /\ portCanBeDeprovisioned(ports[p]) /\ ports[p].rev = m.rev + 2
           sound == validateSourceAllocations(p, m, TRUE)
       IN h' = [h EXCEPT ![l] =
                  CASE ~Present(ports[p]) -> NextPort(w)
                    [] Present(ports[p]) /\ tomb /\ sound -> [w EXCEPT !.pc = "purge", !.port = p, !.rev = m.rev + 2]
                    [] Present(ports[p]) /\ ~tomb /\ sourcePortDetached(p, m) /\ sound ->
                         [w EXCEPT !.pc = "release", !.port = p, !.rev = m.rev + 1]
                    [] OTHER -> NotRemoved(w)]
    /\ UNCHANGED <<rows, prov, ops, world, faults>>

deleteEnd(l) ==
    /\ At(l, "delete") /\ h[l].i \notin NICs
    /\ Try(l, h[l].bad = 0, [h[l] EXCEPT !.pc = IF Kind(h[l].op) = "destroy" THEN "deleteSnaps" ELSE "end"], Idle)
    /\ UNCHANGED <<rows, prov, ops, world, faults>>

consumeTemplateBlueprint(l) ==
    /\ At(l, "consume")
    /\ LET t == ops[h[l].op].pay.tmpl
           ok == ops[t].status = "succeeded" /\ ops[t].phase \in {"committed", "destroyed"}
       IN /\ Try(l, ok, [h[l] EXCEPT !.pc = "deleteSnaps"], Idle)
          /\ ops' = IF ok THEN [ops EXCEPT ![t].phase = "destroyed"] ELSE ops
    /\ UNCHANGED <<rows, prov, world, faults>>

\* As if the commit forgot the captured snapshots.
SnapshotsForgotten(l) ==
    /\ At(l, "deleteSnaps") /\ Goto(l, "end")
    /\ UNCHANGED <<rows, prov, ops, world, faults>>

deleteCapturedSnapshots(l) ==
    /\ At(l, "deleteSnaps")
    /\ LET left == {s \in ops[h[l].op].pay.snaps : ops[s].phase # "deleted"}
           s == CHOOSE s \in left : TRUE
       IN IF left = {} THEN Goto(l, "end") /\ UNCHANGED ops
          ELSE /\ Try(l, Created(s), h[l], Idle)
               /\ ops' = IF Created(s) THEN [ops EXCEPT ![s].phase = "deleted"] ELSE ops
    /\ UNCHANGED <<rows, prov, world, faults>>

\* A clone goes on with the blueprint it recovered; a destroy looks again.
Recovered(w) == [Idle EXCEPT !.pc = IF Kind(w.req) = "clone" THEN "cloneNew" ELSE "findTemplate",
                             !.op = w.req, !.req = w.req, !.i = 1, !.saw = w.saw]

finishEnd(l) == At(l, "end") /\ terminalizeClaimed(l, IF h[l].op = h[l].req THEN Idle ELSE Recovered(h[l]))

\* The committed template of the VM; one whose commit was asked for and not
\* answered is committed here.
findCommittedTemplate(l) ==
    /\ At(l, "findTemplate")
    /\ LET w == h[l]
           t == CHOOSE u \in findTemplateRecord : TRUE
           recover == Claimable(ops[t], "template", {"prepared"}, "committing")
           ready == [w EXCEPT !.pc = IF Kind(w.req) = "clone" THEN "cloneNew" ELSE "new", !.saw.tmpl = t]
           commit == [w EXCEPT !.pc = "check", !.op = t, !.dir = "commit", !.key = <<"recover", t>>]
       IN IF Cardinality(findTemplateRecord) # 1 THEN Done(l) /\ UNCHANGED ops
          ELSE IF Committed(t) THEN h' = [h EXCEPT ![l] = ready] /\ UNCHANGED ops
          ELSE /\ Try(l, recover, commit, Idle)
               /\ ops' = IF recover THEN [ops EXCEPT ![t] = claimComputeOperation(@, "committing")] ELSE ops
    /\ UNCHANGED <<rows, prov, world, faults>>

SourceStep(l) ==
    \/ captureSnapshotRefs(l) \/ prepareNew(l) \/ detachSourcePorts(l) \/ prepareReply(l)
    \/ failSourcePrepare(l) \/ restoreSourcePorts(l) \/ restoreEnd(l)
    \/ finishCheck(l) \/ deleteDetachedSourcePorts(l) \/ deleteEnd(l)
    \/ consumeTemplateBlueprint(l) \/ deleteCapturedSnapshots(l)
    \/ finishEnd(l) \/ findCommittedTemplate(l)
=============================================================================
