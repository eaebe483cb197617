--------------------------- MODULE ComputeProofs ---------------------------
(***************************************************************************)
(* The rows of ports and addresses under the handlers of ComputeFlow: what *)
(* each step does to one port or one address, and from that Backed (a      *)
(* provisioned port holds its address until a delete begins) and           *)
(* TakenStays (no transaction touches a port that a user attached          *)
(* elsewhere).                                                             *)
(***************************************************************************)
EXTENDS ComputeFlowSteps

USE DEF Saw, SnapPlaces, NewPlaces, PreparePlaces, FinishPlaces, ClonePlaces, RemovePlaces, ProvisionPlaces, DropPlaces

\* The steps of a handler that change ports, and those that change allocations.
PortWriters(l) ==
    \/ createProvisionPort(l) \/ removePort(l) \/ purgePort(l)
    \/ detachSourcePorts(l) \/ restoreSourcePorts(l) \/ attachClonePort(l) \/ deletePreparingClonePort(l)

AllocWriters(l) ==
    \/ pickAddress(l) \/ giveBack(l) \/ giveBackPurge(l) \/ allocateProvisionAddress(l)
    \/ releasePortAllocations(l) \/ purgeAllocation(l)
    \/ deletePreparingCloneAllocation(l) \/ purgeCloneAllocation(l)

ProvWriters(l) == beginPortProvision(l) \/ completePortProvision(l) \/ failPortProvision(l)

\* The steps of a handler that read rows only, or change the rows of transactions.
LEMMA ReadSteps ==
  ASSUME NEW l, Step(l), ~PortWriters(l), ~AllocWriters(l)
  PROVE  UNCHANGED <<ports, allocs, tokens, taken, plan>> /\ (ProvWriters(l) \/ UNCHANGED prov)
  <1>1. ASSUME ProvisionStep(l) PROVE UNCHANGED <<ports, allocs, tokens, taken, plan>> /\ (ProvWriters(l) \/ UNCHANGED prov)
    BY <1>1, Zenon DEF ProvisionStep, PortWriters, AllocWriters, ProvWriters, rows, world,
       beginPortProvision, reserveProvisionAddress, rollbackProvisionReservation, completePortProvision, failPortProvision
  <1>2. ASSUME RemoveStep(l) PROVE FALSE
    BY <1>2, Zenon DEF RemoveStep, PortWriters, AllocWriters
  <1>3. ASSUME SnapshotStep(l) PROVE UNCHANGED <<ports, allocs, tokens, taken, plan, prov>>
    <2>1. snapshotNew(l) \/ snapshotOther(l) \/ snapshotVerify(l) \/ snapshotEnd(l)
                 \/ snapshotReply(l) \/ snapshotClean(l) => UNCHANGED <<ports, allocs, tokens, taken, plan, prov>>
      BY Zenon DEF rows, world, snapshotNew, snapshotOther, snapshotVerify, snapshotEnd, snapshotReply, snapshotClean
    <2>2. mutationNew(l) \/ mutationVerify(l) \/ mutationCheck(l) \/ deleteSnapshotManifestExact(l) \/ mutationEnd(l)
            => UNCHANGED <<ports, allocs, tokens, taken, plan, prov>>
      BY Zenon DEF rows, world, mutationNew, mutationVerify, mutationCheck, deleteSnapshotManifestExact, mutationEnd, terminalizeClaimed
    <2> QED BY <1>3, <2>1, <2>2, Zenon DEF SnapshotStep
  <1>4. ASSUME SourceStep(l) PROVE UNCHANGED <<ports, allocs, tokens, taken, plan, prov>>
    <2>1. captureSnapshotRefs(l) \/ prepareNew(l) \/ prepareReply(l) \/ failSourcePrepare(l) \/ restoreEnd(l)
                 => UNCHANGED <<ports, allocs, tokens, taken, plan, prov>>
      BY Zenon DEF rows, world, captureSnapshotRefs, prepareNew, prepareReply, failSourcePrepare, restoreEnd
    <2>2. finishCheck(l) \/ deleteDetachedSourcePorts(l) \/ deleteEnd(l) \/ consumeTemplateBlueprint(l)
            \/ deleteCapturedSnapshots(l) \/ finishEnd(l) \/ findCommittedTemplate(l)
            => UNCHANGED <<ports, allocs, tokens, taken, plan, prov>>
      BY Zenon DEF rows, world, finishCheck, deleteDetachedSourcePorts, deleteEnd, consumeTemplateBlueprint,
         deleteCapturedSnapshots, finishEnd, findCommittedTemplate, terminalizeClaimed
    <2> QED BY <1>4, <2>1, <2>2, Zenon DEF SourceStep, PortWriters
  <1>5. ASSUME CloneStep(l) PROVE UNCHANGED <<ports, allocs, tokens, taken, plan, prov>>
    BY <1>5, Zenon DEF CloneStep, PortWriters, AllocWriters, rows, world, cloneNew, verifyClonePorts, persistClonePrepared,
       failClonePrepare, cloneCheck, deleteOwnedComputePort, dropEnd
  <1> QED BY <1>1, <1>2, <1>3, <1>4, <1>5, Zenon DEF Step

\* A failing call, a request and PVE change no row of a port.
LEMMA OtherSteps ==
  /\ \A l : CallFails(l) => UNCHANGED <<ports, allocs, tokens, taken, plan, prov>>
  /\ \A id : Request(id) => UNCHANGED <<ports, allocs, tokens, taken, plan, prov>>
  /\ \A id : PVESnapshot(id) \/ PVEUndoSnapshot(id) \/ PVECommits(id) \/ PVEAborts(id) =>
       UNCHANGED <<ports, allocs, tokens, taken, plan, prov>>
  /\ Restart => UNCHANGED <<ports, allocs, tokens, taken, plan, prov>>
  <1>1. \A l : CallFails(l) => UNCHANGED <<ports, allocs, tokens, taken, plan, prov>>
    BY Zenon DEF CallFails, rows, world
  <1>2. \A id : PVESnapshot(id) \/ PVEUndoSnapshot(id) \/ PVECommits(id) \/ PVEAborts(id) =>
       UNCHANGED <<ports, allocs, tokens, taken, plan, prov>>
    BY Zenon DEF PVESnapshot, PVEUndoSnapshot, PVECommits, PVEAborts, rows
  <1>3. Restart => UNCHANGED <<ports, allocs, tokens, taken, plan, prov>>
    BY Zenon DEF Restart, rows, world
  <1>4. ASSUME NEW id, Request(id) PROVE UNCHANGED <<ports, allocs, tokens, taken, plan, prov>>
    BY <1>4, Zenon DEF Request, rows, world, computeSnapshotCreate, computeSnapshotCleanup, computeSnapshotPrepare, computeFinish,
       computeTemplatePrepare, computeDestroyCapture, computeClonePrepare
  <1> QED BY <1>1, <1>2, <1>3, <1>4, Zenon

\* Where a handler goes after a port of its loop.
LEMMA Turns ==
  ASSUME NEW w, HandlerShape(w)
  PROVE  /\ NextPort(w).pc \in {"drop", "delete"}
         /\ NotRemoved(w).pc \in {"drop", "delete", "idle"}
         /\ Removed(w).pc \in {"drop", "delete", "idle"}
         /\ w.rev \in {0, 1, 2} => AfterAddress(w).pc \in {"drop", "delete", "remove", "purge"}
         /\ \A i : ProvisionNIC(w, i).pc \in {"provision", "verify"}
  <1>1. NextPort(w).pc \in {"drop", "delete"} /\ DOMAIN NextPort(w) = Fields
    BY Zenon DEF HandlerShape, Fields, NextPort
  <1>2. [NextPort(w) EXCEPT !.bad = 1].pc = NextPort(w).pc
    BY <1>1, Zenon DEF Fields
  <1>3. NotRemoved(w).pc \in {"drop", "delete", "idle"} /\ Removed(w).pc \in {"drop", "delete", "idle"}
    BY <1>1, <1>2, IdleGood, Zenon DEF NotRemoved, Removed
  <1>4. w.rev \in {0, 1, 2} => AfterAddress(w).pc \in {"drop", "delete", "remove", "purge"}
    BY <1>1, Zenon DEF AfterAddress, HandlerShape, Fields
  <1>5. \A i : ProvisionNIC(w, i).pc \in {"provision", "verify"}
    BY Zenon DEF HandlerShape, Fields, ProvisionNIC
  <1> QED BY <1>1, <1>3, <1>4, <1>5, Zenon

\* Where each step of a handler starts and where it leads.
Leads(l, from, to) == h[l].pc \in from /\ h'[l].pc \in to

\* Where a handler goes when it is done with a port.
LEMMA ExitPlaces ==
  /\ Idle.pc = "idle"
  /\ \A w : HandlerShape(w) =>
       /\ NextPort(w).pc \in {"drop", "delete"} /\ Removed(w).pc \in {"drop", "delete", "idle"}
       /\ NotRemoved(w).pc \in {"drop", "delete", "idle"}
       /\ Provisioned(w).pc \in {"attach", "idle"} /\ NotProvisioned(w).pc \in {"compensate", "idle"}
  <1>1. Idle.pc = "idle" BY DEF Idle
  <1>2. ASSUME NEW w, HandlerShape(w)
        PROVE  NextPort(w).pc \in {"drop", "delete"} /\ [NextPort(w) EXCEPT !.bad = 1].pc \in {"drop", "delete"}
    BY <1>2, Zenon DEF NextPort, HandlerShape, Fields
  <1>3. ASSUME NEW w, HandlerShape(w)
        PROVE  Provisioned(w).pc \in {"attach", "idle"} /\ NotProvisioned(w).pc \in {"compensate", "idle"}
    BY <1>1, <1>3, Zenon DEF Provisioned, NotProvisioned, HandlerShape, Fields
  <1> QED BY <1>1, <1>2, <1>3, Zenon DEF Removed, NotRemoved

LEMMA Edges ==
  ASSUME FlowInv, NEW l \in Handlers
  PROVE  /\ beginPortProvision(l) => Leads(l, {"provision"}, {"attach", "reserve"})
         /\ reserveProvisionAddress(l) => Leads(l, {"reserve"}, {"create", "pick"})
         /\ pickAddress(l) => Leads(l, {"pick"}, {"create", "failProvision", "pick"})
         /\ createProvisionPort(l) => Leads(l, {"create"}, {"allocate", "rollback"})
         /\ rollbackProvisionReservation(l) => Leads(l, {"rollback"}, {"failProvision", "giveBack"})
         /\ giveBack(l) => Leads(l, {"giveBack"}, {"giveBackPurge", "failProvision"})
         /\ giveBackPurge(l) => Leads(l, {"giveBackPurge"}, {"failProvision"})
         /\ allocateProvisionAddress(l) => Leads(l, {"allocate"}, {"complete", "failProvision"})
         /\ completePortProvision(l) => Leads(l, {"complete"}, {"attach", "idle"})
         /\ failPortProvision(l) => Leads(l, {"failProvision"}, {"compensate", "idle"})
         /\ releasePortAllocations(l) => Leads(l, {"release"}, {"releasePurge", "remove", "drop", "delete", "idle"})
         /\ purgeAllocation(l) => Leads(l, {"releasePurge"}, {"remove", "drop", "delete", "idle"})
         /\ removePort(l) => Leads(l, {"remove"}, {"purge", "drop", "delete", "idle"})
         /\ purgePort(l) => Leads(l, {"purge"}, {"drop", "delete", "idle"})
         /\ snapshotNew(l) => Leads(l, {"snapNew"}, {"snapOther", "idle"})
         /\ snapshotOther(l) => Leads(l, {"snapOther"}, {"snapVerify", "idle"})
         /\ snapshotVerify(l) => Leads(l, {"snapVerify"}, {"snapEnd", "idle"})
         /\ snapshotEnd(l) => Leads(l, {"snapEnd"}, {"snapReply", "idle"})
         /\ snapshotReply(l) => Leads(l, {"snapReply"}, {"idle"})
         /\ snapshotClean(l) => Leads(l, {"snapClean"}, {"idle"})
         /\ mutationNew(l) => Leads(l, {"mutationNew"}, {"mutationVerify", "idle"})
         /\ mutationVerify(l) => Leads(l, {"mutationVerify"}, {"idle"})
         /\ mutationCheck(l) => Leads(l, {"check"}, {"mutationDelete", "mutationEnd", "idle"})
         /\ deleteSnapshotManifestExact(l) => Leads(l, {"mutationDelete"}, {"mutationEnd", "idle"})
         /\ mutationEnd(l) => Leads(l, {"mutationEnd"}, {"idle"})
         /\ captureSnapshotRefs(l) => Leads(l, {"capture"}, {"capture", "findTemplate", "new", "idle"})
         /\ prepareNew(l) => Leads(l, {"new"}, {"detach", "reply", "idle"})
         /\ detachSourcePorts(l) => Leads(l, {"detach"}, {"detach", "compensate"})
         /\ prepareReply(l) => Leads(l, {"reply", "detach"}, {"idle"})
         /\ failSourcePrepare(l) => Leads(l, {"compensate"}, {"restore", "idle"})
         /\ restoreSourcePorts(l) => Leads(l, {"restore"}, {"restore"})
         /\ restoreEnd(l) => Leads(l, {"restore"}, {"end", "idle"})
         /\ finishCheck(l) => Leads(l, {"check"}, {"restore", "delete", "end", "consume", "idle"})
         /\ deleteDetachedSourcePorts(l) => Leads(l, {"delete"}, {"drop", "delete", "purge", "release", "idle"})
         /\ deleteEnd(l) => Leads(l, {"delete"}, {"deleteSnaps", "end", "idle"})
         /\ consumeTemplateBlueprint(l) => Leads(l, {"consume"}, {"deleteSnaps", "idle"})
         /\ deleteCapturedSnapshots(l) => Leads(l, {"deleteSnaps"}, {"deleteSnaps", "end", "idle"})
         /\ finishEnd(l) => Leads(l, {"end"}, {"cloneNew", "findTemplate", "idle"})
         /\ findCommittedTemplate(l) => Leads(l, {"findTemplate"}, {"cloneNew", "new", "check", "idle"})
         /\ cloneNew(l) => Leads(l, {"cloneNew"}, {"provision", "verify", "idle"})
         /\ attachClonePort(l) => Leads(l, {"attach"}, {"provision", "verify", "compensate"})
         /\ verifyClonePorts(l) => Leads(l, {"verify"}, {"end", "reply", "persist", "compensate", "idle"})
         /\ persistClonePrepared(l) => Leads(l, {"persist"}, {"reply", "compensate"})
         /\ failClonePrepare(l) => Leads(l, {"compensate"}, {"drop", "idle"})
         /\ cloneCheck(l) => Leads(l, {"check"}, {"verify", "drop", "idle"})
         /\ deletePreparingClonePort(l) => Leads(l, {"drop"}, {"dropAlloc", "dropRelease", "drop", "delete", "idle"})
         /\ deleteOwnedComputePort(l) => Leads(l, {"dropRelease"}, {"purge", "release", "drop", "delete", "idle"})
         /\ deletePreparingCloneAllocation(l) => Leads(l, {"dropAlloc"}, {"drop", "delete", "remove", "purge", "dropAllocPurge", "idle"})
         /\ purgeCloneAllocation(l) => Leads(l, {"dropAllocPurge"}, {"drop", "delete", "remove", "purge", "idle"})
         /\ dropEnd(l) => Leads(l, {"drop"}, {"end", "idle"})
  <1> DEFINE w == h[l]
  <1>s. HandlerShape(w) /\ l \in DOMAIN h BY Zenon DEF FlowInv, Handling, Good
  <1>p. /\ w.pc = "check" => w.dir \in {"commit", "abort"}
        /\ w.pc \in {"dropAlloc", "dropAllocPurge"} => w.rev \in {0, 1, 2}
    <2>1. w.pc \in {"check", "dropAlloc", "dropAllocPurge"} => l \in VMs
      BY Kinds, Zenon DEF FlowInv, Handling, Good, CallerPlace
    <2> QED BY <2>1, Acting, Zenon DEF At, Place, Finishing, FinishAt
  <1>t. NotRemoved(w).pc \in {"drop", "delete", "idle"} /\ (w.rev \in {0, 1, 2} => AfterAddress(w).pc \in {"drop", "delete", "remove", "purge"})
    BY <1>s, Turns, Zenon
  <1>1. beginPortProvision(l) => Leads(l, {"provision"}, {"attach", "reserve"})
    BY <1>s, Zenon DEF Leads, beginPortProvision, At, HandlerShape, Fields, Goto
  <1>2. reserveProvisionAddress(l) => Leads(l, {"reserve"}, {"create", "pick"})
    BY <1>s, Zenon DEF Leads, reserveProvisionAddress, At, HandlerShape, Fields
  <1>3. pickAddress(l) => Leads(l, {"pick"}, {"create", "failProvision", "pick"})
    BY <1>s, Zenon DEF Leads, pickAddress, At, HandlerShape, Fields, ProvisionError
  <1>4. createProvisionPort(l) => Leads(l, {"create"}, {"allocate", "rollback"})
    BY <1>s, Zenon DEF Leads, createProvisionPort, At, HandlerShape, Fields, Try
  <1>5. rollbackProvisionReservation(l) => Leads(l, {"rollback"}, {"failProvision", "giveBack"})
    BY <1>s, Zenon DEF Leads, rollbackProvisionReservation, At, HandlerShape, Fields, Try, ProvisionError
  <1>6. giveBack(l) => Leads(l, {"giveBack"}, {"giveBackPurge", "failProvision"})
    BY <1>s, Zenon DEF Leads, giveBack, At, HandlerShape, Fields, Try, ProvisionError
  <1>7. giveBackPurge(l) => Leads(l, {"giveBackPurge"}, {"failProvision"})
    BY <1>s, Zenon DEF Leads, giveBackPurge, At, HandlerShape, Fields, ProvisionError
  <1>8. allocateProvisionAddress(l) => Leads(l, {"allocate"}, {"complete", "failProvision"})
    BY <1>s, Zenon DEF Leads, allocateProvisionAddress, At, HandlerShape, Fields, Try, ProvisionError
  <1>9. completePortProvision(l) => Leads(l, {"complete"}, {"attach", "idle"})
    BY <1>s, ExitPlaces, Zenon DEF Leads, completePortProvision, At, HandlerShape, Fields
  <1>10. failPortProvision(l) => Leads(l, {"failProvision"}, {"compensate", "idle"})
    BY <1>s, ExitPlaces, Zenon DEF Leads, failPortProvision, At, HandlerShape, Fields
  <1>11. releasePortAllocations(l) => Leads(l, {"release"}, {"releasePurge", "remove", "drop", "delete", "idle"})
    <2> SUFFICES ASSUME releasePortAllocations(l) PROVE Leads(l, {"release"}, {"releasePurge", "remove", "drop", "delete", "idle"}) BY Zenon
    <2>1. [w EXCEPT !.pc = "remove"].pc = "remove" BY <1>s, Zenon DEF HandlerShape, Fields
    <2>2. \E n : At(l, "release") /\ h'[l] \in {NotRemoved(w), [w EXCEPT !.pc = "remove"], [w EXCEPT !.pc = "releasePurge", !.arev = n]}
      BY <1>s, Zenon DEF releasePortAllocations, Try, Goto
    <2>3. PICK n : At(l, "release") /\ h'[l] \in {NotRemoved(w), [w EXCEPT !.pc = "remove"], [w EXCEPT !.pc = "releasePurge", !.arev = n]}
      BY <2>2, Zenon
    <2>4. [w EXCEPT !.pc = "releasePurge", !.arev = n].pc = "releasePurge" BY <1>s, Zenon DEF HandlerShape, Fields
    <2> QED BY <1>t, <2>1, <2>3, <2>4, Zenon DEF Leads, At
  <1>12. purgeAllocation(l) => Leads(l, {"releasePurge"}, {"remove", "drop", "delete", "idle"})
    <2>1. [w EXCEPT !.pc = "remove", !.arev = 0].pc = "remove" BY <1>s, Zenon DEF HandlerShape, Fields
    <2>2. purgeAllocation(l) => At(l, "releasePurge") /\ h'[l] \in {NotRemoved(w), [w EXCEPT !.pc = "remove", !.arev = 0]}
      BY <1>s, Zenon DEF purgeAllocation, Try
    <2> QED BY <1>t, <2>1, <2>2, Zenon DEF Leads, At
  <1>13. removePort(l) => Leads(l, {"remove"}, {"purge", "drop", "delete", "idle"})
    <2>1. [w EXCEPT !.pc = "purge", !.rev = @ + 1].pc = "purge" BY <1>s, Zenon DEF HandlerShape, Fields
    <2>2. removePort(l) => At(l, "remove") /\ h'[l] \in {NotRemoved(w), [w EXCEPT !.pc = "purge", !.rev = @ + 1]}
      BY <1>s, Zenon DEF removePort, Try
    <2> QED BY <1>t, <2>1, <2>2, Zenon DEF Leads, At
  <1>14. purgePort(l) => Leads(l, {"purge"}, {"drop", "delete", "idle"})
    BY <1>s, Turns, Zenon DEF Leads, purgePort, At, Try
  <1>15. snapshotNew(l) => Leads(l, {"snapNew"}, {"snapOther", "idle"})
    BY <1>s, ExitPlaces, Zenon DEF Leads, snapshotNew, At, HandlerShape, Fields, Goto, Done
  <1>16. snapshotOther(l) => Leads(l, {"snapOther"}, {"snapVerify", "idle"})
    BY <1>s, ExitPlaces, Zenon DEF Leads, snapshotOther, At, HandlerShape, Fields, Try
  <1>17. snapshotVerify(l) => Leads(l, {"snapVerify"}, {"snapEnd", "idle"})
    BY <1>s, ExitPlaces, Zenon DEF Leads, snapshotVerify, At, HandlerShape, Fields, Try
  <1>18. snapshotEnd(l) => Leads(l, {"snapEnd"}, {"snapReply", "idle"})
    BY <1>s, ExitPlaces, Zenon DEF Leads, snapshotEnd, At, HandlerShape, Fields, Try
  <1>19. snapshotReply(l) => Leads(l, {"snapReply"}, {"idle"})
    BY <1>s, ExitPlaces, Zenon DEF Leads, snapshotReply, At, HandlerShape, Fields, Done
  <1>20. snapshotClean(l) => Leads(l, {"snapClean"}, {"idle"})
    BY <1>s, ExitPlaces, Zenon DEF Leads, snapshotClean, At, HandlerShape, Fields, Done
  <1>21. mutationNew(l) => Leads(l, {"mutationNew"}, {"mutationVerify", "idle"})
    BY <1>s, ExitPlaces, Zenon DEF Leads, mutationNew, At, HandlerShape, Fields, Try
  <1>22. mutationVerify(l) => Leads(l, {"mutationVerify"}, {"idle"})
    BY <1>s, ExitPlaces, Zenon DEF Leads, mutationVerify, At, HandlerShape, Fields, Done
  <1>23. mutationCheck(l) => Leads(l, {"check"}, {"mutationDelete", "mutationEnd", "idle"})
    BY <1>s, ExitPlaces, Zenon DEF Leads, mutationCheck, At, HandlerShape, Fields, Try
  <1>24. deleteSnapshotManifestExact(l) => Leads(l, {"mutationDelete"}, {"mutationEnd", "idle"})
    BY <1>s, ExitPlaces, Zenon DEF Leads, deleteSnapshotManifestExact, At, HandlerShape, Fields, Try
  <1>25. mutationEnd(l) => Leads(l, {"mutationEnd"}, {"idle"})
    BY <1>s, ExitPlaces, Zenon DEF Leads, mutationEnd, At, HandlerShape, Fields, terminalizeClaimed, Try
  <1>26. captureSnapshotRefs(l) => Leads(l, {"capture"}, {"capture", "findTemplate", "new", "idle"})
    BY <1>s, ExitPlaces, Zenon DEF Leads, captureSnapshotRefs, At, HandlerShape, Fields, Try
  <1>27. prepareNew(l) => Leads(l, {"new"}, {"detach", "reply", "idle"})
    <2> DEFINE x == [w EXCEPT !.saw = Nil, !.pc = IF w.saw.tmpl = Nil THEN "detach" ELSE "reply"]
    <2>1. x.pc \in {"detach", "reply"} BY <1>s, Zenon DEF HandlerShape, Fields
    <2>2. prepareNew(l) => At(l, "new") /\ h'[l] \in {x, Idle} BY <1>s, Zenon DEF prepareNew, Try
    <2> QED BY <2>1, <2>2, IdleGood, Zenon DEF Leads, At
  <1>28. detachSourcePorts(l) => Leads(l, {"detach"}, {"detach", "compensate"})
    BY <1>s, Zenon DEF Leads, detachSourcePorts, At, HandlerShape, Fields, Try
  <1>29. prepareReply(l) => Leads(l, {"reply", "detach"}, {"idle"})
    BY <1>s, ExitPlaces, Zenon DEF Leads, prepareReply, At, HandlerShape, Fields, Done
  <1>30. failSourcePrepare(l) => Leads(l, {"compensate"}, {"restore", "idle"})
    <2> DEFINE x == [w EXCEPT !.pc = "restore", !.dir = "undo", !.i = 1, !.bad = 0]
    <2>1. x.pc = "restore" BY <1>s, Zenon DEF HandlerShape, Fields
    <2>2. failSourcePrepare(l) => At(l, "compensate") /\ h'[l] \in {x, Idle} BY <1>s, Zenon DEF failSourcePrepare, Try
    <2> QED BY <2>1, <2>2, IdleGood, Zenon DEF Leads, At
  <1>31. restoreSourcePorts(l) => Leads(l, {"restore"}, {"restore"})
    BY <1>s, Zenon DEF Leads, restoreSourcePorts, At, HandlerShape, Fields, Try
  <1>32. restoreEnd(l) => Leads(l, {"restore"}, {"end", "idle"})
    BY <1>s, ExitPlaces, Zenon DEF Leads, restoreEnd, At, HandlerShape, Fields, Try
  <1>33. finishCheck(l) => Leads(l, {"check"}, {"restore", "delete", "end", "consume", "idle"})
    <2> SUFFICES ASSUME finishCheck(l) PROVE Leads(l, {"check"}, {"restore", "delete", "end", "consume", "idle"}) BY Zenon
    <2>0. w.pc = "check" /\ w.dir \in {"commit", "abort"}
      BY <1>p, Zenon DEF finishCheck, At
    <2>1. \/ h'[l] = Idle
          \/ \E pc \in {"restore", "delete", "end", "consume"} : h'[l] = [w EXCEPT !.pc = pc, !.i = 1, !.bad = 0]
      BY <1>s, <2>0, Zenon DEF finishCheck, Try
    <2> QED BY <1>s, <2>0, <2>1, IdleGood, Zenon DEF Leads, HandlerShape, Fields
  <1>34. deleteDetachedSourcePorts(l) => Leads(l, {"delete"}, {"drop", "delete", "purge", "release", "idle"})
    <2> HAVE deleteDetachedSourcePorts(l)
    <2> DEFINE m == Entry(l)
    <2>1. \/ h'[l] \in {NextPort(w), NotRemoved(w)}
          \/ h'[l] = [w EXCEPT !.pc = "purge", !.port = SourcePort(l), !.rev = m.rev + 2]
          \/ h'[l] = [w EXCEPT !.pc = "release", !.port = SourcePort(l), !.rev = m.rev + 1]
      BY <1>s, Zenon DEF deleteDetachedSourcePorts
    <2>2. w.pc = "delete" BY Zenon DEF deleteDetachedSourcePorts, At
    <2> HIDE DEF m
    <2>3. h'[l].pc \in {"drop", "delete", "purge", "release", "idle"}
      <3>1. CASE h'[l] \in {NextPort(w), NotRemoved(w)} BY <1>s, <3>1, ExitPlaces, Zenon
      <3>2. CASE h'[l] = [w EXCEPT !.pc = "purge", !.port = SourcePort(l), !.rev = m.rev + 2]
        BY <1>s, <3>2, Zenon DEF HandlerShape, Fields
      <3>3. CASE h'[l] = [w EXCEPT !.pc = "release", !.port = SourcePort(l), !.rev = m.rev + 1]
        BY <1>s, <3>3, Zenon DEF HandlerShape, Fields
      <3> QED BY <2>1, <3>1, <3>2, <3>3, Zenon
    <2> QED BY <2>2, <2>3, Zenon DEF Leads
  <1>35. deleteEnd(l) => Leads(l, {"delete"}, {"deleteSnaps", "end", "idle"})
    BY <1>s, ExitPlaces, Zenon DEF Leads, deleteEnd, At, HandlerShape, Fields, Try
  <1>36. consumeTemplateBlueprint(l) => Leads(l, {"consume"}, {"deleteSnaps", "idle"})
    BY <1>s, ExitPlaces, Zenon DEF Leads, consumeTemplateBlueprint, At, HandlerShape, Fields, Try
  <1>37. deleteCapturedSnapshots(l) => Leads(l, {"deleteSnaps"}, {"deleteSnaps", "end", "idle"})
    BY <1>s, ExitPlaces, Zenon DEF Leads, deleteCapturedSnapshots, At, HandlerShape, Fields, Try, Goto
  <1>38. finishEnd(l) => Leads(l, {"end"}, {"cloneNew", "findTemplate", "idle"})
    <2>1. Recovered(w).pc \in {"cloneNew", "findTemplate"} BY Zenon DEF Recovered, Idle
    <2>2. finishEnd(l) => At(l, "end") /\ h'[l] \in {Recovered(w), Idle} BY <1>s, Zenon DEF finishEnd, terminalizeClaimed, Try
    <2> QED BY <2>1, <2>2, IdleGood, Zenon DEF Leads, At
  <1>39. findCommittedTemplate(l) => Leads(l, {"findTemplate"}, {"cloneNew", "new", "check", "idle"})
    <2> DEFINE t == CHOOSE u \in findTemplateRecord : TRUE
               x == [w EXCEPT !.pc = IF Kind(w.req) = "clone" THEN "cloneNew" ELSE "new", !.saw.tmpl = t]
               y == [w EXCEPT !.pc = "check", !.op = t, !.dir = "commit", !.key = <<"recover", t>>]
    <2>1. x.pc \in {"cloneNew", "new"} /\ y.pc = "check" BY <1>s, Zenon DEF HandlerShape, Fields
    <2>2. findCommittedTemplate(l) => At(l, "findTemplate") /\ h'[l] \in {x, y, Idle} BY <1>s, Zenon DEF findCommittedTemplate, Try, Done
    <2> QED BY <2>1, <2>2, IdleGood, Zenon DEF Leads, At
  <1>40. cloneNew(l) => Leads(l, {"cloneNew"}, {"provision", "verify", "idle"})
    <2> DEFINE v == [w EXCEPT !.saw = Nil]
    <2>1. HandlerShape(v) BY <1>s, Zenon DEF HandlerShape, Fields
    <2>2. cloneNew(l) => At(l, "cloneNew") /\ h'[l] \in {ProvisionNIC(v, 1), Idle} BY <1>s, Zenon DEF cloneNew, Try
    <2> HIDE DEF v
    <2> QED BY <2>1, <2>2, Turns, IdleGood DEF Leads, At
  <1>41. attachClonePort(l) => Leads(l, {"attach"}, {"provision", "verify", "compensate"})
    BY <1>s, Zenon DEF Leads, attachClonePort, At, HandlerShape, Fields, Try, ProvisionNIC
  <1>42. verifyClonePorts(l) => Leads(l, {"verify"}, {"end", "reply", "persist", "compensate", "idle"})
    <2> DEFINE x == [w EXCEPT !.pc = IF ops[w.op].phase = "prepared" THEN "reply" ELSE "persist"]
    <2>1. x.pc \in {"reply", "persist"} /\ [w EXCEPT !.pc = "end"].pc = "end" /\ [w EXCEPT !.pc = "compensate"].pc = "compensate"
      BY <1>s, Zenon DEF HandlerShape, Fields
    <2>2. verifyClonePorts(l) => At(l, "verify") /\ h'[l] \in {x, [w EXCEPT !.pc = "end"], [w EXCEPT !.pc = "compensate"], Idle}
      BY <1>s, Zenon DEF verifyClonePorts, Try
    <2> QED BY <2>1, <2>2, IdleGood, Zenon DEF Leads, At
  <1>43. persistClonePrepared(l) => Leads(l, {"persist"}, {"reply", "compensate"})
    BY <1>s, Zenon DEF Leads, persistClonePrepared, At, HandlerShape, Fields, Try
  <1>44. failClonePrepare(l) => Leads(l, {"compensate"}, {"drop", "idle"})
    <2> DEFINE x == [w EXCEPT !.pc = "drop", !.dir = "undo", !.i = 1, !.bad = 0, !.port = Nil]
    <2>1. x.pc = "drop" BY <1>s, Zenon DEF HandlerShape, Fields
    <2>2. failClonePrepare(l) => At(l, "compensate") /\ h'[l] \in {x, Idle} BY <1>s, Zenon DEF failClonePrepare, Try
    <2> QED BY <2>1, <2>2, IdleGood, Zenon DEF Leads, At
  <1>45. cloneCheck(l) => Leads(l, {"check"}, {"verify", "drop", "idle"})
    <2> DEFINE x == [w EXCEPT !.pc = "drop", !.i = 1]
    <2>1. x.pc = "drop" /\ [w EXCEPT !.pc = "verify"].pc = "verify" BY <1>s, Zenon DEF HandlerShape, Fields
    <2>2. cloneCheck(l) => At(l, "check") /\ h'[l] \in {x, [w EXCEPT !.pc = "verify"], Idle} BY <1>s, Zenon DEF cloneCheck, Try, Goto
    <2> QED BY <2>1, <2>2, IdleGood, Zenon DEF Leads, At
  <1>46. deletePreparingClonePort(l) => Leads(l, {"drop"}, {"dropAlloc", "dropRelease", "drop", "delete", "idle"})
    <2> HAVE deletePreparingClonePort(l)
    <2> DEFINE v == [w EXCEPT !.port = ClonePort(l), !.key = <<"drop", w.op>>]
    <2>1. HandlerShape(v) BY <1>s, Zenon DEF HandlerShape, Fields
    <2> DEFINE rev == ports[ClonePort(l)].rev
    <2>2. h'[l] \in {NotRemoved(v), [v EXCEPT !.pc = "dropAlloc", !.rev = 0], [v EXCEPT !.pc = "dropAlloc", !.rev = rev],
                     [v EXCEPT !.pc = "dropRelease", !.rev = 3], [v EXCEPT !.pc = "dropRelease", !.rev = 4]}
      BY <1>s, Zenon DEF deletePreparingClonePort
    <2>3. w.pc = "drop" BY Zenon DEF deletePreparingClonePort, At
    <2> HIDE DEF v
    <2>4. h'[l].pc \in {"dropAlloc", "dropRelease", "drop", "delete", "idle"}
      <3>1. /\ [v EXCEPT !.pc = "dropAlloc", !.rev = 0].pc = "dropAlloc"
            /\ [v EXCEPT !.pc = "dropAlloc", !.rev = rev].pc = "dropAlloc"
            /\ [v EXCEPT !.pc = "dropRelease", !.rev = 3].pc = "dropRelease"
            /\ [v EXCEPT !.pc = "dropRelease", !.rev = 4].pc = "dropRelease"
        BY <2>1, Zenon DEF HandlerShape, Fields
      <3>2. NotRemoved(v).pc \in {"drop", "delete", "idle"} BY <2>1, ExitPlaces, Zenon
      <3> HIDE DEF rev
      <3> QED BY <2>2, <3>1, <3>2, Zenon
    <2> QED BY <2>3, <2>4, Zenon DEF Leads
  <1>47. deleteOwnedComputePort(l) => Leads(l, {"dropRelease"}, {"purge", "release", "drop", "delete", "idle"})
    BY <1>s, Turns DEF Leads, deleteOwnedComputePort, At, HandlerShape, Fields, Try
  <1>48. deletePreparingCloneAllocation(l) => Leads(l, {"dropAlloc"}, {"drop", "delete", "remove", "purge", "dropAllocPurge", "idle"})
    <2> SUFFICES ASSUME deletePreparingCloneAllocation(l)
                 PROVE  Leads(l, {"dropAlloc"}, {"drop", "delete", "remove", "purge", "dropAllocPurge", "idle"}) BY Zenon
    <2>0. w.pc = "dropAlloc" /\ w.rev \in {0, 1, 2} BY <1>p, Zenon DEF deletePreparingCloneAllocation, At
    <2>1. h'[l] \in {AfterAddress(w), NotRemoved(w)} \/ \E n : h'[l] = [w EXCEPT !.pc = "dropAllocPurge", !.arev = n]
      BY <1>s, Zenon DEF deletePreparingCloneAllocation
    <2>2. \A n : [w EXCEPT !.pc = "dropAllocPurge", !.arev = n].pc = "dropAllocPurge" BY <1>s, Zenon DEF HandlerShape, Fields
    <2> QED BY <1>t, <2>0, <2>1, <2>2, Zenon DEF Leads
  <1>49. purgeCloneAllocation(l) => Leads(l, {"dropAllocPurge"}, {"drop", "delete", "remove", "purge", "idle"})
    <2> SUFFICES ASSUME purgeCloneAllocation(l) PROVE Leads(l, {"dropAllocPurge"}, {"drop", "delete", "remove", "purge", "idle"}) BY Zenon
    <2>0. w.pc = "dropAllocPurge" /\ w.rev \in {0, 1, 2} BY <1>p, Zenon DEF purgeCloneAllocation, At
    <2>1. h'[l] \in {AfterAddress(w), NotRemoved(w)} BY <1>s, Zenon DEF purgeCloneAllocation, Try
    <2> QED BY <1>s, <2>0, <2>1, Turns DEF Leads
  <1>50. dropEnd(l) => Leads(l, {"drop"}, {"end", "idle"})
    BY <1>s, ExitPlaces, Zenon DEF Leads, dropEnd, At, HandlerShape, Fields, Try
  <1> QED BY <1>1, <1>2, <1>3, <1>4, <1>5, <1>6, <1>7, <1>8, <1>9, <1>10, <1>11, <1>12, <1>13, <1>14, <1>15, <1>16, <1>17, <1>18, <1>19, <1>20, <1>21, <1>22, <1>23, <1>24, <1>25, <1>26, <1>27, <1>28, <1>29, <1>30, <1>31, <1>32, <1>33, <1>34, <1>35, <1>36, <1>37, <1>38, <1>39, <1>40, <1>41, <1>42, <1>43, <1>44, <1>45, <1>46, <1>47, <1>48, <1>49, <1>50, Zenon

\* A step of a handler moves no other.
LEMMA OneMoves == ASSUME FlowInv, NEW l \in Handlers, Step(l) PROVE Moves(l)
  <1>s. DOMAIN h = Handlers BY Zenon DEF FlowInv, Handling
  <1>1. ProvisionStep(l) => Moves(l)
    <2>1. beginPortProvision(l) \/ reserveProvisionAddress(l) \/ pickAddress(l) \/ createProvisionPort(l) => Moves(l)
      BY <1>s, Zenon DEF Moves, Try, Goto, Done, terminalizeClaimed, beginPortProvision, reserveProvisionAddress, pickAddress, createProvisionPort
    <2>2. rollbackProvisionReservation(l) \/ giveBack(l) \/ giveBackPurge(l) \/ allocateProvisionAddress(l) => Moves(l)
      BY <1>s, Zenon DEF Moves, Try, Goto, Done, terminalizeClaimed, rollbackProvisionReservation, giveBack, giveBackPurge, allocateProvisionAddress
    <2>3. completePortProvision(l) \/ failPortProvision(l) => Moves(l)
      BY <1>s, Zenon DEF Moves, Try, Goto, Done, terminalizeClaimed, completePortProvision, failPortProvision
    <2> QED BY <2>1, <2>2, <2>3, Zenon DEF ProvisionStep
  <1>2. RemoveStep(l) => Moves(l)
    <2>1. releasePortAllocations(l) \/ purgeAllocation(l) \/ removePort(l) \/ purgePort(l) => Moves(l)
      BY <1>s, Zenon DEF Moves, Try, Goto, Done, terminalizeClaimed, releasePortAllocations, purgeAllocation, removePort, purgePort
    <2> QED BY <2>1, Zenon DEF RemoveStep
  <1>3. SnapshotStep(l) => Moves(l)
    <2>1. snapshotNew(l) \/ snapshotOther(l) \/ snapshotVerify(l) \/ snapshotEnd(l) => Moves(l)
      BY <1>s, Zenon DEF Moves, Try, Goto, Done, terminalizeClaimed, snapshotNew, snapshotOther, snapshotVerify, snapshotEnd
    <2>2. snapshotReply(l) \/ snapshotClean(l) \/ mutationNew(l) \/ mutationVerify(l) => Moves(l)
      BY <1>s, Zenon DEF Moves, Try, Goto, Done, terminalizeClaimed, snapshotReply, snapshotClean, mutationNew, mutationVerify
    <2>3. mutationCheck(l) \/ deleteSnapshotManifestExact(l) \/ mutationEnd(l) => Moves(l)
      BY <1>s, Zenon DEF Moves, Try, Goto, Done, terminalizeClaimed, mutationCheck, deleteSnapshotManifestExact, mutationEnd
    <2> QED BY <2>1, <2>2, <2>3, Zenon DEF SnapshotStep
  <1>4. SourceStep(l) => Moves(l)
    <2>1. captureSnapshotRefs(l) \/ prepareNew(l) \/ detachSourcePorts(l) \/ prepareReply(l) => Moves(l)
      BY <1>s, Zenon DEF Moves, Try, Goto, Done, terminalizeClaimed, captureSnapshotRefs, prepareNew, detachSourcePorts, prepareReply
    <2>2. failSourcePrepare(l) \/ restoreSourcePorts(l) \/ restoreEnd(l) \/ finishCheck(l) => Moves(l)
      BY <1>s, Zenon DEF Moves, Try, Goto, Done, terminalizeClaimed, failSourcePrepare, restoreSourcePorts, restoreEnd, finishCheck
    <2>3. deleteDetachedSourcePorts(l) \/ deleteEnd(l) \/ consumeTemplateBlueprint(l) \/ deleteCapturedSnapshots(l) => Moves(l)
      BY <1>s, Zenon DEF Moves, Try, Goto, Done, terminalizeClaimed, deleteDetachedSourcePorts, deleteEnd, consumeTemplateBlueprint, deleteCapturedSnapshots
    <2>4. finishEnd(l) \/ findCommittedTemplate(l) => Moves(l)
      BY <1>s, Zenon DEF Moves, Try, Goto, Done, terminalizeClaimed, finishEnd, findCommittedTemplate
    <2> QED BY <2>1, <2>2, <2>3, <2>4, Zenon DEF SourceStep
  <1>5. CloneStep(l) => Moves(l)
    <2>1. cloneNew(l) \/ attachClonePort(l) \/ verifyClonePorts(l) \/ persistClonePrepared(l) => Moves(l)
      BY <1>s, Zenon DEF Moves, Try, Goto, Done, terminalizeClaimed, cloneNew, attachClonePort, verifyClonePorts, persistClonePrepared
    <2>2. failClonePrepare(l) \/ cloneCheck(l) \/ deletePreparingClonePort(l) \/ deleteOwnedComputePort(l) => Moves(l)
      BY <1>s, Zenon DEF Moves, Try, Goto, Done, terminalizeClaimed, failClonePrepare, cloneCheck, deletePreparingClonePort, deleteOwnedComputePort
    <2>3. deletePreparingCloneAllocation(l) \/ purgeCloneAllocation(l) \/ dropEnd(l) => Moves(l)
      BY <1>s, Zenon DEF Moves, Try, Goto, Done, terminalizeClaimed, deletePreparingCloneAllocation, purgeCloneAllocation, dropEnd
    <2> QED BY <2>1, <2>2, <2>3, Zenon DEF CloneStep
  <1> QED BY <1>1, <1>2, <1>3, <1>4, <1>5, Zenon DEF Step

\* Whoever moves takes a step of its own, fails, or was called.
LEMMA Movers ==
  ASSUME FlowInv, Next, NEW k \in Handlers, h'[k] # h[k], h'[k].pc # "idle"
  PROVE  \/ Step(k) \/ CallFails(k)
         \/ k \in Callers /\ APICall(k)
         \/ \E id \in Ids : Request(id) /\ Tx[id].vm = k
  <1>s. DOMAIN h = Handlers BY Zenon DEF FlowInv, Handling
  <1>1. ASSUME NEW l \in Handlers, Step(l) PROVE l = k BY <1>1, OneMoves, Zenon DEF Moves
  <1>2. ASSUME NEW l \in Handlers, CallFails(l) PROVE l = k BY <1>s, <1>2, Zenon DEF CallFails
  <1>3. ASSUME NEW l \in Callers, APICall(l) PROVE l = k BY <1>s, <1>3, Zenon DEF APICall, provisionPort, deprovisionPort
  <1>4. ASSUME NEW id \in Ids, Request(id) PROVE Tx[id].vm = k
    BY <1>s, <1>4, Zenon DEF Request, Start, computeSnapshotCreate, computeSnapshotCleanup, computeSnapshotPrepare, computeFinish,
       computeTemplatePrepare, computeDestroyCapture, computeClonePrepare
  <1>5. ASSUME NEW id \in Ids, PVESnapshot(id) \/ PVEUndoSnapshot(id) \/ PVECommits(id) \/ PVEAborts(id) PROVE FALSE
    BY <1>5, Zenon DEF PVESnapshot, PVEUndoSnapshot, PVECommits, PVEAborts
  <1>6. ASSUME NEW p \in Ports, ReportBound(p) \/ takePort(p) \/ Sweep(p) PROVE FALSE
    BY <1>6, Zenon DEF ReportBound, takePort, Sweep
  <1>7. ~Restart BY IdleGood, Zenon DEF Restart
  <1> QED BY <1>1, <1>2, <1>3, <1>4, <1>5, <1>6, <1>7, Zenon DEF Next

-----------------------------------------------------------------------------
\* The fields of a port, of an address, and their lives.
PortFields == {"life", "vm", "st", "rev", "addr"}

AllocFields == {"life", "use", "rev", "addr"}

Lives == {"absent", "live", "deleting"}

\* A port, and an address; an absent one has the fields of NoPort and NoAlloc.
PortShape(r) == DOMAIN r = PortFields /\ r.life \in Lives /\ r.rev \in Nat /\ (r.life = "absent" => r = NoPort)

AllocShape(a) == DOMAIN a = AllocFields /\ a.life \in Lives /\ a.rev \in Nat /\ a.use \in {"reserved", "allocated"} /\ (a.life = "absent" => a = NoAlloc)

Shapes ==
    /\ DOMAIN ports = Ports /\ \A p \in Ports : PortShape(ports[p])
    /\ DOMAIN allocs = Ports /\ \A p \in Ports : AllocShape(allocs[p])
    /\ DOMAIN prov = Ports

\* The updates of rows keep their shape.
LEMMA UpdateShapes ==
  /\ PortShape(NoPort) /\ AllocShape(NoAlloc)
  /\ \A a : PortShape([NoPort EXCEPT !.life = "live", !.rev = 1, !.addr = a])
  /\ \A a : AllocShape([life |-> "live", use |-> "reserved", rev |-> 1, addr |-> a])
  /\ \A r, vm, st : PortShape(r) => PortShape(Deleted(r)) /\ PortShape([Updated(r) EXCEPT !.vm = vm, !.st = st])
                                    /\ PortShape([Updated(r) EXCEPT !.st = st])
  /\ \A a : AllocShape(a) => AllocShape(Deleted(a)) /\ AllocShape([Updated(a) EXCEPT !.use = "allocated"])
  <1>1. PortShape(NoPort) /\ AllocShape(NoAlloc)
    BY Zenon DEF PortShape, AllocShape, NoPort, NoAlloc, PortFields, AllocFields, Lives
  <1>2. ASSUME NEW a PROVE /\ PortShape([NoPort EXCEPT !.life = "live", !.rev = 1, !.addr = a])
                           /\ AllocShape([life |-> "live", use |-> "reserved", rev |-> 1, addr |-> a])
    BY Zenon DEF PortShape, AllocShape, NoPort, PortFields, AllocFields, Lives
  <1>3. ASSUME NEW r, NEW vm, NEW st, PortShape(r)
        PROVE  PortShape(Deleted(r)) /\ PortShape([Updated(r) EXCEPT !.vm = vm, !.st = st]) /\ PortShape([Updated(r) EXCEPT !.st = st])
    <2>1. PortShape(Deleted(r)) BY <1>3 DEF PortShape, Deleted, PortFields, Lives
    <2>2. PortShape([Updated(r) EXCEPT !.vm = vm, !.st = st]) BY <1>3 DEF PortShape, Updated, PortFields, Lives
    <2>3. PortShape([Updated(r) EXCEPT !.st = st]) BY <1>3 DEF PortShape, Updated, PortFields, Lives
    <2> QED BY <2>1, <2>2, <2>3, Zenon
  <1>4. ASSUME NEW a, AllocShape(a) PROVE AllocShape(Deleted(a)) /\ AllocShape([Updated(a) EXCEPT !.use = "allocated"])
    <2>1. AllocShape(Deleted(a)) BY <1>4 DEF AllocShape, Deleted, AllocFields, Lives
    <2>2. AllocShape([Updated(a) EXCEPT !.use = "allocated"]) BY <1>4 DEF AllocShape, Updated, AllocFields, Lives
    <2> QED BY <2>1, <2>2, Zenon
  <1> QED BY <1>1, <1>2, <1>3, <1>4, Zenon

\* A delete has begun on the port or its address.
Tokened(p) == \E t \in tokens : t.port = p

\* An allocated address names a port that is there.
RefInv == \A p \in Ports : Holds(allocs[p]) => Present(ports[p])

\* The port that a handler is at.
LEMMA PortAt ==
  ASSUME FlowInv, NEW l \in Handlers
  PROVE  /\ h[l].pc \in ClonePlaces \cup RemovePlaces \cup {"dropRelease", "dropAlloc", "dropAllocPurge"} => h[l].port \in Ports
         /\ h[l].pc \in {"detach", "restore", "delete", "drop", "attach", "dropRelease", "dropAlloc", "dropAllocPurge", "provision"} =>
              l \in VMs /\ h[l].op \in Ids
         /\ h[l].pc \in {"detach", "restore", "delete"} /\ h[l].i \in NICs => SourcePort(l) \in SrcPorts /\ SourcePort(l) \in Ports
         /\ h[l].pc = "drop" /\ h[l].i \in CloneNICs(h[l].op) => ClonePort(l) \in ClonePorts(h[l].op) /\ ClonePort(l) \in Ports
  <1>1. ASSUME l \in Callers, h[l].pc # "idle" PROVE CallerPlace(h[l])
    BY <1>1, Zenon DEF FlowInv, Handling, Good
  <1>2. CASE l \in Callers BY <1>1, <1>2, CallerAssumption, Zenon DEF CallerPlace
  <1>3. CASE l \in VMs /\ h[l].pc # "idle"
    <2>1. Place(l, h[l], ops[h[l].op], ask[h[l].op], ops[h[l].req]) /\ h[l].op \in Ids BY <1>3, Acting, Zenon DEF At
    <2>2. h[l].pc \in ClonePlaces => h[l].op \in Clones /\ h[l].port \in ClonePorts(h[l].op)
      BY <2>1, Zenon DEF Place, Preparing, PrepareAt, Clones, ClonePorts
    <2>3. h[l].pc \in {"dropRelease", "dropAlloc", "dropAllocPurge"} => h[l].op \in Clones /\ h[l].port \in ClonePorts(h[l].op)
      BY <2>1, Zenon DEF Place, Finishing, FinishAt, Clones, ClonePorts
    <2>4. h[l].pc \in RemovePlaces => h[l].port \in SrcPorts \/ (h[l].op \in Clones /\ h[l].port \in ClonePorts(h[l].op))
      BY <2>1, Zenon DEF Place, Finishing, FinishAt, Clones, ClonePorts, SrcPorts
    <2>5. h[l].pc = "drop" => h[l].op \in Clones
      BY <2>1, Zenon DEF Place, Finishing, FinishAt, Clones
    <2> QED BY <1>3, <2>1, <2>2, <2>3, <2>4, <2>5, SourceAssumption, CloneAssumption, Zenon DEF SourcePort, SrcPorts, ClonePort, ClonePorts
  <1>4. CASE l \in VMs /\ h[l].pc = "idle" BY <1>4, Zenon
  <1> QED BY <1>2, <1>3, <1>4, Kinds, Zenon

\* How the VM of a port changes.
VMChange(p, vm) ==
    \/ vm = ports[p].vm
    \/ p \in SrcPorts /\ ports[p].vm = Src /\ vm = Nil
    \/ p \in SrcPorts /\ ports[p].vm = Nil /\ vm = Src
    \/ \E c \in Clones : p \in ClonePorts(c) /\ ports[p].vm = Nil /\ vm = Tx[c].vm
    \/ \E c \in Clones : p \in ClonePorts(c) /\ ports[p].vm = Tx[c].vm /\ vm = Nil
    \/ ports[p].vm = Nil /\ vm = plan.guest /\ taken' = taken \cup {p}

\* What a step does to port p.
PortEffect(p) ==
    \/ /\ ~Present(ports[p]) /\ \E l \in Handlers : createProvisionPort(l) /\ h[l].port = p
       /\ \E a : ports'[p] = [NoPort EXCEPT !.life = "live", !.rev = 1, !.addr = a]
    \/ /\ Present(ports[p])
       /\ \E vm, st : ports'[p] = [Updated(ports[p]) EXCEPT !.vm = vm, !.st = st] /\ VMChange(p, vm)
    \/ /\ Present(ports[p]) /\ ~Holds(allocs[p]) /\ ports'[p] = Deleted(ports[p]) /\ Tokened(p)'
       /\ \E l \in Handlers : removePort(l) /\ h[l].port = p /\ ports[p].rev = h[l].rev
    \/ Tombstone(ports[p]) /\ ~Holds(allocs[p]) /\ ports'[p] = NoPort

\* A step changes one port, and no address with it.
OnlyPort(p) ==
    /\ DOMAIN ports' = Ports /\ (\A q \in Ports : q # p => ports'[q] = ports[q])
    /\ UNCHANGED <<allocs, prov>> /\ tokens \subseteq tokens'

\* A delete that writes its tombstone records its token.
LEMMA TokenAdded ==
  ASSUME NEW key, NEW kind, NEW p, NEW rev, tokens' = tokens \cup {DeleteToken(key, kind, p, rev)}
  PROVE  Tokened(p)' /\ tokens \subseteq tokens'
  <1>1. DeleteToken(key, kind, p, rev).port = p BY Zenon DEF DeleteToken
  <1>2. DeleteToken(key, kind, p, rev) \in tokens' BY Zenon
  <1> QED BY <1>1, <1>2, Zenon DEF Tokened

\* The steps of provisioning and removing that change a port.
LEMMA ProvisionPortEffects ==
  ASSUME FlowInv, Shapes, RefInv, NEW l \in Handlers, NEW p \in Ports, ports'[p] # ports[p],
         createProvisionPort(l) \/ removePort(l) \/ purgePort(l)
  PROVE  PortEffect(p) /\ OnlyPort(p) /\ UNCHANGED taken
  <1>s. DOMAIN ports = Ports BY Zenon DEF Shapes
  <1>1. CASE createProvisionPort(l)
    <2>1. /\ OnlyPort(p) /\ UNCHANGED taken /\ h[l].port = p /\ ~Present(ports[p])
          /\ ports'[p] = [NoPort EXCEPT !.life = "live", !.rev = 1, !.addr = h[l].addr]
      BY <1>s, <1>1, Zenon DEF createProvisionPort, OnlyPort, world
    <2> QED BY <1>1, <2>1, Zenon DEF PortEffect
  <1>2. CASE removePort(l)
    <2>1. /\ OnlyPort(p) /\ UNCHANGED taken /\ h[l].port = p /\ ports'[p] = Deleted(ports[p])
          /\ CanDeletePort(p, h[l].rev) /\ tokens' = tokens \cup {DeleteToken(h[l].key, "port", p, h[l].rev)}
      BY <1>s, <1>2, Zenon DEF removePort, OnlyPort, world
    <2>2. Tokened(p)' BY <2>1, TokenAdded, Zenon
    <2> QED BY <1>2, <2>1, <2>2, Zenon DEF PortEffect, CanDeletePort
  <1>3. CASE purgePort(l)
    <2>1. OnlyPort(p) /\ UNCHANGED taken /\ h[l].port = p /\ ports'[p] = NoPort /\ CanPurgePort(p, h[l].rev)
      BY <1>s, <1>3, Zenon DEF purgePort, OnlyPort, world
    <2>2. Present(ports[p]) BY <2>1, Zenon DEF Shapes, PortShape, Present
    <2> QED BY <2>1, <2>2, Zenon DEF PortEffect, CanPurgePort
  <1> QED BY <1>1, <1>2, <1>3, Zenon

\* The steps of the compute transactions that change a port.
LEMMA ComputePortEffects ==
  ASSUME FlowInv, Shapes, RefInv, NEW l \in Handlers, NEW p \in Ports, ports'[p] # ports[p],
         detachSourcePorts(l) \/ restoreSourcePorts(l) \/ attachClonePort(l) \/ deletePreparingClonePort(l)
  PROVE  PortEffect(p) /\ OnlyPort(p) /\ UNCHANGED taken
  <1>s. DOMAIN ports = Ports BY Zenon DEF Shapes
  <1>1. CASE detachSourcePorts(l)
    <2>1. /\ OnlyPort(p) /\ UNCHANGED taken /\ SourcePort(l) = p /\ ports[p].vm = Src /\ Holds(allocs[p])
          /\ ports'[p] = [Updated(ports[p]) EXCEPT !.vm = Nil, !.st = "unbound"]
      BY <1>s, <1>1, Zenon DEF detachSourcePorts, OnlyPort, world, sourcePortAttached, validateSourceAllocations
    <2>2. p \in SrcPorts BY <1>1, <2>1, PortAt, Zenon DEF detachSourcePorts, At
    <2> QED BY <2>1, <2>2, Zenon DEF PortEffect, VMChange, RefInv
  <1>2. CASE restoreSourcePorts(l)
    <2>1. /\ OnlyPort(p) /\ UNCHANGED taken /\ SourcePort(l) = p /\ ports[p].vm = Nil /\ Holds(allocs[p])
          /\ ports'[p] = [Updated(ports[p]) EXCEPT !.vm = Src, !.st = Entry(l).st]
      BY <1>s, <1>2, Zenon DEF restoreSourcePorts, OnlyPort, world, sourcePortDetached, portCanBeDeprovisioned, validateSourceAllocations
    <2>2. p \in SrcPorts BY <1>2, <2>1, PortAt, Zenon DEF restoreSourcePorts, At
    <2> QED BY <2>1, <2>2, Zenon DEF PortEffect, VMChange, RefInv
  <1>3. CASE attachClonePort(l)
    <2>1. /\ OnlyPort(p) /\ UNCHANGED taken /\ h[l].port = p /\ ports[p].vm = Nil /\ Present(ports[p])
          /\ ports'[p] = [Updated(ports[p]) EXCEPT !.vm = l, !.st = "binding"]
      BY <1>s, <1>3, Zenon DEF attachClonePort, OnlyPort, world, portCanBeDeprovisioned
    <2>2. h[l].op \in Clones /\ Tx[h[l].op].vm = l /\ p \in ClonePorts(h[l].op)
      <3>1. h[l].pc = "attach" /\ l \in VMs BY <1>3, PortAt, Zenon DEF attachClonePort, At
      <3>2. Place(l, h[l], ops[h[l].op], ask[h[l].op], ops[h[l].req]) BY <3>1, Acting, Zenon DEF At
      <3> QED BY <2>1, <3>1, <3>2, Zenon DEF Place, Preparing, PrepareAt, Clones, ClonePorts
    <2> QED BY <2>1, <2>2, Zenon DEF PortEffect, VMChange
  <1>4. CASE deletePreparingClonePort(l)
    <2>1. /\ OnlyPort(p) /\ UNCHANGED taken /\ ClonePort(l) = p /\ ports[p].vm = l /\ Present(ports[p])
          /\ ports'[p] = [Updated(ports[p]) EXCEPT !.vm = Nil, !.st = "unbound"]
      BY <1>s, <1>4, Zenon DEF deletePreparingClonePort, OnlyPort, world, clonePortAttached
    <2>2. h[l].op \in Clones /\ Tx[h[l].op].vm = l /\ p \in ClonePorts(h[l].op)
      <3>1. h[l].pc = "drop" /\ l \in VMs /\ p \in ClonePorts(h[l].op) BY <1>4, <2>1, PortAt, Zenon DEF deletePreparingClonePort, At
      <3>2. Place(l, h[l], ops[h[l].op], ask[h[l].op], ops[h[l].req]) BY <3>1, Acting, Zenon DEF At
      <3> QED BY <3>1, <3>2, Zenon DEF Place, Finishing, FinishAt, Clones, Recovers, Templates
    <2> QED BY <2>1, <2>2, Zenon DEF PortEffect, VMChange
  <1> QED BY <1>1, <1>2, <1>3, <1>4, Zenon

\* Every step that changes a port.
LEMMA PortEffects ==
  ASSUME FlowInv, Shapes, RefInv, Next, NEW p \in Ports, ports'[p] # ports[p]
  PROVE  PortEffect(p) /\ OnlyPort(p)
  <1>s. DOMAIN ports = Ports BY Zenon DEF Shapes
  <1>1. ASSUME NEW l \in Handlers, Step(l) PROVE PortEffect(p) /\ OnlyPort(p)
    <2>1. CASE PortWriters(l) BY <2>1, ProvisionPortEffects, ComputePortEffects, Zenon DEF PortWriters
    <2>2. CASE AllocWriters(l)
      BY <2>2, Zenon DEF AllocWriters, pickAddress, giveBack, giveBackPurge, allocateProvisionAddress, releasePortAllocations, purgeAllocation,
         deletePreparingCloneAllocation, purgeCloneAllocation
    <2>3. CASE ~PortWriters(l) /\ ~AllocWriters(l) BY <1>1, <2>3, ReadSteps, Zenon
    <2> QED BY <2>1, <2>2, <2>3, Zenon
  <1>2. ASSUME NEW q \in Ports, ReportBound(q) \/ takePort(q) \/ Sweep(q) PROVE PortEffect(p) /\ OnlyPort(p)
    <2>1. OnlyPort(p) /\ p = q BY <1>s, <1>2, Zenon DEF ReportBound, takePort, Sweep, OnlyPort
    <2>2. CASE ReportBound(p)
      <3>1. ports'[p] = [Updated(ports[p]) EXCEPT !.st = "bound"] /\ Present(ports[p]) BY <1>s, <2>2, Zenon DEF ReportBound, Present
      <3>2. [Updated(ports[p]) EXCEPT !.st = "bound"] = [Updated(ports[p]) EXCEPT !.vm = ports[p].vm, !.st = "bound"]
        BY Zenon DEF Shapes, PortShape, PortFields, Updated
      <3> QED BY <2>1, <3>1, <3>2, Zenon DEF PortEffect, VMChange
    <2>3. CASE takePort(p)
      <3>1. /\ ports'[p] = [Updated(ports[p]) EXCEPT !.vm = plan.guest, !.st = "binding"] /\ Present(ports[p])
            /\ ports[p].vm = Nil /\ taken' = taken \cup {p}
        BY <1>s, <2>3, Zenon DEF takePort, Present, portCanBeDeprovisioned
      <3> QED BY <2>1, <3>1, Zenon DEF PortEffect, VMChange
    <2>4. CASE Sweep(p) BY <1>s, <2>1, <2>4, Zenon DEF Sweep, PortEffect
    <2> QED BY <1>2, <2>1, <2>2, <2>3, <2>4, Zenon
  <1>3. ASSUME NEW l \in Callers, APICall(l) PROVE FALSE
    BY <1>3, Zenon DEF APICall, provisionPort, deprovisionPort, rows
  <1> QED BY <1>1, <1>2, <1>3, OtherSteps, Zenon DEF Next

\* What a step does to the address of port p.
AllocEffect(p) ==
    \/ ~Present(allocs[p]) /\ \E a : allocs'[p] = [life |-> "live", use |-> "reserved", rev |-> 1, addr |-> a]
    \/ Present(allocs[p]) /\ allocs[p].use = "reserved" /\ allocs'[p] = Deleted(allocs[p])
    \/ Present(allocs[p]) /\ allocs'[p] = Deleted(allocs[p]) /\ Tokened(p)'
    \/ Tombstone(allocs[p]) /\ allocs'[p] = NoAlloc
    \/ /\ Present(allocs[p]) /\ allocs[p].use = "reserved" /\ ports[p].life = "live" /\ ports[p].addr = allocs[p].addr
       /\ allocs'[p] = [Updated(allocs[p]) EXCEPT !.use = "allocated"]

\* A step changes one address, and no port with it.
OnlyAlloc(p) ==
    /\ DOMAIN allocs' = Ports /\ (\A q \in Ports : q # p => allocs'[q] = allocs[q])
    /\ UNCHANGED <<ports, prov>> /\ tokens \subseteq tokens'

\* The steps of provisioning that change an address.
LEMMA ProvisionAllocEffects ==
  ASSUME Shapes, NEW l \in Handlers, NEW p \in Ports, allocs'[p] # allocs[p],
         pickAddress(l) \/ giveBack(l) \/ giveBackPurge(l) \/ allocateProvisionAddress(l)
  PROVE  AllocEffect(p) /\ OnlyAlloc(p)
  <1>s. DOMAIN allocs = Ports BY Zenon DEF Shapes
  <1>1. CASE pickAddress(l)
    <2>1. /\ OnlyAlloc(p) /\ h[l].port = p /\ ~Present(allocs[p])
          /\ \E a : allocs'[p] = [life |-> "live", use |-> "reserved", rev |-> 1, addr |-> a]
      BY <1>s, <1>1, Zenon DEF pickAddress, OnlyAlloc
    <2> QED BY <2>1, Zenon DEF AllocEffect
  <1>2. CASE giveBack(l)
    <2>1. OnlyAlloc(p) /\ h[l].port = p /\ Present(allocs[p]) /\ allocs[p].use = "reserved" /\ allocs'[p] = Deleted(allocs[p])
      BY <1>s, <1>2, Zenon DEF giveBack, OnlyAlloc
    <2> QED BY <2>1, Zenon DEF AllocEffect
  <1>3. CASE giveBackPurge(l)
    <2>1. h[l].port = p /\ allocs' = [allocs EXCEPT ![p] = NoAlloc] /\ CanPurgeAlloc(p, h[l].rev) /\ UNCHANGED <<ports, prov, tokens>>
      BY <1>s, <1>3, Zenon DEF giveBackPurge
    <2>2. Present(allocs[p]) BY <1>s, <2>1, Zenon DEF Shapes, AllocShape, Present
    <2> QED BY <1>s, <2>1, <2>2, Zenon DEF AllocEffect, CanPurgeAlloc, OnlyAlloc
  <1>4. CASE allocateProvisionAddress(l)
    <2>1. /\ allocs' = [allocs EXCEPT ![h[l].port] = [Updated(@) EXCEPT !.use = "allocated"]] /\ UNCHANGED <<ports, prov, tokens>>
          /\ LET a == allocs[h[l].port] IN /\ Present(a) /\ a.use = "reserved" /\ ports[h[l].port].life = "live"
                                           /\ ports[h[l].port].addr = a.addr
      BY <1>s, <1>4, Zenon DEF allocateProvisionAddress
    <2>2. h[l].port = p BY <1>s, <2>1, Zenon
    <2>3. OnlyAlloc(p) /\ allocs'[p] = [Updated(allocs[p]) EXCEPT !.use = "allocated"] BY <1>s, <2>1, <2>2, Zenon DEF OnlyAlloc
    <2> QED BY <2>1, <2>2, <2>3, Zenon DEF AllocEffect
  <1> QED BY <1>1, <1>2, <1>3, <1>4, Zenon

\* The steps of removing that change an address.
LEMMA RemoveAllocEffects ==
  ASSUME Shapes, NEW l \in Handlers, NEW p \in Ports, allocs'[p] # allocs[p],
         releasePortAllocations(l) \/ purgeAllocation(l) \/ deletePreparingCloneAllocation(l) \/ purgeCloneAllocation(l)
  PROVE  AllocEffect(p) /\ OnlyAlloc(p)
  <1>s. DOMAIN allocs = Ports BY Zenon DEF Shapes
  <1>1. CASE releasePortAllocations(l)
    <2>1. /\ DOMAIN allocs' = Ports /\ (\A q \in Ports : q # p => allocs'[q] = allocs[q]) /\ UNCHANGED <<ports, prov>>
          /\ Present(allocs[p]) /\ allocs'[p] = Deleted(allocs[p])
          /\ \E rev : tokens' = tokens \cup {DeleteToken(h[l].key, "alloc", p, rev)}
      BY <1>s, <1>1, Zenon DEF releasePortAllocations, Holds
    <2>2. Tokened(p)' /\ tokens \subseteq tokens' BY <2>1, TokenAdded, Zenon
    <2> QED BY <2>1, <2>2, Zenon DEF AllocEffect, OnlyAlloc
  <1>2. CASE purgeAllocation(l)
    <2>1. OnlyAlloc(p) /\ allocs'[p] = NoAlloc /\ CanPurgeAlloc(p, h[l].arev)
      BY <1>s, <1>2, Zenon DEF purgeAllocation, OnlyAlloc
    <2>2. Present(allocs[p]) BY <2>1, Zenon DEF Shapes, AllocShape, Present
    <2> QED BY <2>1, <2>2, Zenon DEF AllocEffect, CanPurgeAlloc
  <1>3. CASE deletePreparingCloneAllocation(l)
    <2>1. /\ DOMAIN allocs' = Ports /\ (\A q \in Ports : q # p => allocs'[q] = allocs[q]) /\ UNCHANGED <<ports, prov>>
          /\ Present(allocs[p]) /\ allocs'[p] = Deleted(allocs[p])
          /\ \E rev : tokens' = tokens \cup {DeleteToken(<<"dropAlloc", h[l].op>>, "alloc", p, rev)}
      BY <1>s, <1>3, Zenon DEF deletePreparingCloneAllocation, Present
    <2>2. Tokened(p)' /\ tokens \subseteq tokens' BY <2>1, TokenAdded, Zenon
    <2> QED BY <2>1, <2>2, Zenon DEF AllocEffect, OnlyAlloc
  <1>4. CASE purgeCloneAllocation(l)
    <2>1. OnlyAlloc(p) /\ allocs'[p] = NoAlloc /\ CanPurgeAlloc(p, h[l].arev)
      BY <1>s, <1>4, Zenon DEF purgeCloneAllocation, OnlyAlloc
    <2>2. Present(allocs[p]) BY <2>1, Zenon DEF Shapes, AllocShape, Present
    <2> QED BY <2>1, <2>2, Zenon DEF AllocEffect, CanPurgeAlloc
  <1> QED BY <1>1, <1>2, <1>3, <1>4, Zenon

\* Every step that changes an address.
LEMMA AllocEffects ==
  ASSUME Shapes, Next, NEW p \in Ports, allocs'[p] # allocs[p]
  PROVE  AllocEffect(p) /\ OnlyAlloc(p)
  <1>s. DOMAIN allocs = Ports BY Zenon DEF Shapes
  <1>1. ASSUME NEW l \in Handlers, Step(l) PROVE AllocEffect(p) /\ OnlyAlloc(p)
    <2>1. CASE AllocWriters(l) BY <2>1, ProvisionAllocEffects, RemoveAllocEffects, Zenon DEF AllocWriters
    <2>2. CASE PortWriters(l)
      BY <2>2, Zenon DEF PortWriters, createProvisionPort, removePort, purgePort, detachSourcePorts, restoreSourcePorts, attachClonePort,
         deletePreparingClonePort
    <2>3. CASE ~PortWriters(l) /\ ~AllocWriters(l) BY <1>1, <2>3, ReadSteps, Zenon
    <2> QED BY <2>1, <2>2, <2>3, Zenon
  <1>2. ASSUME NEW q \in Ports, ReportBound(q) \/ takePort(q) \/ Sweep(q) PROVE AllocEffect(p) /\ OnlyAlloc(p)
    <2>1. Sweep(q) BY <1>2, Zenon DEF ReportBound, takePort
    <2> QED BY <1>s, <2>1, Zenon DEF Sweep, AllocEffect, OnlyAlloc
  <1>3. ASSUME NEW l \in Callers, APICall(l) PROVE FALSE
    BY <1>3, Zenon DEF APICall, provisionPort, deprovisionPort, rows
  <1> QED BY <1>1, <1>2, <1>3, OtherSteps, Zenon DEF Next

\* Where a failing call leads.
LEMMA FailEdges ==
  ASSUME FlowInv, NEW l \in Handlers, CallFails(l)
  PROVE  /\ h'[l].pc \in {"compensate", "failProvision", "restore", "drop", "delete", "idle"}
         /\ h'[l].pc = "restore" => h[l].pc = "restore" /\ h'[l].op = h[l].op /\ h'[l].bad = 1
         /\ h'[l].pc \in {"drop", "delete"} => h'[l].op = h[l].op /\ h'[l].bad = 1
  <1> DEFINE w == h[l]
  <1>s. HandlerShape(w) /\ l \in DOMAIN h /\ w.pc # "idle" BY Zenon DEF FlowInv, Handling, Good, CallFails, At
  <1>1. h'[l] = OnError(w) BY <1>s, Zenon DEF CallFails
  <1>2. DOMAIN [w EXCEPT !.addr = Nil] = Fields /\ DOMAIN [w EXCEPT !.used = {}] = Fields BY <1>s, Zenon DEF HandlerShape, Fields
  <1>3. \A v : DOMAIN v = Fields => NotProvisioned(v).pc \in {"compensate", "idle"} /\ ProvisionError(v).pc = "failProvision"
    BY Zenon DEF NotProvisioned, ProvisionError, Idle, Fields
  <1>4. LET x == NotRemoved(w) IN x = Idle \/ (x.pc \in {"drop", "delete"} /\ x.op = w.op /\ x.bad = 1)
    <2>1. DOMAIN NextPort(w) = Fields /\ NextPort(w).pc \in {"drop", "delete"} /\ NextPort(w).op = w.op
      BY <1>s, Zenon DEF HandlerShape, Fields, NextPort
    <2> QED BY <2>1, Zenon DEF NotRemoved, Fields
  <1>5. LET x == [w EXCEPT !.i = @ + 1, !.bad = 1] IN x.pc = w.pc /\ x.op = w.op /\ x.bad = 1
    BY <1>s, Zenon DEF HandlerShape, Fields
  <1>6. [w EXCEPT !.pc = "compensate"].pc = "compensate" BY <1>s, Zenon DEF HandlerShape, Fields
  <1>7. \/ h'[l] \in {NotProvisioned([w EXCEPT !.addr = Nil]), ProvisionError([w EXCEPT !.used = {}]), [w EXCEPT !.pc = "compensate"], NotRemoved(w), Idle}
        \/ w.pc = "restore" /\ h'[l] = [w EXCEPT !.i = @ + 1, !.bad = 1]
    BY <1>1, Zenon DEF OnError
  <1>8. CASE h'[l] = NotProvisioned([w EXCEPT !.addr = Nil]) BY <1>2, <1>3, <1>8, Zenon
  <1>9. CASE h'[l] = ProvisionError([w EXCEPT !.used = {}]) BY <1>2, <1>3, <1>9, Zenon
  <1>10. CASE h'[l] = [w EXCEPT !.pc = "compensate"] BY <1>6, <1>10, Zenon
  <1>11. CASE h'[l] = Idle BY <1>11, IdleGood, Zenon
  <1>12. CASE h'[l] = NotRemoved(w) BY <1>4, <1>11, <1>12, Zenon
  <1>13. CASE w.pc = "restore" /\ h'[l] = [w EXCEPT !.i = @ + 1, !.bad = 1] BY <1>5, <1>13, Zenon
  <1> QED BY <1>7, <1>8, <1>9, <1>10, <1>11, <1>12, <1>13, Zenon

\* Where a request starts.
LEMMA RequestEdges ==
  ASSUME FlowInv, NEW id \in Ids, Request(id), Tx[id].vm \in Handlers
  PROVE  /\ At(Tx[id].vm, "idle")
         /\ h'[Tx[id].vm].pc \in {"snapVerify", "snapNew", "snapReply", "snapClean", "mutationVerify", "mutationNew", "check",
                                  "restore", "detach", "new", "capture", "reply", "drop", "provision", "verify", "findTemplate", "cloneNew"}
  <1>s. Tx[id].vm \in DOMAIN h BY Zenon DEF FlowInv, Handling
  <1>0. \A i : ProvisionNIC([Idle EXCEPT !.op = id, !.req = id, !.i = i], 1).pc \in {"provision", "verify"}
    BY Zenon DEF ProvisionNIC, Idle
  <1>1. At(Tx[id].vm, "idle")
    BY Zenon DEF Request, computeSnapshotCreate, computeSnapshotCleanup, computeSnapshotPrepare, computeFinish, Asked,
       computeTemplatePrepare, computeDestroyCapture, computeClonePrepare
  <1>2. computeSnapshotCreate(id) \/ computeSnapshotCleanup(id) \/ computeSnapshotPrepare(id) =>
          h'[Tx[id].vm].pc \in {"snapVerify", "snapNew", "snapReply", "snapClean", "mutationVerify", "mutationNew"}
    <2>1. computeSnapshotCreate(id) => h'[Tx[id].vm].pc \in {"snapVerify", "snapNew", "snapReply", "snapClean"}
      BY <1>s, Zenon DEF computeSnapshotCreate, Start, Idle
    <2>2. computeSnapshotCleanup(id) => h'[Tx[id].vm].pc = "snapClean"
      BY <1>s, Zenon DEF computeSnapshotCleanup, Start, Idle
    <2>3. computeSnapshotPrepare(id) => h'[Tx[id].vm].pc \in {"mutationVerify", "mutationNew"}
      BY <1>s, Zenon DEF computeSnapshotPrepare, Start, Idle
    <2> QED BY <2>1, <2>2, <2>3, Zenon
  <1>3. \A k : computeFinish(id, k) => h'[Tx[id].vm].pc = "check"
    BY <1>s, Zenon DEF computeFinish, Idle
  <1>4. computeTemplatePrepare(id) => h'[Tx[id].vm].pc \in {"restore", "detach", "new"}
    BY <1>s, Zenon DEF computeTemplatePrepare, Idle
  <1>5. computeDestroyCapture(id) => h'[Tx[id].vm].pc \in {"restore", "detach", "reply", "capture"}
    <2> DEFINE w == [Idle EXCEPT !.op = id, !.req = id, !.i = 1]
    <2>1. DOMAIN w = Fields BY Zenon DEF Idle, Fields
    <2> HIDE DEF w
    <2> SUFFICES ASSUME computeDestroyCapture(id) PROVE h'[Tx[id].vm].pc \in {"restore", "detach", "reply", "capture"} BY Zenon
    <2>3. \/ h'[Tx[id].vm] = [w EXCEPT !.pc = "restore", !.dir = "undo"]
          \/ \E pc \in {"reply", "detach"} : h'[Tx[id].vm] = [w EXCEPT !.pc = pc]
          \/ \E v : h'[Tx[id].vm] = [w EXCEPT !.pc = "capture", !.saw = v]
      BY <1>s, Zenon DEF computeDestroyCapture, w
    <2>4. h'[Tx[id].vm] = [w EXCEPT !.pc = "restore", !.dir = "undo"] => h'[Tx[id].vm].pc = "restore" BY <2>1, Zenon DEF Fields
    <2>5. ASSUME NEW pc, h'[Tx[id].vm] = [w EXCEPT !.pc = pc] PROVE h'[Tx[id].vm].pc = pc BY <2>1, <2>5, Zenon DEF Fields
    <2>6. ASSUME NEW v, h'[Tx[id].vm] = [w EXCEPT !.pc = "capture", !.saw = v] PROVE h'[Tx[id].vm].pc = "capture" BY <2>1, <2>6, Zenon DEF Fields
    <2> QED BY <2>3, <2>4, <2>5, <2>6, Zenon
  <1>6. computeClonePrepare(id) => h'[Tx[id].vm].pc \in {"drop", "provision", "verify", "findTemplate", "cloneNew"}
    <2> DEFINE w == [Idle EXCEPT !.op = id, !.req = id, !.i = 1]
    <2>1. DOMAIN w = Fields /\ ProvisionNIC(w, 1).pc \in {"provision", "verify"} BY <1>0, Zenon DEF Idle, Fields
    <2> HIDE DEF w
    <2> SUFFICES ASSUME computeClonePrepare(id)
                 PROVE  h'[Tx[id].vm].pc \in {"drop", "provision", "verify", "findTemplate", "cloneNew"} BY Zenon
    <2>3. \/ h'[Tx[id].vm] \in {[w EXCEPT !.pc = "drop", !.dir = "undo"], ProvisionNIC(w, 1), [w EXCEPT !.pc = "verify"]}
          \/ \E v : \E pc \in {"findTemplate", "cloneNew"} : h'[Tx[id].vm] = [w EXCEPT !.pc = pc, !.saw = v]
      BY <1>s, Zenon DEF computeClonePrepare, w
    <2>4. h'[Tx[id].vm] = [w EXCEPT !.pc = "drop", !.dir = "undo"] => h'[Tx[id].vm].pc = "drop" BY <2>1, Zenon DEF Fields
    <2>5. h'[Tx[id].vm] = [w EXCEPT !.pc = "verify"] => h'[Tx[id].vm].pc = "verify" BY <2>1, Zenon DEF Fields
    <2>6. ASSUME NEW pc, NEW v, h'[Tx[id].vm] = [w EXCEPT !.pc = pc, !.saw = v] PROVE h'[Tx[id].vm].pc = pc BY <2>1, <2>6, Zenon DEF Fields
    <2> QED BY <2>1, <2>3, <2>4, <2>5, <2>6, Zenon
  <1> QED BY <1>1, <1>2, <1>3, <1>4, <1>5, <1>6, Zenon DEF Request

\* Where a user's request starts.
LEMMA APIEdges == ASSUME FlowInv, NEW l \in Callers, APICall(l) PROVE h'[l].pc \in {"reserve", "release"}
  <1>s. l \in DOMAIN h BY Zenon DEF FlowInv, Handling, Handlers
  <1>1. PICK p \in APIPorts : \/ provisionPort(l, p)
                             \/ \E expected \in {ports[p].rev, ports[p].rev - 1} : deprovisionPort(l, p, expected)
    BY Zenon DEF APICall
  <1>2. CASE provisionPort(l, p)
    <2>1. h' = [h EXCEPT ![l] = [Idle EXCEPT !.pc = "reserve", !.port = p]] BY <1>2, Zenon DEF provisionPort
    <2>2. h'[l] = [Idle EXCEPT !.pc = "reserve", !.port = p] BY <1>s, <2>1, Zenon
    <2> QED BY <2>2 DEF Idle
  <1>3. CASE \E expected \in {ports[p].rev, ports[p].rev - 1} : deprovisionPort(l, p, expected)
    <2>1. PICK expected : deprovisionPort(l, p, expected) BY <1>3, Zenon
    <2>2. h' = [h EXCEPT ![l] = [Idle EXCEPT !.pc = "release", !.port = p, !.rev = expected, !.key = <<"deprovision", expected>>]]
      BY <2>1, Zenon DEF deprovisionPort
    <2>3. h'[l] = [Idle EXCEPT !.pc = "release", !.port = p, !.rev = expected, !.key = <<"deprovision", expected>>]
      BY <1>s, <2>2, Zenon
    <2> QED BY <2>3 DEF Idle
  <1> QED BY <1>1, <1>2, <1>3, Zenon

\* Tokens stay.
LEMMA TokensGrow == ASSUME Next PROVE tokens \subseteq tokens'
  <1>1. ASSUME NEW l \in Handlers, Step(l) PROVE tokens \subseteq tokens'
    <2>1. CASE AllocWriters(l)
      BY <2>1, Zenon DEF AllocWriters, pickAddress, giveBack, giveBackPurge, allocateProvisionAddress, releasePortAllocations, purgeAllocation,
         deletePreparingCloneAllocation, purgeCloneAllocation
    <2>2. CASE PortWriters(l)
      BY <2>2, Zenon DEF PortWriters, createProvisionPort, removePort, purgePort, detachSourcePorts, restoreSourcePorts, attachClonePort,
         deletePreparingClonePort
    <2>3. CASE ~PortWriters(l) /\ ~AllocWriters(l) BY <1>1, <2>3, ReadSteps, Zenon
    <2> QED BY <2>1, <2>2, <2>3, Zenon
  <1>2. ASSUME NEW q \in Ports, ReportBound(q) \/ takePort(q) \/ Sweep(q) PROVE UNCHANGED tokens
    BY <1>2, Zenon DEF ReportBound, takePort, Sweep
  <1>3. ASSUME NEW l \in Callers, APICall(l) PROVE UNCHANGED tokens
    BY <1>3, Zenon DEF APICall, provisionPort, deprovisionPort, rows
  <1> QED BY <1>1, <1>2, <1>3, OtherSteps, Zenon DEF Next

\* A provisioning operation succeeds only at its last step.
LEMMA ProvEffects ==
  ASSUME FlowInv, Shapes, Next
  PROVE  /\ DOMAIN prov' = Ports
         /\ \A p \in Ports : prov'[p] = "succeeded" /\ prov[p] # "succeeded" =>
              \E l \in Handlers : completePortProvision(l) /\ h[l].port = p
  <1>s. DOMAIN prov = Ports BY Zenon DEF Shapes
  <1> DEFINE G == /\ DOMAIN prov' = Ports
                  /\ \A p \in Ports : prov'[p] = "succeeded" /\ prov[p] # "succeeded" =>
                       \E l \in Handlers : completePortProvision(l) /\ h[l].port = p
  <1>0. ASSUME UNCHANGED prov PROVE G BY <1>s, <1>0, Zenon
  <1>1. ASSUME NEW l \in Handlers, Step(l) PROVE G
    <2>1. CASE AllocWriters(l)
      <3>1. UNCHANGED prov
        BY <2>1, Zenon DEF AllocWriters, pickAddress, giveBack, giveBackPurge, allocateProvisionAddress, releasePortAllocations, purgeAllocation,
           deletePreparingCloneAllocation, purgeCloneAllocation
      <3> QED BY <3>1, <1>0, Zenon
    <2>2. CASE PortWriters(l)
      <3>1. UNCHANGED prov
        BY <2>2, Zenon DEF PortWriters, createProvisionPort, removePort, purgePort, detachSourcePorts, restoreSourcePorts, attachClonePort,
           deletePreparingClonePort
      <3> QED BY <3>1, <1>0, Zenon
    <2>3. CASE ProvWriters(l)
      <3>1. CASE beginPortProvision(l) BY <1>s, <3>1, Zenon DEF beginPortProvision
      <3>2. CASE completePortProvision(l) BY <1>s, <3>2, Zenon DEF completePortProvision
      <3>3. CASE failPortProvision(l) BY <1>s, <3>3, Zenon DEF failPortProvision
      <3> QED BY <2>3, <3>1, <3>2, <3>3, Zenon DEF ProvWriters
    <2>4. CASE ~PortWriters(l) /\ ~AllocWriters(l) /\ ~ProvWriters(l) BY <1>0, <1>1, <2>4, ReadSteps, Zenon
    <2> QED BY <2>1, <2>2, <2>3, <2>4, Zenon
  <1>2. ASSUME NEW q \in Ports, ReportBound(q) \/ takePort(q) \/ Sweep(q) PROVE UNCHANGED prov
    BY <1>2, Zenon DEF ReportBound, takePort, Sweep
  <1>3. ASSUME NEW l \in Callers, APICall(l) PROVE G
    BY <1>3, <1>s, Zenon DEF APICall, provisionPort, deprovisionPort
  <1> QED BY <1>0, <1>1, <1>2, <1>3, OtherSteps, Zenon DEF Next

-----------------------------------------------------------------------------
\* A port that was ever given its address has it still, or a delete began on it.
Attested(p) ==
    \/ Tokened(p)
    \/ ports[p].life = "live" /\ Holds(allocs[p]) /\ allocs[p].life = "live" /\ allocs[p].addr = ports[p].addr

\* What was given an address, by allocateProvisionAddress, is attested.
BackedInv ==
    \A p \in Ports : Holds(allocs[p]) \/ prov[p] = "succeeded" \/ (\E l \in Handlers : At(l, "complete") /\ h[l].port = p)
                        => Attested(p)

\* The inductive invariant behind Backed.
RowsInv == Shapes /\ RefInv /\ BackedInv

\* What the updates of a port and of an address change.
LEMMA UpdateFields ==
  /\ \A r, vm, st : PortShape(r) => LET u == [Updated(r) EXCEPT !.vm = vm, !.st = st] IN
        u.life = "live" /\ u.vm = vm /\ u.st = st /\ u.rev = r.rev + 1 /\ u.addr = r.addr
  /\ \A r : PortShape(r) => Deleted(r).life = "deleting" /\ Deleted(r).rev = r.rev + 1 /\ Deleted(r).vm = r.vm /\ Deleted(r).st = r.st
  /\ \A a : AllocShape(a) => Deleted(a).life = "deleting" /\ Deleted(a).rev = a.rev + 1 /\ Deleted(a).use = a.use /\ Deleted(a).addr = a.addr
  /\ \A a : AllocShape(a) => LET u == [Updated(a) EXCEPT !.use = "allocated"] IN
        u.life = "live" /\ u.use = "allocated" /\ u.rev = a.rev + 1 /\ u.addr = a.addr
  BY Zenon DEF PortShape, AllocShape, PortFields, AllocFields, Updated, Deleted

\* No row of a port appears or disappears from the tables of the model.
LEMMA TablesKept == ASSUME Shapes, Next PROVE DOMAIN ports' = Ports /\ DOMAIN allocs' = Ports
  <1>s. DOMAIN ports = Ports /\ DOMAIN allocs = Ports BY Zenon DEF Shapes
  <1>1. ASSUME NEW l \in Handlers, Step(l) PROVE DOMAIN ports' = Ports /\ DOMAIN allocs' = Ports
    <2>1. CASE AllocWriters(l)
      BY <1>s, <2>1, Zenon DEF AllocWriters, pickAddress, giveBack, giveBackPurge, allocateProvisionAddress, releasePortAllocations,
         purgeAllocation, deletePreparingCloneAllocation, purgeCloneAllocation
    <2>2. CASE PortWriters(l)
      BY <1>s, <2>2, Zenon DEF PortWriters, createProvisionPort, removePort, purgePort, detachSourcePorts, restoreSourcePorts,
         attachClonePort, deletePreparingClonePort
    <2>3. CASE ~PortWriters(l) /\ ~AllocWriters(l) BY <1>s, <1>1, <2>3, ReadSteps, Zenon
    <2> QED BY <2>1, <2>2, <2>3, Zenon
  <1>2. ASSUME NEW q \in Ports, ReportBound(q) \/ takePort(q) \/ Sweep(q) PROVE DOMAIN ports' = Ports /\ DOMAIN allocs' = Ports
    BY <1>s, <1>2, Zenon DEF ReportBound, takePort, Sweep
  <1>3. ASSUME NEW l \in Callers, APICall(l) PROVE UNCHANGED <<ports, allocs>>
    BY <1>3, Zenon DEF APICall, provisionPort, deprovisionPort, rows
  <1> QED BY <1>s, <1>1, <1>2, <1>3, OtherSteps, Zenon DEF Next

\* The shapes of the rows are kept.
LEMMA ShapesKept == ASSUME FlowInv, Shapes, RefInv, Next PROVE Shapes'
  <1>1. DOMAIN prov' = Ports /\ DOMAIN ports' = Ports /\ DOMAIN allocs' = Ports BY ProvEffects, TablesKept, Zenon
  <1>2. ASSUME NEW p \in Ports PROVE PortShape(ports'[p])
    <2>1. PortShape(ports[p]) BY Zenon DEF Shapes
    <2>2. CASE ports'[p] = ports[p] BY <2>1, <2>2, Zenon
    <2>3. CASE ports'[p] # ports[p]
      <3>1. PortEffect(p) BY <2>3, PortEffects, Zenon
      <3>2. ASSUME NEW a, ports'[p] = [NoPort EXCEPT !.life = "live", !.rev = 1, !.addr = a] PROVE PortShape(ports'[p])
        <4>1. PortShape([NoPort EXCEPT !.life = "live", !.rev = 1, !.addr = a]) BY UpdateShapes, Zenon
        <4> QED BY <3>2, <4>1, Zenon
      <3>3. ASSUME NEW vm, NEW st, ports'[p] = [Updated(ports[p]) EXCEPT !.vm = vm, !.st = st] PROVE PortShape(ports'[p])
        <4>1. PortShape([Updated(ports[p]) EXCEPT !.vm = vm, !.st = st]) BY <2>1, UpdateShapes, Zenon
        <4> QED BY <3>3, <4>1, Zenon
      <3>4. PortShape(Deleted(ports[p])) /\ PortShape(NoPort) BY <2>1, UpdateShapes, Zenon
      <3> QED BY <3>1, <3>2, <3>3, <3>4, Zenon DEF PortEffect
    <2> QED BY <2>2, <2>3, Zenon
  <1>3. ASSUME NEW p \in Ports PROVE AllocShape(allocs'[p])
    <2>1. AllocShape(allocs[p]) BY Zenon DEF Shapes
    <2>2. CASE allocs'[p] = allocs[p] BY <2>1, <2>2, Zenon
    <2>3. CASE allocs'[p] # allocs[p]
      <3>1. AllocEffect(p) BY <2>3, AllocEffects, Zenon
      <3>2. ASSUME NEW a, allocs'[p] = [life |-> "live", use |-> "reserved", rev |-> 1, addr |-> a] PROVE AllocShape(allocs'[p])
        BY <3>2, UpdateShapes, Zenon
      <3>3. AllocShape(Deleted(allocs[p])) /\ AllocShape(NoAlloc) /\ AllocShape([Updated(allocs[p]) EXCEPT !.use = "allocated"])
        BY <2>1, UpdateShapes, Zenon
      <3> QED BY <3>1, <3>2, <3>3, Zenon DEF AllocEffect
    <2> QED BY <2>2, <2>3, Zenon
  <1> QED BY <1>1, <1>2, <1>3, Zenon DEF Shapes


\* What a step makes of a port's row: a fresh row, an update, a tombstone or nothing.
LEMMA PortRow ==
  ASSUME FlowInv, Shapes, RefInv, Next, NEW p \in Ports, ports'[p] # ports[p]
  PROVE  /\ UNCHANGED <<allocs, prov>>
         /\ \/ ~Present(ports[p]) /\ ports'[p].life = "live" /\ ports'[p].rev = 1 /\ ports'[p].vm = Nil
            \/ /\ Present(ports[p]) /\ ports'[p].life = "live" /\ ports'[p].rev = ports[p].rev + 1 /\ ports'[p].addr = ports[p].addr
               /\ VMChange(p, ports'[p].vm)
            \/ /\ ~Holds(allocs[p]) /\ Tokened(p)' /\ ports'[p].life = "deleting" /\ ports'[p].rev = ports[p].rev + 1
               /\ ports'[p].vm = ports[p].vm /\ Present(ports[p])
               /\ \E l \in Handlers : removePort(l) /\ h[l].port = p /\ ports[p].rev = h[l].rev
            \/ ~Holds(allocs[p]) /\ Tombstone(ports[p]) /\ ports'[p] = NoPort
  <1>1. PortEffect(p) /\ OnlyPort(p) /\ PortShape(ports[p]) BY PortEffects, Zenon DEF Shapes
  <1>2. ASSUME NEW a, ports'[p] = [NoPort EXCEPT !.life = "live", !.rev = 1, !.addr = a]
        PROVE  ports'[p].life = "live" /\ ports'[p].rev = 1 /\ ports'[p].vm = Nil
    BY <1>2, Zenon DEF NoPort
  <1>3. ASSUME NEW vm, NEW st, ports'[p] = [Updated(ports[p]) EXCEPT !.vm = vm, !.st = st]
        PROVE  /\ ports'[p].life = "live" /\ ports'[p].rev = ports[p].rev + 1 /\ ports'[p].addr = ports[p].addr
               /\ ports'[p].vm = vm
    BY <1>1, <1>3, Zenon DEF PortShape, PortFields, Updated
  <1>4. Deleted(ports[p]).life = "deleting" /\ Deleted(ports[p]).rev = ports[p].rev + 1 /\ Deleted(ports[p]).vm = ports[p].vm
    BY <1>1, UpdateFields, Zenon
  <1>5. \/ ~Present(ports[p]) /\ \E a : ports'[p] = [NoPort EXCEPT !.life = "live", !.rev = 1, !.addr = a]
        \/ Present(ports[p]) /\ \E vm, st : ports'[p] = [Updated(ports[p]) EXCEPT !.vm = vm, !.st = st] /\ VMChange(p, vm)
        \/ /\ ~Holds(allocs[p]) /\ ports'[p] = Deleted(ports[p]) /\ Tokened(p)' /\ Present(ports[p])
           /\ \E l \in Handlers : removePort(l) /\ h[l].port = p /\ ports[p].rev = h[l].rev
        \/ Tombstone(ports[p]) /\ ~Holds(allocs[p]) /\ ports'[p] = NoPort
    BY <1>1, Zenon DEF PortEffect
  <1>6. UNCHANGED <<allocs, prov>> BY <1>1, Zenon DEF OnlyPort
  <1>7. CASE ~Present(ports[p]) /\ \E a : ports'[p] = [NoPort EXCEPT !.life = "live", !.rev = 1, !.addr = a]
    BY <1>2, <1>6, <1>7, Zenon
  <1>8. CASE Present(ports[p]) /\ \E vm, st : ports'[p] = [Updated(ports[p]) EXCEPT !.vm = vm, !.st = st] /\ VMChange(p, vm)
    <2>1. PICK vm, st : ports'[p] = [Updated(ports[p]) EXCEPT !.vm = vm, !.st = st] /\ VMChange(p, vm) BY <1>8, Zenon
    <2>2. /\ ports'[p].life = "live" /\ ports'[p].rev = ports[p].rev + 1 /\ ports'[p].addr = ports[p].addr
          /\ ports'[p].vm = vm /\ VMChange(p, vm) /\ Present(ports[p])
      BY <1>3, <1>8, <2>1, Zenon
    <2> QED BY <1>6, <2>2, Zenon
  <1>9. CASE /\ ~Holds(allocs[p]) /\ ports'[p] = Deleted(ports[p]) /\ Tokened(p)' /\ Present(ports[p])
             /\ \E l \in Handlers : removePort(l) /\ h[l].port = p /\ ports[p].rev = h[l].rev
    BY <1>4, <1>6, <1>9, Zenon
  <1>10. CASE Tombstone(ports[p]) /\ ~Holds(allocs[p]) /\ ports'[p] = NoPort BY <1>6, <1>10, Zenon
  <1> QED BY <1>5, <1>7, <1>8, <1>9, <1>10, Zenon

\* What a step makes of an address.
LEMMA AllocRow ==
  ASSUME Shapes, Next, NEW p \in Ports, allocs'[p] # allocs[p]
  PROVE  /\ UNCHANGED <<ports, prov>>
         /\ \/ ~Present(allocs[p]) /\ allocs'[p].life = "live" /\ allocs'[p].use = "reserved" /\ allocs'[p].rev = 1
            \/ /\ Present(allocs[p]) /\ allocs'[p].life = "deleting" /\ allocs'[p].use = allocs[p].use /\ allocs'[p].rev = allocs[p].rev + 1
               /\ allocs[p].use = "reserved" \/ Tokened(p)'
            \/ Tombstone(allocs[p]) /\ allocs'[p] = NoAlloc
            \/ /\ allocs[p].use = "reserved" /\ ports[p].life = "live" /\ ports[p].addr = allocs[p].addr
               /\ allocs'[p].life = "live" /\ allocs'[p].use = "allocated" /\ allocs'[p].addr = allocs[p].addr
  <1>1. AllocEffect(p) /\ OnlyAlloc(p) /\ AllocShape(allocs[p]) BY AllocEffects, Zenon DEF Shapes
  <1>2. ASSUME NEW a, allocs'[p] = [life |-> "live", use |-> "reserved", rev |-> 1, addr |-> a]
        PROVE  allocs'[p].life = "live" /\ allocs'[p].use = "reserved" /\ allocs'[p].rev = 1
    BY <1>2
  <1>3. LET d == Deleted(allocs[p]) IN d.life = "deleting" /\ d.use = allocs[p].use /\ d.rev = allocs[p].rev + 1
    BY <1>1, UpdateFields, Zenon
  <1>4. LET u == [Updated(allocs[p]) EXCEPT !.use = "allocated"] IN u.life = "live" /\ u.use = "allocated" /\ u.addr = allocs[p].addr
    BY <1>1, UpdateFields, Zenon
  <1> QED BY <1>1, <1>2, <1>3, <1>4, Zenon DEF AllocEffect, OnlyAlloc

\* An allocated address keeps its port.
LEMMA RefKept == ASSUME FlowInv, Shapes, RefInv, Next PROVE RefInv'
  <1> SUFFICES ASSUME NEW p \in Ports, Holds(allocs'[p]) PROVE Present(ports'[p]) BY Zenon DEF RefInv
  <1>1. CASE ports'[p] # ports[p]
    <2>1. Holds(allocs[p]) /\ Present(ports[p]) BY <1>1, PortRow, Zenon DEF RefInv
    <2> QED BY <1>1, <2>1, PortRow, Zenon DEF Present
  <1>2. CASE allocs'[p] # allocs[p]
    BY <1>2, AllocRow DEF Holds, Present, RefInv, NoAlloc
  <1>3. CASE ports'[p] = ports[p] /\ allocs'[p] = allocs[p] BY <1>3, Zenon DEF RefInv
  <1> QED BY <1>1, <1>2, <1>3, Zenon

\* A port that has its address, or that a delete has begun on, stays so.
LEMMA AttestedStays == ASSUME FlowInv, Shapes, RefInv, Next, NEW p \in Ports, Attested(p) PROVE Attested(p)'
  <1>1. CASE Tokened(p) BY <1>1, TokensGrow, Zenon DEF Attested, Tokened
  <1>2. CASE ports[p].life = "live" /\ Holds(allocs[p]) /\ allocs[p].life = "live" /\ allocs[p].addr = ports[p].addr
    <2>1. CASE ports'[p] # ports[p] BY <1>2, <2>1, PortRow, Zenon DEF Attested, Present
    <2>2. CASE allocs'[p] # allocs[p] BY <1>2, <2>2, AllocRow, Zenon DEF Attested, Holds, Present, Tombstone
    <2>3. CASE ports'[p] = ports[p] /\ allocs'[p] = allocs[p] BY <1>2, <2>3, Zenon DEF Attested
    <2> QED BY <2>1, <2>2, <2>3, Zenon
  <1> QED BY <1>1, <1>2, Zenon DEF Attested

\* A provisioning comes to its last step only by giving the port its address.
LEMMA ToComplete ==
  ASSUME FlowInv, Next, NEW l \in Handlers, h'[l] # h[l], h'[l].pc = "complete"
  PROVE  allocateProvisionAddress(l)
  <1>1. ASSUME Step(l) PROVE allocateProvisionAddress(l)
    <2>1. CASE ProvisionStep(l) BY <2>1, Edges, Zenon DEF ProvisionStep, Leads
    <2>2. CASE RemoveStep(l) BY <2>2, Edges, Zenon DEF RemoveStep, Leads
    <2>3. CASE SnapshotStep(l) BY <2>3, Edges, Zenon DEF SnapshotStep, Leads
    <2>4. CASE SourceStep(l) BY <2>4, Edges, Zenon DEF SourceStep, Leads
    <2>5. CASE CloneStep(l) BY <2>5, Edges, Zenon DEF CloneStep, Leads
    <2> QED BY <1>1, <2>1, <2>2, <2>3, <2>4, <2>5, Zenon DEF Step
  <1>2. ~CallFails(l) BY FailEdges, Zenon
  <1>3. ASSUME l \in Callers, APICall(l) PROVE FALSE BY <1>3, APIEdges, Zenon
  <1>4. ASSUME NEW id \in Ids, Request(id), Tx[id].vm = l PROVE FALSE BY <1>4, RequestEdges, Zenon
  <1> QED BY <1>1, <1>2, <1>3, <1>4, Movers, Zenon

\* Giving a port its address attests it.
LEMMA Allocates ==
  ASSUME FlowInv, RowsInv, Next, NEW l \in Handlers, allocateProvisionAddress(l), h'[l].pc = "complete"
  PROVE  h'[l].port = h[l].port /\ h[l].port \in Ports /\ Attested(h[l].port)'
  <1> DEFINE w == h[l]
  <1> DEFINE p == h[l].port
  <1>s. HandlerShape(w) /\ l \in DOMAIN h BY Zenon DEF FlowInv, Handling, Good
  <1>1. p \in Ports BY PortAt, Zenon DEF allocateProvisionAddress, At
  <1>2. [w EXCEPT !.pc = "complete"].port = p /\ ProvisionError(w).pc = "failProvision" BY <1>s, Zenon DEF HandlerShape, Fields, ProvisionError
  <1>3. h'[l] = [w EXCEPT !.pc = "complete"] \/ h'[l] = ProvisionError(w) BY <1>s, Zenon DEF allocateProvisionAddress, Try
  <1>4. h'[l].port = p BY <1>2, <1>3, Zenon
  <1> DEFINE ok == /\ Present(allocs[p]) /\ allocs[p].use = "reserved"
                   /\ ports[p].life = "live" /\ ports[p].addr = allocs[p].addr
  <1>5. CASE Holds(allocs[p]) BY <1>1, <1>4, <1>5, AttestedStays, Zenon DEF RowsInv, BackedInv
  <1>6. CASE ok
    <2>1. allocs' = [allocs EXCEPT ![p] = [Updated(allocs[p]) EXCEPT !.use = "allocated"]] /\ UNCHANGED ports
      BY <1>6, Zenon DEF allocateProvisionAddress
    <2>2. allocs'[p] = [Updated(allocs[p]) EXCEPT !.use = "allocated"] BY <1>1, <2>1, Zenon DEF RowsInv, Shapes
    <2>3. allocs'[p].life = "live" /\ allocs'[p].use = "allocated" /\ allocs'[p].addr = allocs[p].addr
      BY <1>1, <2>2, UpdateFields DEF RowsInv, Shapes
    <2> QED BY <1>1, <1>4, <1>6, <2>1, <2>3, Zenon DEF Attested, Holds, Present
  <1>7. CASE ~Holds(allocs[p]) /\ ~ok
    <2>1. h'[l] = ProvisionError(w) BY <1>s, <1>7, Zenon DEF allocateProvisionAddress, Try
    <2> QED BY <1>2, <2>1, Zenon
  <1> QED BY <1>5, <1>6, <1>7, Zenon

\* The invariant of the rows is kept by every step.
LEMMA BackedKept == ASSUME FlowInv, RowsInv, Next PROVE BackedInv'
  <1> USE DEF RowsInv
  <1> SUFFICES ASSUME NEW p \in Ports,
                      Holds(allocs'[p]) \/ prov'[p] = "succeeded" \/ (\E l \in Handlers : h'[l].pc = "complete" /\ h'[l].port = p)
               PROVE  Attested(p)'
    BY Zenon DEF BackedInv, At
  <1>1. CASE Holds(allocs'[p])
    <2>1. CASE Holds(allocs[p]) BY <2>1, AttestedStays, Zenon DEF BackedInv
    <2>2. CASE ~Holds(allocs[p])
      <3>1. allocs'[p] # allocs[p] BY <1>1, <2>2, Zenon
      <3> QED BY <1>1, <2>2, <3>1, AllocRow DEF Holds, Present, NoAlloc, Attested
    <2> QED BY <2>1, <2>2, Zenon
  <1>2. CASE prov'[p] = "succeeded"
    <2>1. Attested(p) BY <1>2, ProvEffects, Zenon DEF BackedInv, completePortProvision
    <2> QED BY <2>1, AttestedStays, Zenon
  <1>3. CASE \E l \in Handlers : h'[l].pc = "complete" /\ h'[l].port = p
    <2>1. PICK l \in Handlers : h'[l].pc = "complete" /\ h'[l].port = p BY <1>3, Zenon
    <2>2. CASE h'[l] = h[l] BY <2>1, <2>2, AttestedStays, Zenon DEF BackedInv, At
    <2>3. CASE h'[l] # h[l] BY <2>1, <2>3, ToComplete, Allocates, Zenon
    <2> QED BY <2>2, <2>3, Zenon
  <1> QED BY <1>1, <1>2, <1>3, Zenon

\* Every step keeps the invariant of the rows,
LEMMA RowsNext == ASSUME FlowInv, RowsInv, Next PROVE RowsInv'
  BY ShapesKept, RefKept, BackedKept, Zenon DEF RowsInv

\* a stutter does,
LEMMA RowsStutter == ASSUME RowsInv, UNCHANGED vars PROVE RowsInv'
  BY Zenon DEF RowsInv, Shapes, RefInv, BackedInv, vars, At, Attested, Tokened

\* and the initial states have it.
LEMMA RowsInit == ASSUME Init PROVE RowsInv
  <1>1. Shapes
    BY SourceAssumption, Zenon DEF Init, Shapes, PortShape, AllocShape, NoPort, NoAlloc, PortFields, AllocFields, Lives
  <1>2. RefInv BY Zenon DEF Init, RefInv, Holds, Present, NoAlloc
  <1>3. BackedInv BY IdleGood, Zenon DEF Init, BackedInv, Attested, Holds, Present, NoAlloc, At
  <1> QED BY <1>1, <1>2, <1>3, Zenon DEF RowsInv

-----------------------------------------------------------------------------

\* The port has moved past the revision, or is gone, or stands detached at it.
Stale(p, rev) ==
    \/ ~Present(ports[p])
    \/ ports[p].rev > rev
    \/ ports[p].rev = rev /\ ports[p].vm = Nil

\* The handler is about to delete its port at the revision it carries.
Removing(w) ==
    \/ w.pc \in {"release", "releasePurge", "remove"}
    \/ w.pc = "dropRelease" /\ w.rev # 4
    \/ w.pc \in {"dropAlloc", "dropAllocPurge"} /\ w.rev = 1

\* No handler deletes a port at a revision at which it is attached.
StaleInv == \A l \in VMs : Removing(h[l]) => h[l].rev \in Nat /\ Stale(h[l].port, h[l].rev)

\* Only a detached port of a transaction is being deleted.
AttachedLive == \A p \in Ports \ APIPorts : ports[p].vm # Nil => ports[p].life = "live"

\* Users attach ports to a VM that no transaction is about.
Guest == plan.guest \notin VMs \cup {Nil}

\* A port that a user attached stays attached.
TakenInv ==
    /\ DOMAIN plan = {"ids", "st", "guest", "calls", "taken", "faults", "pools"}
    /\ taken \subseteq Ports
    /\ Guest => \A p \in taken \ APIPorts : ports[p].vm = plan.guest

\* The inductive invariant behind TakenStays.
DetachInv == StaleInv /\ AttachedLive /\ TakenInv

\* A handler that removes is at a port of its own transaction.
LEMMA RemovingPort ==
  ASSUME FlowInv, NEW l \in VMs, Removing(h[l])
  PROVE  /\ h[l].port \in Ports /\ l \in Handlers
         /\ \/ h[l].port \in SrcPorts
            \/ h[l].op \in Clones /\ Tx[h[l].op].vm = l /\ h[l].port = <<h[l].op, h[l].i>> /\ h[l].i \in CloneNICs(h[l].op)
  <1>1. h[l].pc \in {"release", "releasePurge", "remove", "dropRelease", "dropAlloc", "dropAllocPurge"} BY Zenon DEF Removing
  <1>2. Place(l, h[l], ops[h[l].op], ask[h[l].op], ops[h[l].req]) /\ h[l].op \in Ids /\ l \in Handlers BY <1>1, Acting, Zenon DEF At
  <1>3. FinishAt(h[l]) BY <1>1, <1>2, Zenon DEF Place, Finishing
  <1>4. h[l].op \in Clones => Tx[h[l].op].vm = l BY <1>2, Zenon DEF Place, Recovers, Clones, Templates
  <1>5. h[l].port \in Ports BY <1>1, <1>2, PortAt, Zenon
  <1>6. \/ h[l].i \in NICs /\ h[l].port = <<Src, h[l].i>>
        \/ Kind(h[l].op) = "clone" /\ h[l].i \in CloneNICs(h[l].op) /\ h[l].port = <<h[l].op, h[l].i>>
    BY <1>1, <1>3, Zenon DEF FinishAt
  <1> QED BY <1>2, <1>4, <1>5, <1>6, Zenon DEF Clones, SrcPorts

\* No other handler creates the port that one removes.
LEMMA NoneCreates ==
  ASSUME FlowInv, NEW l \in VMs, Removing(h[l]), NEW k \in Handlers, createProvisionPort(k), h[k].port = h[l].port
  PROVE  FALSE
  <1>1. h[k].pc = "create" /\ k # l BY Zenon DEF createProvisionPort, At, Removing
  <1>2. CASE k \in Callers
    <2>1. h[k].port \in APIPorts BY <1>1, <1>2, Zenon DEF FlowInv, Handling, Good, CallerPlace
    <2>2. h[l].op \in Clones /\ h[l].port = <<h[l].op, h[l].i>> /\ h[l].i \in CloneNICs(h[l].op) => h[l].port \in ClonePorts(h[l].op)
      BY Zenon DEF ClonePorts
    <2>3. h[l].port \notin APIPorts BY <2>2, RemovingPort, SourceAssumption, CloneAssumption, Zenon
    <2> QED BY <2>1, <2>3, Zenon
  <1>3. CASE k \in VMs
    <2>1. Place(k, h[k], ops[h[k].op], ask[h[k].op], ops[h[k].req]) /\ h[k].op \in Ids /\ Tx[h[k].req].vm = k
      BY <1>1, <1>3, Acting, Zenon DEF At
    <2>2. h[k].op = h[k].req /\ h[k].port = <<h[k].op, h[k].i>> BY <1>1, <2>1, Zenon DEF Place, Preparing, PrepareAt
    <2>3. ASSUME h[k].port \in SrcPorts PROVE FALSE
      <3>1. PICK j \in NICs : <<h[k].op, h[k].i>> = <<Src, j>> BY <2>2, <2>3, Zenon DEF SrcPorts
      <3> QED BY <2>1, <3>1, SourceAssumption, Zenon
    <2>4. Tx[h[l].op].vm = l /\ h[l].port = <<h[l].op, h[l].i>> BY <2>3, RemovingPort, Zenon
    <2>5. <<h[l].op, h[l].i>> = <<h[k].op, h[k].i>> BY <2>2, <2>4, Zenon
    <2>6. h[k].op = h[l].op BY <2>5, Zenon
    <2> QED BY <1>1, <2>1, <2>2, <2>4, <2>6, Zenon
  <1> QED BY <1>2, <1>3, Kinds, Zenon

\* Whatever others do, a revision that was passed, or at which the port stood
\* detached, stays so.
LEMMA StaleStays ==
  ASSUME FlowInv, RowsInv, Next, NEW l \in VMs, Removing(h[l]), h[l].rev \in Nat, Stale(h[l].port, h[l].rev)
  PROVE  LET p == h[l].port IN
         \/ ~Present(ports'[p])
         \/ ports'[p].rev > h[l].rev
         \/ ports'[p].rev = h[l].rev /\ ports'[p].vm = Nil
  <1> DEFINE p == h[l].port
  <1>1. p \in Ports /\ PortShape(ports[p]) BY RemovingPort, Zenon DEF RowsInv, Shapes
  <1>2. CASE ports'[p] = ports[p] BY <1>2, Zenon DEF Stale
  <1>3. CASE ports'[p] # ports[p] /\ ~Present(ports[p])
    <2>1. PortEffect(p) BY <1>1, <1>3, PortEffects, Zenon DEF RowsInv
    <2>2. \E k \in Handlers : createProvisionPort(k) /\ h[k].port = p BY <1>3, <2>1, Zenon DEF PortEffect, Present, Tombstone
    <2> QED BY <2>2, NoneCreates, Zenon
  <1>4. CASE ports'[p] # ports[p] /\ Present(ports[p])
    <2>1. ports'[p].rev = ports[p].rev + 1 \/ ports'[p] = NoPort BY <1>1, <1>4, PortRow, Zenon DEF RowsInv
    <2>2. ports[p].rev \in Nat BY <1>1, Zenon DEF PortShape
    <2> QED BY <1>4, <2>1, <2>2 DEF Stale, Present, NoPort
  <1> QED BY <1>2, <1>3, <1>4, Zenon

\* The steps by which a handler comes to remove its port, or goes on with it.
Removers(l) ==
    \/ deleteDetachedSourcePorts(l) \/ deletePreparingClonePort(l) \/ deleteOwnedComputePort(l)
    \/ deletePreparingCloneAllocation(l) \/ purgeCloneAllocation(l)
    \/ releasePortAllocations(l) \/ purgeAllocation(l)

\* No other step leads to a removal.
LEMMA ToRemove ==
  ASSUME FlowInv, Next, NEW l \in VMs, h'[l] # h[l], Removing(h'[l])
  PROVE  Removers(l)
  <1>0. l \in Handlers /\ l \notin Callers BY Kinds, Zenon
  <1>1. h'[l].pc \in {"release", "releasePurge", "remove", "dropRelease", "dropAlloc", "dropAllocPurge"} BY Zenon DEF Removing
  <1>2. ASSUME Step(l) PROVE Removers(l)
    <2>1. CASE ProvisionStep(l) BY <1>0, <1>1, <2>1, Edges, Zenon DEF ProvisionStep, Leads
    <2>2. CASE RemoveStep(l) BY <1>0, <1>1, <2>2, Edges, Zenon DEF RemoveStep, Leads, Removers
    <2>3. CASE SnapshotStep(l) BY <1>0, <1>1, <2>3, Edges, Zenon DEF SnapshotStep, Leads
    <2>4. CASE SourceStep(l) BY <1>0, <1>1, <2>4, Edges, Zenon DEF SourceStep, Leads, Removers
    <2>5. CASE CloneStep(l) BY <1>0, <1>1, <2>5, Edges, Zenon DEF CloneStep, Leads, Removers
    <2> QED BY <1>2, <2>1, <2>2, <2>3, <2>4, <2>5, Zenon DEF Step
  <1>3. ~CallFails(l) BY <1>0, <1>1, FailEdges, Zenon
  <1>4. ASSUME NEW id \in Ids, Request(id), Tx[id].vm = l PROVE FALSE BY <1>0, <1>1, <1>4, RequestEdges, Zenon
  <1>5. h'[l].pc # "idle" BY <1>1, Zenon
  <1> QED BY <1>0, <1>2, <1>3, <1>4, <1>5, Movers, Zenon

\* The source port that a commit begins to delete stands detached at the
\* revision that the commit carries.
LEMMA SourceRemove ==
  ASSUME FlowInv, RowsInv, NEW l \in VMs, deleteDetachedSourcePorts(l), Removing(h'[l])
  PROVE  h'[l].rev \in Nat /\ Stale(h[l].port, h[l].rev)'
  <1> DEFINE w == h[l]
  <1> DEFINE p == SourcePort(l)
  <1> DEFINE m == Entry(l)
  <1>s. HandlerShape(w) /\ l \in DOMAIN h /\ l \in Handlers BY Kinds, Zenon DEF FlowInv, Handling, Good
  <1>0. h'[l].pc \in {"release", "releasePurge", "remove", "dropRelease", "dropAlloc", "dropAllocPurge"} BY Zenon DEF Removing
  <1>p. p \in Ports /\ PortShape(ports[p]) BY <1>s, PortAt, Zenon DEF deleteDetachedSourcePorts, At, RowsInv, Shapes
  <1>1. NextPort(w).pc \in {"drop", "delete"} /\ NotRemoved(w).pc \in {"drop", "delete", "idle"} BY <1>s, Turns, Zenon
  <1> DEFINE x == [w EXCEPT !.pc = "purge", !.port = p, !.rev = m.rev + 2]
  <1> DEFINE y == [w EXCEPT !.pc = "release", !.port = p, !.rev = m.rev + 1]
  <1>2. x.pc = "purge" /\ y.pc = "release" /\ y.port = p /\ y.rev = m.rev + 1 BY <1>s, Zenon DEF HandlerShape, Fields
  <1>3. /\ h'[l] \in {NextPort(w), NotRemoved(w), x} \/ (h'[l] = y /\ sourcePortDetached(p, m))
        /\ UNCHANGED ports
    BY <1>s, Zenon DEF deleteDetachedSourcePorts, rows
  <1> HIDE DEF x, y
  <1>4. h'[l] = y /\ sourcePortDetached(p, m) BY <1>0, <1>1, <1>2, <1>3, Zenon
  <1>5. h'[l].port = p /\ h'[l].rev = ports[p].rev /\ ports[p].vm = Nil BY <1>2, <1>4, Zenon DEF sourcePortDetached, portCanBeDeprovisioned
  <1> QED BY <1>3, <1>5, <1>p, Zenon DEF Stale, PortShape

\* So does the port of a clone.
LEMMA CloneRemove ==
  ASSUME FlowInv, RowsInv, NEW l \in VMs, deletePreparingClonePort(l), Removing(h'[l])
  PROVE  h'[l].rev \in Nat /\ Stale(h[l].port, h[l].rev)'
  <1> DEFINE p == ClonePort(l)
  <1> DEFINE r == ports[p]
  <1> DEFINE w == [h[l] EXCEPT !.port = p, !.key = <<"drop", h[l].op>>]
  <1>s. HandlerShape(h[l]) /\ l \in DOMAIN h /\ l \in Handlers BY Kinds, Zenon DEF FlowInv, Handling, Good
  <1>0. h'[l].pc \in {"release", "releasePurge", "remove", "dropRelease", "dropAlloc", "dropAllocPurge"} BY Zenon DEF Removing
  <1>p. p \in Ports /\ PortShape(r) BY <1>s, PortAt, Zenon DEF deletePreparingClonePort, At, RowsInv, Shapes
  <1>w. HandlerShape(w) /\ w.port = p BY <1>s, Zenon DEF HandlerShape, Fields
  <1> DEFINE unbind == Present(r) /\ clonePortAttached(p, l) /\ validateCloneAllocation(p)
  <1> DEFINE owned == clonePortAttached(p, l) \/ clonePortDetached(p) \/ clonePortDeletionTombstone(p)
  <1> DEFINE provisional == portCanBeDeprovisioned(r) /\ r.rev = IF Tombstone(r) THEN 2 ELSE 1
  <1>a. /\ h'[l] = CASE ~Present(r) -> [w EXCEPT !.pc = "dropAlloc", !.rev = 0]
                     [] Present(r) /\ unbind -> [w EXCEPT !.pc = "dropRelease", !.rev = 3]
                     [] Present(r) /\ clonePortDetached(p) -> [w EXCEPT !.pc = "dropRelease", !.rev = 3]
                     [] Present(r) /\ clonePortDeletionTombstone(p) -> [w EXCEPT !.pc = "dropRelease", !.rev = 4]
                     [] Present(r) /\ ~owned /\ provisional -> [w EXCEPT !.pc = "dropAlloc", !.rev = r.rev]
                     [] OTHER -> NotRemoved(w)
        /\ ports' = IF unbind THEN [ports EXCEPT ![p] = [Updated(r) EXCEPT !.vm = Nil, !.st = "unbound"]] ELSE ports
    BY <1>s, Zenon DEF deletePreparingClonePort
  <1> DEFINE v0 == [w EXCEPT !.pc = "dropAlloc", !.rev = 0]
  <1> DEFINE v3 == [w EXCEPT !.pc = "dropRelease", !.rev = 3]
  <1> DEFINE v4 == [w EXCEPT !.pc = "dropRelease", !.rev = 4]
  <1> DEFINE v1 == [w EXCEPT !.pc = "dropAlloc", !.rev = r.rev]
  <1> DEFINE no == NotRemoved(w)
  <1> HIDE DEF v0, v1, v3, v4, no, unbind
  <1>1. /\ \/ h'[l] = v0
           \/ h'[l] = v3 /\ (unbind \/ clonePortDetached(p))
           \/ h'[l] = v4
           \/ h'[l] = v1 /\ ~unbind /\ portCanBeDeprovisioned(r)
           \/ h'[l] = no
        /\ ports' = IF unbind THEN [ports EXCEPT ![p] = [Updated(r) EXCEPT !.vm = Nil, !.st = "unbound"]] ELSE ports
    <2>1. /\ h'[l] = CASE ~Present(r) -> v0
                     [] Present(r) /\ unbind -> v3
                     [] Present(r) /\ clonePortDetached(p) -> v3
                     [] Present(r) /\ clonePortDeletionTombstone(p) -> v4
                     [] Present(r) /\ ~owned /\ provisional -> v1
                     [] OTHER -> no
          /\ ports' = IF unbind THEN [ports EXCEPT ![p] = [Updated(r) EXCEPT !.vm = Nil, !.st = "unbound"]] ELSE ports
      BY <1>a, Zenon DEF v0, v1, v3, v4, no
    <2>2. unbind => clonePortAttached(p, l) BY Zenon DEF unbind
    <2> HIDE DEF r, p
    <2> QED BY <2>1, <2>2, Zenon
  <1> USE DEF v0, v1, v3, v4, no, unbind
  <1>2. NotRemoved(w).pc \in {"drop", "delete", "idle"} BY <1>w, Turns, Zenon
  <1> HIDE DEF w
  <1>3. CASE h'[l] = [w EXCEPT !.pc = "dropAlloc", !.rev = 0]
    <2>1. h'[l].pc = "dropAlloc" /\ h'[l].rev = 0 BY <1>3, <1>w, Zenon DEF HandlerShape, Fields
    <2> QED BY <2>1 DEF Removing
  <1>4. CASE h'[l] = [w EXCEPT !.pc = "dropRelease", !.rev = 3] /\ (unbind \/ clonePortDetached(p))
    <2>1. h'[l].port = p /\ h'[l].rev = 3 BY <1>4, <1>w, Zenon DEF HandlerShape, Fields
    <2>2. CASE unbind
      <3>1. ports'[p] = [Updated(r) EXCEPT !.vm = Nil, !.st = "unbound"] BY <1>1, <1>p, <2>2, Zenon DEF RowsInv, Shapes
      <3>2. r.rev = 2 BY <2>2, Zenon DEF clonePortAttached
      <3>3. ports'[p].rev = 3 /\ ports'[p].vm = Nil BY <1>p, <3>1, <3>2, UpdateFields
      <3> QED BY <2>1, <3>3 DEF Stale
    <2>3. CASE ~unbind /\ clonePortDetached(p)
      <3>1. ports'[p] = r BY <1>1, <2>3, Zenon
      <3> QED BY <2>1, <2>3, <3>1 DEF Stale, clonePortDetached, portCanBeDeprovisioned
    <2> QED BY <1>4, <2>2, <2>3, Zenon
  <1>5. CASE h'[l] = [w EXCEPT !.pc = "dropRelease", !.rev = 4]
    <2>1. h'[l].pc = "dropRelease" /\ h'[l].rev = 4 BY <1>5, <1>w, Zenon DEF HandlerShape, Fields
    <2> QED BY <2>1, Zenon DEF Removing
  <1>6. CASE h'[l] = [w EXCEPT !.pc = "dropAlloc", !.rev = r.rev] /\ ~unbind /\ portCanBeDeprovisioned(r)
    <2>1. h'[l].port = p /\ h'[l].rev = r.rev BY <1>6, <1>w, Zenon DEF HandlerShape, Fields
    <2>2. ports'[p] = r BY <1>1, <1>6, Zenon
    <2> QED BY <1>p, <1>6, <2>1, <2>2, Zenon DEF Stale, PortShape, portCanBeDeprovisioned
  <1>7. h'[l] # NotRemoved(w) BY <1>0, <1>2, Zenon
  <1> QED BY <1>1, <1>3, <1>4, <1>5, <1>6, <1>7, Zenon

\* Once begun, the removal keeps its port and its revision.
LEMMA GoesOn ==
  ASSUME FlowInv, NEW l \in VMs, Removing(h'[l]),
         \/ deleteOwnedComputePort(l) \/ deletePreparingCloneAllocation(l) \/ purgeCloneAllocation(l)
         \/ releasePortAllocations(l) \/ purgeAllocation(l)
  PROVE  Removing(h[l]) /\ h'[l].port = h[l].port /\ h'[l].rev = h[l].rev
  <1> DEFINE w == h[l]
  <1>s. HandlerShape(w) /\ l \in DOMAIN h /\ l \in Handlers BY Kinds, Zenon DEF FlowInv, Handling, Good
  <1>0. h'[l].pc \in {"release", "releasePurge", "remove", "dropRelease", "dropAlloc", "dropAllocPurge"} BY Zenon DEF Removing
  <1>t. NotRemoved(w).pc \in {"drop", "delete", "idle"} /\ NextPort(w).pc \in {"drop", "delete"} BY <1>s, Turns, Zenon
  <1>1. CASE deleteOwnedComputePort(l)
    <2> DEFINE y == [w EXCEPT !.pc = IF w.rev = 4 THEN "purge" ELSE "release"]
    <2>1. y.port = w.port /\ y.rev = w.rev /\ (w.rev = 4 => y.pc = "purge") BY <1>s, Zenon DEF HandlerShape, Fields
    <2>2. h'[l] \in {y, NotRemoved(w)} /\ w.pc = "dropRelease" BY <1>s, <1>1, Zenon DEF deleteOwnedComputePort, Try, At
    <2> HIDE DEF y
    <2> QED BY <1>0, <1>t, <2>1, <2>2, Zenon DEF Removing
  <1>2. ASSUME NEW x, x = AfterAddress(w), w.pc \in {"dropAlloc", "dropAllocPurge"}, h'[l] = x
        PROVE  Removing(h[l]) /\ h'[l].port = h[l].port /\ h'[l].rev = h[l].rev
    <2>0. w.rev \in {0, 1, 2} BY <1>2, Acting, Zenon DEF At, Place, Finishing, FinishAt
    <2>a. CASE w.rev = 0
      <3>1. x = NextPort(w) BY <1>2, <2>a DEF AfterAddress
      <3> QED BY <1>0, <1>2, <1>t, <3>1, Zenon
    <2>b. CASE w.rev = 2
      <3>1. x = [w EXCEPT !.pc = "purge", !.arev = 0] BY <1>2, <2>b DEF AfterAddress
      <3>2. x.pc = "purge" BY <1>s, <3>1, Zenon DEF HandlerShape, Fields
      <3> QED BY <1>0, <1>2, <3>2, Zenon
    <2>c. CASE w.rev = 1
      <3>1. x = [w EXCEPT !.pc = "remove", !.arev = 0] BY <1>2, <2>c DEF AfterAddress
      <3>2. x.port = w.port /\ x.rev = w.rev BY <1>s, <3>1, Zenon DEF HandlerShape, Fields
      <3> QED BY <1>2, <2>c, <3>2, Zenon DEF Removing
    <2> QED BY <2>0, <2>a, <2>b, <2>c, Zenon
  <1>3. CASE deletePreparingCloneAllocation(l)
    <2> DEFINE n == (IF allocs[w.port].use = "allocated" THEN 2 ELSE 1) + 1
    <2>1. h'[l] \in {AfterAddress(w), [w EXCEPT !.pc = "dropAllocPurge", !.arev = n], NotRemoved(w)} /\ w.pc = "dropAlloc"
      BY <1>s, <1>3, Zenon DEF deletePreparingCloneAllocation, At
    <2> DEFINE y == [w EXCEPT !.pc = "dropAllocPurge", !.arev = n]
    <2>2. y.pc = "dropAllocPurge" /\ y.port = w.port /\ y.rev = w.rev BY <1>s, Zenon DEF HandlerShape, Fields
    <2>3. h'[l] \in {AfterAddress(w), y, NotRemoved(w)} BY <2>1, Zenon
    <2> HIDE DEF y
    <2> QED BY <1>0, <1>t, <1>2, <2>1, <2>2, <2>3 DEF Removing
  <1>4. CASE purgeCloneAllocation(l)
    <2>1. h'[l] \in {AfterAddress(w), NotRemoved(w)} /\ w.pc = "dropAllocPurge" BY <1>s, <1>4, Zenon DEF purgeCloneAllocation, Try, At
    <2> QED BY <1>0, <1>t, <1>2, <2>1, Zenon
  <1>5. CASE releasePortAllocations(l)
    <2> DEFINE n == (IF Tombstone(allocs[w.port]) THEN allocs[w.port].rev - 1 ELSE allocs[w.port].rev) + 1
    <2>1. h'[l] \in {[w EXCEPT !.pc = "releasePurge", !.arev = n], [w EXCEPT !.pc = "remove"], NotRemoved(w)} /\ w.pc = "release"
      BY <1>s, <1>5, Zenon DEF releasePortAllocations, Try, Goto, At
    <2> DEFINE y == [w EXCEPT !.pc = "releasePurge", !.arev = n]
    <2> DEFINE z == [w EXCEPT !.pc = "remove"]
    <2>2. y.port = w.port /\ y.rev = w.rev /\ z.port = w.port /\ z.rev = w.rev BY <1>s, Zenon DEF HandlerShape, Fields
    <2>3. h'[l] \in {y, z, NotRemoved(w)} BY <2>1, Zenon
    <2> HIDE DEF y, z
    <2> QED BY <1>0, <1>t, <2>1, <2>2, <2>3, Zenon DEF Removing
  <1>6. CASE purgeAllocation(l)
    <2> DEFINE y == [w EXCEPT !.pc = "remove", !.arev = 0]
    <2>1. y.port = w.port /\ y.rev = w.rev BY <1>s, Zenon DEF HandlerShape, Fields
    <2>2. h'[l] \in {y, NotRemoved(w)} /\ w.pc = "releasePurge" BY <1>s, <1>6, Zenon DEF purgeAllocation, Try, At
    <2> HIDE DEF y
    <2> QED BY <1>0, <1>t, <2>1, <2>2, Zenon DEF Removing
  <1> QED BY <1>1, <1>3, <1>4, <1>5, <1>6, Zenon

\* Every step keeps the invariant of the revisions.
LEMMA StaleKept == ASSUME FlowInv, RowsInv, StaleInv, Next PROVE StaleInv'
  <1> SUFFICES ASSUME NEW l \in VMs, Removing(h'[l]) PROVE h'[l].rev \in Nat /\ Stale(h[l].port, h[l].rev)'
    BY Zenon DEF StaleInv
  <1>1. ASSUME Removing(h[l]), h'[l].port = h[l].port, h'[l].rev = h[l].rev PROVE h'[l].rev \in Nat /\ Stale(h[l].port, h[l].rev)'
    <2>1. h[l].rev \in Nat /\ Stale(h[l].port, h[l].rev) BY <1>1, Zenon DEF StaleInv
    <2> QED BY <1>1, <2>1, StaleStays, Zenon DEF Stale
  <1>2. CASE h'[l] = h[l] BY <1>1, <1>2, Zenon
  <1>3. CASE h'[l] # h[l]
    BY <1>1, <1>3, ToRemove, SourceRemove, CloneRemove, GoesOn, Zenon DEF Removers
  <1> QED BY <1>2, <1>3, Zenon

\* A transaction's port is deleted only while it is detached.
LEMMA DeleteDetached ==
  ASSUME FlowInv, RowsInv, StaleInv, NEW p \in Ports \ APIPorts, NEW l \in Handlers, removePort(l), h[l].port = p, ports[p].rev = h[l].rev,
         Present(ports[p])
  PROVE  ports[p].vm = Nil
  <1>1. h[l].pc = "remove" BY Zenon DEF removePort, At
  <1>2. l \in VMs BY <1>1, Kinds, Zenon DEF FlowInv, Handling, Good, CallerPlace
  <1>3. h[l].rev \in Nat /\ Stale(p, h[l].rev) BY <1>1, <1>2, Zenon DEF StaleInv, Removing
  <1> QED BY <1>3 DEF Stale

\* Only detached ports get a tombstone: deleteOwnedComputePort, deletePreparingClonePort
\* and deleteDetachedSourcePorts.
LEMMA AttachedKept == ASSUME FlowInv, RowsInv, StaleInv, AttachedLive, Next PROVE AttachedLive'
  <1> SUFFICES ASSUME NEW p \in Ports \ APIPorts, ports'[p].vm # Nil PROVE ports'[p].life = "live" BY Zenon DEF AttachedLive
  <1>1. CASE ports'[p] = ports[p] BY <1>1, Zenon DEF AttachedLive
  <1>2. CASE ports'[p] # ports[p]
    <2>1. \/ ports'[p].life = "live" \/ ports'[p] = NoPort
          \/ /\ ports'[p].vm = ports[p].vm /\ Present(ports[p])
             /\ \E l \in Handlers : removePort(l) /\ h[l].port = p /\ ports[p].rev = h[l].rev
      BY <1>2, PortRow, Zenon DEF RowsInv
    <2> QED BY <2>1, DeleteDetached DEF NoPort
  <1> QED BY <1>1, <1>2, Zenon

\* The users' VM does not change, and only takePort adds a port that was taken.
LEMMA TakenSteps ==
  ASSUME Next, TakenInv
  PROVE  /\ DOMAIN plan' = DOMAIN plan /\ plan'.guest = plan.guest
         /\ \/ UNCHANGED taken
            \/ \E q \in Ports : takePort(q)
  <1>1. ASSUME NEW l \in Handlers, Step(l) PROVE UNCHANGED <<plan, taken>>
    <2>1. CASE AllocWriters(l)
      BY <2>1, Zenon DEF AllocWriters, pickAddress, giveBack, giveBackPurge, allocateProvisionAddress, releasePortAllocations, purgeAllocation,
         deletePreparingCloneAllocation, purgeCloneAllocation, world
    <2>2. CASE PortWriters(l)
      BY <2>2, Zenon DEF PortWriters, createProvisionPort, removePort, purgePort, detachSourcePorts, restoreSourcePorts, attachClonePort,
         deletePreparingClonePort, world
    <2>3. CASE ~PortWriters(l) /\ ~AllocWriters(l) BY <1>1, <2>3, ReadSteps, Zenon
    <2> QED BY <2>1, <2>2, <2>3, Zenon
  <1>2. ASSUME NEW q \in Ports, ReportBound(q) \/ Sweep(q) PROVE UNCHANGED <<plan, taken>>
    BY <1>2, Zenon DEF ReportBound, Sweep, world
  <1>3. ASSUME NEW q \in Ports, takePort(q) PROVE UNCHANGED plan BY <1>3, Zenon DEF takePort
  <1>4. ASSUME NEW l \in Callers, APICall(l) PROVE UNCHANGED taken /\ DOMAIN plan' = DOMAIN plan /\ plan'.guest = plan.guest
    <2>1. Called BY <1>4, Zenon DEF APICall, provisionPort, deprovisionPort
    <2> QED BY <2>1, Zenon DEF Called, TakenInv
  <1> QED BY <1>1, <1>2, <1>3, <1>4, OtherSteps, Zenon DEF Next

\* No step moves a port that a user attached.
LEMMA TakenKept == ASSUME FlowInv, RowsInv, DetachInv, Next PROVE TakenInv'
  <1> USE DEF DetachInv
  <1>1. DOMAIN plan' = DOMAIN plan /\ plan'.guest = plan.guest BY TakenSteps, Zenon
  <1>2. taken' \subseteq Ports BY TakenSteps, Zenon DEF takePort, TakenInv
  <1>3. ASSUME Guest, NEW p \in taken' \ APIPorts PROVE ports'[p].vm = plan.guest
    <2>1. CASE p \notin taken
      <3>1. PICK q \in Ports : takePort(q) BY <2>1, TakenSteps, Zenon
      <3>2. p = q BY <2>1, <3>1, Zenon DEF takePort
      <3>3. ports'[p] = [Updated(ports[p]) EXCEPT !.vm = plan.guest, !.st = "binding"] BY <3>1, <3>2, Zenon DEF takePort, RowsInv, Shapes
      <3> QED BY <3>1, <3>2, <3>3, UpdateFields DEF RowsInv, Shapes
    <2>2. CASE p \in taken
      <3>1. p \in Ports \ APIPorts /\ ports[p].vm = plan.guest /\ ports[p].life = "live"
        BY <1>3, <2>2, Zenon DEF TakenInv, AttachedLive, Guest
      <3>2. CASE ports'[p] = ports[p] BY <3>1, <3>2, Zenon
      <3>3. CASE ports'[p] # ports[p]
        <4>1. \/ VMChange(p, ports'[p].vm)
              \/ ports'[p].vm = ports[p].vm
          BY <3>1, <3>3, PortRow, Zenon DEF RowsInv, Present, Tombstone
        <4>2. VMChange(p, ports'[p].vm) => ports'[p].vm = plan.guest
          BY <1>3, <3>1, Zenon DEF VMChange, Guest, VMs, Targets
        <4> QED BY <3>1, <4>1, <4>2, Zenon
      <3> QED BY <3>2, <3>3, Zenon
    <2> QED BY <2>1, <2>2, Zenon
  <1> QED BY <1>1, <1>2, <1>3, Zenon DEF TakenInv, Guest

\* The initial states have the invariant,
LEMMA DetachInit == ASSUME Init PROVE DetachInv
  <1>1. StaleInv BY IdleGood, Kinds, Zenon DEF Init, StaleInv, Removing
  <1>2. AttachedLive BY Zenon DEF Init, AttachedLive, NoPort
  <1>3. TakenInv BY PlanAssumption, Zenon DEF Init, TakenInv
  <1> QED BY <1>1, <1>2, <1>3, Zenon DEF DetachInv

\* and every step keeps it.
LEMMA DetachNext == ASSUME FlowInv, RowsInv, DetachInv, [Next]_vars PROVE DetachInv'
  <1>1. CASE Next BY <1>1, StaleKept, AttachedKept, TakenKept, Zenon DEF DetachInv
  <1>2. CASE UNCHANGED vars BY <1>2, Zenon DEF vars, DetachInv, StaleInv, AttachedLive, TakenInv, Stale, Guest
  <1> QED BY <1>1, <1>2, Zenon

-----------------------------------------------------------------------------
\* The only record of a template in force is the one PVE was told of.
LEMMA TheTemplate ==
  ASSUME FlowInv, TemplateAsked, findTemplateRecord # {}
  PROVE  LET t == CHOOSE u \in findTemplateRecord : TRUE
         IN t \in Templates /\ t \in Ids /\ t \in TwoPhase /\ ask[t] = "commit" /\ Exists(ops[t]) /\ Row(t, ops[t])
            /\ InForce(ops[t])
  <1> DEFINE t == CHOOSE u \in findTemplateRecord : TRUE
  <1>2. t \in findTemplateRecord BY Zenon
  <1> HIDE DEF t
  <1>3. t \in Templates /\ Exists(ops[t]) /\ InForce(ops[t])
    BY <1>2, Zenon DEF findTemplateRecord, InForce
  <1>4. PICK u \in Templates : ask[u] = "commit" BY Zenon DEF TemplateAsked
  <1>5. InForce(ops[u])
    BY <1>4, Kinds, Zenon DEF FlowInv, Rows, AskRow, InForce, Templates, DirOf, AskOf
  <1>6. t = u BY <1>3, <1>5, Zenon DEF FlowInv, OneTemplate
  <1>7. t \in Ids /\ t \in TwoPhase BY <1>3, Kinds, Zenon DEF Templates
  <1>8. Row(t, ops[t]) BY <1>3, <1>7, NoRow, Zenon DEF FlowInv, Rows, Exists
  <1> QED BY <1>3, <1>4, <1>6, <1>7, <1>8, Zenon DEF t

\* findCommittedTemplate commits the one template whose commit PVE asked for.
LEMMA FindTemplateInv ==
  ASSUME FlowInv, NEW l \in VMs, ~At(l, "idle"), findCommittedTemplate(l),
         Cardinality(findTemplateRecord) = 1 => findTemplateRecord # {}
  PROVE  FlowInv'
  <1> DEFINE w == h[l]
  <1>0. /\ Place(l, w, ops[w.op], ask[w.op], ops[w.req]) /\ Relies(w) /\ HandlerShape(w)
        /\ w.op \in Ids /\ w.req \in Ids /\ Tx[w.req].vm = l
        /\ l \in Handlers /\ l \notin Callers /\ l \in DOMAIN h
        /\ ops[w.op] = NoOperation \/ Row(w.op, ops[w.op])
        /\ AskRow(w.op, ops[w.op], ask[w.op])
        /\ DOMAIN ops = Ids /\ DOMAIN ask = Ids
    BY Acting, Zenon
  <1>s. HandlerShape(w) BY <1>0, Zenon
  <1> DEFINE t == CHOOSE u \in findTemplateRecord : TRUE
             r == claimComputeOperation(ops[t], "committing")
  <1>1. /\ w.pc = "findTemplate" /\ w.op = w.req /\ ~Exists(ops[w.op]) /\ ask[w.op] = "none" /\ w.dir = Nil /\ TemplateAsked
        /\ \/ Kind(w.req) = "clone" /\ DOMAIN w.saw = {"tmpl"}
           \/ Kind(w.req) = "destroy" /\ DOMAIN w.saw = {"m", "snaps", "tmpl"} /\ w.saw.snaps \subseteq Snapshots
    <2>1. w.pc = "findTemplate" BY Zenon DEF findCommittedTemplate, At
    <2> QED BY <1>0, <2>1, Zenon DEF Place, Beginning, Relies
  <1>2. Moves(l) BY Zenon DEF findCommittedTemplate, Moves, Try, Done, FlowInv, Handling
  <1>u. UNCHANGED <<ask, pve>> BY Zenon DEF findCommittedTemplate, world
  <1>3. CASE Cardinality(findTemplateRecord) # 1
    <2>1. UNCHANGED ops /\ h' = [h EXCEPT ![l] = Idle] BY <1>3, Zenon DEF findCommittedTemplate, Done
    <2> QED BY <1>0, <1>2, <1>u, <2>1, IdleMove, Zenon
  <1>4. CASE Cardinality(findTemplateRecord) = 1 /\ Committed(t)
    <2>1. /\ UNCHANGED <<ops, ask, pve>>
          /\ h'[l] = [w EXCEPT !.pc = IF Kind(w.req) = "clone" THEN "cloneNew" ELSE "new", !.saw.tmpl = t]
      <3>1. UNCHANGED ops /\ h' = [h EXCEPT ![l] = [w EXCEPT !.pc = IF Kind(w.req) = "clone" THEN "cloneNew" ELSE "new", !.saw.tmpl = t]]
        BY <1>4, Zenon DEF findCommittedTemplate
      <3> QED BY <1>0, <1>u, <3>1, Zenon
    <2>2. t \in Templates BY <1>1, <1>4, TheTemplate, Zenon
    <2> HIDE DEF t
    <2>3. /\ HandlerShape(h'[l]) /\ h'[l].pc = (IF Kind(w.req) = "clone" THEN "cloneNew" ELSE "new")
          /\ h'[l].op = w.req /\ h'[l].req = w.req /\ h'[l].saw = [w.saw EXCEPT !.tmpl = t] /\ h'[l].dir = Nil
      BY <1>s, <1>1, <2>1, Zenon DEF HandlerShape, Fields
    <2>4. Kind(w.req) = "destroy" => Payload(w.req, h'[l].saw)
      BY <1>1, <2>2, <2>3, Zenon DEF Payload
    <2>5. Place(l, h'[l], ops'[w.req], ask'[w.req], ops'[w.req])
      BY <1>0, <1>1, <2>1, <2>3, <2>4, Zenon DEF Place, Beginning, Recovers, Saw
    <2>6. Relies(h[l])'
      BY <1>1, <2>3, Zenon DEF Relies, Recovers
    <2>7. Good(l)' BY <1>0, <2>3, <2>5, <2>6, Zenon DEF Good
    <2> QED BY <1>0, <1>2, <2>1, <2>7, MoveInv, Zenon
  <1>5. CASE Cardinality(findTemplateRecord) = 1 /\ ~Committed(t) /\ ~Claimable(ops[t], "template", {"prepared"}, "committing")
    <2>1. UNCHANGED ops /\ h' = [h EXCEPT ![l] = Idle] BY <1>5, Zenon DEF findCommittedTemplate, Try
    <2> QED BY <1>0, <1>2, <1>u, <2>1, IdleMove, Zenon
  <1>6. CASE Cardinality(findTemplateRecord) = 1 /\ ~Committed(t) /\ Claimable(ops[t], "template", {"prepared"}, "committing")
    <2>1. /\ ops' = [ops EXCEPT ![t] = r] /\ UNCHANGED <<ask, pve>>
          /\ h'[l] = [w EXCEPT !.pc = "check", !.op = t, !.dir = "commit", !.key = <<"recover", t>>]
      <3>1. /\ ops' = [ops EXCEPT ![t] = r]
            /\ h' = [h EXCEPT ![l] = [w EXCEPT !.pc = "check", !.op = t, !.dir = "commit", !.key = <<"recover", t>>]]
        BY <1>6, Zenon DEF findCommittedTemplate, Try
      <3> QED BY <1>0, <1>u, <3>1, Zenon
    <2>2. t \in Templates /\ t \in Ids /\ t \in TwoPhase /\ ask[t] = "commit" /\ Exists(ops[t]) /\ Row(t, ops[t]) /\ InForce(ops[t])
      BY <1>1, <1>6, TheTemplate
    <2>3. Claimable(ops[t], "template", {"prepared"}, "committing") BY <1>6, Zenon
    <2> HIDE DEF t
    <2>4. Row(t, r) /\ Exists(r) /\ DirOf(r.phase) = "commit" /\ r.slot = ops[t].slot /\ DirOf(ops[t].phase) \in {"open", "commit"}
      BY <2>2, <2>3, Zenon DEF claimComputeOperation, Claimable, Running, Row, RowFields, DirOf, Exists, TwoPhase, Unended, Ended
    <2> HIDE DEF r
    <2>5. RowChange(l, t, r)
      BY <2>1, <2>2, <2>4, Zenon DEF RowChange, AskRow, AskOf, Active
    <2>6. /\ HandlerShape(h'[l]) /\ h'[l].pc = "check"
          /\ h'[l].op = t /\ h'[l].req = w.req /\ h'[l].saw = w.saw /\ h'[l].dir = "commit"
      BY <1>s, <2>1, Zenon DEF HandlerShape, Fields
    <2>7. t # w.req BY <1>1, <2>2, Zenon DEF Templates
    <2>8. ops'[w.req] = ops[w.req] /\ ops'[t] = r /\ TemplateAsked' /\ ask' = ask
      BY <1>0, <1>1, <2>1, <2>2, <2>7, Zenon DEF TemplateAsked
    <2>9. Finishing(h'[l], r, ask[t])
      BY <2>2, <2>4, <2>6, Zenon DEF Finishing, FinishAt, AskOf
    <2>10. Place(l, h'[l], ops'[t], ask'[t], ops'[w.req])
      BY <1>0, <1>1, <2>2, <2>6, <2>8, <2>9, Zenon DEF Place, Recovers, Saw
    <2>11. Relies(h[l])'
      BY <2>6, <2>8, Zenon DEF Relies
    <2>12. Good(l)' BY <1>0, <2>6, <2>10, <2>11, Zenon DEF Good
    <2> QED BY <1>2, <2>2, <2>5, <2>12, RowInv, Zenon
  <1> QED BY <1>3, <1>4, <1>5, <1>6, Zenon

\* The cardinality of a set with at most one member, for the one template and the
\* one slot: Cardinality's own recursion ends at once.
LEMMA FewMembers ==
  ASSUME NEW S, \A i, j \in S : i = j
  PROVE  Cardinality(S) = IF S = {} THEN 0 ELSE 1
  <1> DEFINE Left(T) == T \ {CHOOSE x : x \in T}
             Count(f) == [T \in SUBSET S |-> IF T = {} THEN 0 ELSE 1 + f[Left(T)]]
             CS == CHOOSE f : f = Count(f)
             g == [T \in SUBSET S |-> IF T = {} THEN 0 ELSE 1]
  <1>0. Cardinality(S) = CS[S] BY DEF Cardinality
  <1>1. \A T \in SUBSET S : T # {} => Left(T) = {}
    BY Zenon
  <1> HIDE DEF Left
  <1>2. g[{}] = 0 BY Zenon
  <1>3. g = Count(g)
    <2>1. ASSUME NEW T \in SUBSET S PROVE (IF T = {} THEN 0 ELSE 1) = (IF T = {} THEN 0 ELSE 1 + g[Left(T)])
      BY <1>1, <1>2
    <2> QED BY <2>1, Zenon
  <1> HIDE DEF g
  <1>4. CS = Count(CS) BY <1>3, Zenon
  <1> HIDE DEF CS
  <1>5. \A T \in SUBSET S : CS[T] = IF T = {} THEN 0 ELSE 1 + CS[Left(T)] 
    <2>1. \A T \in SUBSET S : Count(CS)[T] = IF T = {} THEN 0 ELSE 1 + CS[Left(T)]  BY Zenon
    <2> HIDE DEF Count
    <2> QED BY <1>4, <2>1, Zenon
  <1>6. CS[{}] = 0 BY <1>5, Zenon
  <1> QED BY <1>0, <1>1, <1>5, <1>6

\* The steps of a template conversion and of a destroy.
LEMMA SourceInv == ASSUME FlowInv, NEW l \in VMs, ~At(l, "idle"), SourceStep(l) PROVE FlowInv'
  <1>1. Cardinality(findTemplateRecord) = 1 => findTemplateRecord # {}
    <2>1. Cardinality({}) = 0 BY FewMembers, Zenon
    <2> QED BY <2>1
  <1>2. CASE captureSnapshotRefs(l) \/ prepareNew(l) \/ detachSourcePorts(l) \/ prepareReply(l) \/ failSourcePrepare(l)
    BY <1>2, SourcePrepareInv, Zenon
  <1>3. CASE restoreSourcePorts(l) \/ restoreEnd(l) \/ finishCheck(l) \/ deleteDetachedSourcePorts(l) \/ deleteEnd(l)
    BY <1>3, SourceMoveInv, Zenon
  <1>4. CASE consumeTemplateBlueprint(l) \/ deleteCapturedSnapshots(l) BY <1>4, ConsumeInv, Zenon
  <1>5. CASE finishEnd(l) BY <1>5, FinishEndInv, Zenon
  <1>6. CASE findCommittedTemplate(l) BY <1>1, <1>6, FindTemplateInv, Zenon
  <1> QED BY <1>2, <1>3, <1>4, <1>5, <1>6, Zenon DEF SourceStep

\* Every step.
LEMMA FlowNext == FlowInv /\ [Next]_vars => FlowInv'
  <1> SUFFICES ASSUME FlowInv, [Next]_vars PROVE FlowInv' BY Zenon
  <1>1. ASSUME NEW l \in Handlers, Step(l) PROVE FlowInv'
    <2>1. CASE l \in VMs
      BY <1>1, <2>1, ProvisionInv, RemoveInv, SnapshotInv, SourceInv, CloneInv, Zenon DEF Step
    <2>2. CASE l \in Callers
      BY <1>1, <2>2, ProvisionInv, RemoveInv, CallerSteps, Zenon DEF Step
    <2> QED BY <2>1, <2>2, Kinds, Zenon
  <1>2. ASSUME NEW p \in Ports, ReportBound(p) \/ takePort(p) \/ Sweep(p) PROVE FlowInv'
    BY <1>2, QuietInv, Zenon DEF ReportBound, takePort, Sweep, world
  <1>3. CASE UNCHANGED vars BY <1>3, QuietInv, Zenon DEF vars
  <1> QED BY <1>1, <1>2, <1>3, FailInv, APIInv, RequestInv, PVEInv, RestartInv, Zenon DEF Next

\* The rows, the slots and the places of the handlers are in order in every
\* reachable state.
THEOREM FlowHolds == Spec => []FlowInv
  BY FlowInit, FlowNext, PTL DEF Spec

\* SlotHeldOnce for every set of transactions: createComputeOperation never gives
\* a VM a second active transaction.
THEOREM SlotHeldOnceHolds == Spec => []SlotHeldOnce
  <1>1. FlowInv => SlotHeldOnce
    <2>1. ASSUME FlowInv, NEW vm
          PROVE  Cardinality({id \in Ids : Tx[id].vm = vm /\ Active(ops[id])}) <= 1
      <3>1. \A i, j \in {id \in Ids : Tx[id].vm = vm /\ Active(ops[id])} : i = j
        BY <2>1, Zenon DEF FlowInv, Slots
      <3> DEFINE S == {id \in Ids : Tx[id].vm = vm /\ Active(ops[id])}
      <3>2. Cardinality(S) \in {0, 1} BY <3>1, FewMembers, Zenon
      <3> HIDE DEF S
      <3>3. Cardinality(S) <= 1 BY <3>2
      <3> QED BY <3>3, Zenon DEF S
    <2> QED BY <2>1, Zenon DEF SlotHeldOnce
  <1> QED BY <1>1, FlowHolds, PTL

\* Agreed for every set of transactions: a row goes only the way that PVE asked,
\* whichever handler claims, resumes, compensates or recovers it.
THEOREM AgreedHolds == Spec => []Agreed
  <1>1. FlowInv => Agreed
    BY Kinds, Zenon DEF FlowInv, Rows, AskRow, Agreed, DirOf, AskOf
  <1> QED BY <1>1, FlowHolds, PTL

\* The invariant of the rows: provisioning (reserve, create, allocate, complete) and
\* deleting (release, remove, purge) of one port by several handlers at once.
THEOREM RowsHold == Spec => []RowsInv
  <1>1. Init => RowsInv BY RowsInit, Zenon
  <1>2. FlowInv /\ RowsInv /\ [Next]_vars => RowsInv' BY RowsNext, RowsStutter, Zenon
  <1> QED BY <1>1, <1>2, FlowHolds, PTL DEF Spec

\* Backed, for every set of ports, handlers and transactions.
THEOREM BackedHolds == Spec => []Backed
  <1>1. RowsInv => Backed BY Zenon DEF RowsInv, BackedInv, Backed, Attested, Tokened
  <1> QED BY <1>1, RowsHold, PTL

\* The invariant of the detached ports.
THEOREM DetachHolds == Spec => []DetachInv
  <1>1. Init => DetachInv BY DetachInit, Zenon
  <1>2. FlowInv /\ RowsInv /\ DetachInv /\ [Next]_vars => DetachInv' BY DetachNext, Zenon
  <1> QED BY <1>1, <1>2, FlowHolds, RowsHold, PTL DEF Spec

\* TakenStays, when users attach ports to a VM that is neither the source nor
\* the target of a clone.
THEOREM TakenStaysHolds == Spec => [](Guest => TakenStays)
  <1>1. DetachInv => (Guest => TakenStays) BY Zenon DEF DetachInv, TakenInv, AttachedLive, TakenStays, Guest
  <1> QED BY <1>1, DetachHolds, PTL

============================================================================
