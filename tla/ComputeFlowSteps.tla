------------------------- MODULE ComputeFlowSteps --------------------------
(***************************************************************************)
(* The other steps (provisioning, removing, clones, requests, failures)    *)
(* keep the invariant of ComputeFlow.                                      *)
(***************************************************************************)
EXTENDS ComputeFlow

USE DEF Saw, SnapPlaces, NewPlaces, PreparePlaces, FinishPlaces, ClonePlaces, RemovePlaces, ProvisionPlaces, DropPlaces

\* The record x of a handler that goes on with the same port.
Onward(w, x, pcs) == Same(w, x) /\ x.i = w.i /\ x.port = w.port /\ x.pc \in pcs

\* A step of a handler that provisions a port, for an API request or a clone.
LEMMA ProvisionMove ==
  ASSUME FlowInv, NEW l \in Handlers, Moves(l), UNCHANGED <<ops, ask, pve>>, h[l].pc \in ClonePlaces,
         \/ h[l].op = Nil /\ h'[l] = Idle
         \/ Onward(h[l], h'[l], ProvisionPlaces)
         \/ h[l].op # Nil /\ Onward(h[l], h'[l], {"attach", "compensate"})
  PROVE  FlowInv'
  <1> DEFINE w == h[l]
             x == h'[l]
  <1>1. CASE l \in Callers
    <2>1. CallerPlace(w) BY <1>1, Zenon DEF FlowInv, Handling, Good
    <2>2. Good(l)' BY <1>1, <2>1, IdleGood, Zenon DEF Good, CallerPlace, Onward, Same
    <2> QED BY <2>2, MoveInv, Zenon
  <1>2. CASE l \in VMs
    <2>1. /\ Place(l, w, ops[w.op], ask[w.op], ops[w.req]) /\ w.op \in Ids /\ ~At(l, "idle")
      BY <1>2, Acting, Zenon DEF At
    <2>2. w.op # Nil BY <2>1, TxAssumption, ZenonT(20)
    <2>3. PrepareAt(w, ops[w.op]) BY <2>1, Zenon DEF Place, Preparing
    <2>4. Onward(w, x, ProvisionPlaces \cup {"attach", "compensate"})
      BY <2>2, Zenon DEF Onward
    <2>5. PrepareAt(x, ops[w.op]) BY <2>3, <2>4, Zenon DEF PrepareAt, Onward, Same
    <2> QED BY <1>2, <2>4, <2>5, PrepareMove, Zenon DEF Onward
  <1> QED BY <1>1, <1>2, Kinds, Zenon

\* The steps of provisioning.
LEMMA ProvisionInv == ASSUME FlowInv, NEW l \in Handlers, ~At(l, "idle"), ProvisionStep(l) PROVE FlowInv'
  <1> DEFINE w == h[l]
  <1>s. HandlerShape(w) /\ l \in DOMAIN h /\ DOMAIN h = Handlers BY Zenon DEF FlowInv, Handling, Good
  <1>1. CASE beginPortProvision(l)
    <2>1. w.pc = "provision" /\ UNCHANGED <<ops, ask, pve>> BY <1>1, Zenon DEF beginPortProvision, At, world
    <2>2. \/ h'[l] = [w EXCEPT !.pc = "attach"] \/ h'[l] = [w EXCEPT !.pc = "reserve"]
      BY <1>s, <1>1, Zenon DEF beginPortProvision, Goto
    <2>3. Onward(w, h'[l], {"attach", "reserve"})
      BY <1>s, <2>2, Zenon DEF Onward, Same, HandlerShape, Fields
    <2>4. Moves(l) BY <1>s, <1>1, Zenon DEF beginPortProvision, Goto, Moves
    <2>5. w.op # Nil
      BY <2>1, Kinds, TxAssumption, Acting, Zenon DEF FlowInv, Handling, Good, CallerPlace, At
    <2> QED BY <2>1, <2>3, <2>4, <2>5, ProvisionMove, Zenon DEF Onward
  <1>2. CASE reserveProvisionAddress(l)
    <2>1. w.pc = "reserve" /\ UNCHANGED <<ops, ask, pve>> /\ Moves(l)
      BY <1>s, <1>2, Zenon DEF reserveProvisionAddress, At, world, Moves
    <2>2. \/ h'[l] = [w EXCEPT !.pc = "create", !.addr = allocs[w.port].addr]
          \/ h'[l] = [w EXCEPT !.pc = "pick", !.used = usedProvisionAddresses(w.port)]
      BY <1>s, <1>2, Zenon DEF reserveProvisionAddress
    <2>3. CASE h'[l] = [w EXCEPT !.pc = "create", !.addr = allocs[w.port].addr]
      <3>1. Onward(w, h'[l], ProvisionPlaces) BY <1>s, <2>3, Zenon DEF Onward, Same, HandlerShape, Fields
      <3> QED BY <2>1, <3>1, ProvisionMove, Zenon
    <2>4. CASE h'[l] = [w EXCEPT !.pc = "pick", !.used = usedProvisionAddresses(w.port)]
      <3>1. Onward(w, h'[l], ProvisionPlaces) BY <1>s, <2>4, Zenon DEF Onward, Same, HandlerShape, Fields
      <3> QED BY <2>1, <3>1, ProvisionMove, Zenon
    <2> QED BY <2>2, <2>3, <2>4, Zenon
  <1>3. CASE pickAddress(l)
    <2>1. w.pc = "pick" /\ UNCHANGED <<ops, ask, pve>> /\ Moves(l)
      BY <1>s, <1>3, Zenon DEF pickAddress, At, world, Moves
    <2>2. \E a : \/ h'[l] = [w EXCEPT !.pc = "create", !.addr = a, !.used = {}]
                 \/ h'[l] = [w EXCEPT !.pc = "failProvision", !.used = {}]
                 \/ h'[l] = [w EXCEPT !.used = @ \cup {a}]
      BY <1>s, <1>3, Zenon DEF pickAddress, ProvisionError
    <2>3. PICK a : \/ h'[l] = [w EXCEPT !.pc = "create", !.addr = a, !.used = {}]
                   \/ h'[l] = [w EXCEPT !.pc = "failProvision", !.used = {}]
                   \/ h'[l] = [w EXCEPT !.used = @ \cup {a}]
      BY <2>2, Zenon
    <2>4. CASE h'[l] = [w EXCEPT !.pc = "create", !.addr = a, !.used = {}]
      <3>1. Onward(w, h'[l], ProvisionPlaces) BY <1>s, <2>4, Zenon DEF Onward, Same, HandlerShape, Fields
      <3> QED BY <2>1, <3>1, ProvisionMove, Zenon
    <2>5. CASE h'[l] = [w EXCEPT !.pc = "failProvision", !.used = {}]
      <3>1. Onward(w, h'[l], ProvisionPlaces) BY <1>s, <2>5, Zenon DEF Onward, Same, HandlerShape, Fields
      <3> QED BY <2>1, <3>1, ProvisionMove, Zenon
    <2>6. CASE h'[l] = [w EXCEPT !.used = @ \cup {a}]
      <3>1. Onward(w, h'[l], ProvisionPlaces) BY <1>s, <2>1, <2>6, Zenon DEF Onward, Same, HandlerShape, Fields
      <3> QED BY <2>1, <3>1, ProvisionMove, Zenon
    <2> QED BY <2>3, <2>4, <2>5, <2>6, Zenon
  <1>4. CASE createProvisionPort(l) \/ rollbackProvisionReservation(l) \/ allocateProvisionAddress(l)
    <2>1. w.pc \in {"create", "rollback", "allocate"} /\ UNCHANGED <<ops, ask, pve>> /\ Moves(l)
      BY <1>s, <1>4, Zenon DEF createProvisionPort, rollbackProvisionReservation, allocateProvisionAddress, At, world, Moves, Try
    <2>2. PICK pc \in {"allocate", "rollback", "failProvision", "giveBack", "complete"} : h'[l] = [w EXCEPT !.pc = pc]
      BY <1>s, <1>4, Zenon DEF createProvisionPort, rollbackProvisionReservation, allocateProvisionAddress, Try, ProvisionError
    <2>3. Onward(w, h'[l], ProvisionPlaces) BY <1>s, <2>2, Zenon DEF Onward, Same, HandlerShape, Fields
    <2> QED BY <2>1, <2>3, ProvisionMove, Zenon
  <1>5. CASE giveBack(l)
    <2>1. w.pc = "giveBack" /\ UNCHANGED <<ops, ask, pve>> /\ Moves(l)
      BY <1>s, <1>5, Zenon DEF giveBack, At, world, Moves, Try
    <2>2. \/ h'[l] = [w EXCEPT !.pc = "giveBackPurge", !.rev = allocs[w.port].rev + 1]
          \/ h'[l] = [w EXCEPT !.pc = "failProvision"]
      BY <1>s, <1>5, Zenon DEF giveBack, Try, ProvisionError
    <2>3. CASE h'[l] = [w EXCEPT !.pc = "giveBackPurge", !.rev = allocs[w.port].rev + 1]
      <3>1. Onward(w, h'[l], ProvisionPlaces) BY <1>s, <2>3, Zenon DEF Onward, Same, HandlerShape, Fields
      <3> QED BY <2>1, <3>1, ProvisionMove, Zenon
    <2>4. CASE h'[l] = [w EXCEPT !.pc = "failProvision"]
      <3>1. Onward(w, h'[l], ProvisionPlaces) BY <1>s, <2>4, Zenon DEF Onward, Same, HandlerShape, Fields
      <3> QED BY <2>1, <3>1, ProvisionMove, Zenon
    <2> QED BY <2>2, <2>3, <2>4, Zenon
  <1>6. CASE giveBackPurge(l)
    <2>1. w.pc = "giveBackPurge" /\ UNCHANGED <<ops, ask, pve>> /\ Moves(l)
      BY <1>s, <1>6, Zenon DEF giveBackPurge, At, world, Moves
    <2>2. h'[l] = [w EXCEPT !.pc = "failProvision", !.rev = 0]
      BY <1>s, <1>6, Zenon DEF giveBackPurge, ProvisionError, HandlerShape
    <2>3. Onward(w, h'[l], ProvisionPlaces) BY <1>s, <2>2, Zenon DEF Onward, Same, HandlerShape, Fields
    <2> QED BY <2>1, <2>3, ProvisionMove, Zenon
  <1>7. CASE completePortProvision(l) \/ failPortProvision(l)
    <2>1. w.pc \in {"complete", "failProvision"} /\ UNCHANGED <<ops, ask, pve>> /\ Moves(l)
      BY <1>s, <1>7, Zenon DEF completePortProvision, failPortProvision, At, world, Moves
    <2> DEFINE v == [w EXCEPT !.addr = Nil]
    <2>2. h'[l] = Provisioned(v) \/ h'[l] = NotProvisioned(v)
      BY <1>s, <1>7, Zenon DEF completePortProvision, failPortProvision
    <2>3. Same(w, v) /\ v.i = w.i /\ v.port = w.port BY <1>s, Zenon DEF Same, HandlerShape, Fields
    <2> HIDE DEF v
    <2>4. (w.op = Nil /\ h'[l] = Idle) \/ (w.op # Nil /\ \E pc \in {"attach", "compensate"} : h'[l] = [v EXCEPT !.pc = pc])
      BY <2>2, <2>3, Zenon DEF Provisioned, NotProvisioned, Same
    <2>5. CASE w.op = Nil /\ h'[l] = Idle BY <2>1, <2>5, ProvisionMove, Zenon
    <2>6. CASE w.op # Nil /\ \E pc \in {"attach", "compensate"} : h'[l] = [v EXCEPT !.pc = pc]
      <3>1. Onward(w, h'[l], {"attach", "compensate"}) BY <2>3, <2>6, Zenon DEF Onward, Same, HandlerShape, Fields
      <3> QED BY <2>1, <2>6, <3>1, ProvisionMove, Zenon
    <2> QED BY <2>4, <2>5, <2>6, Zenon
  <1> QED BY <1>1, <1>2, <1>3, <1>4, <1>5, <1>6, <1>7, Zenon DEF ProvisionStep

\* A step of a handler that removes a port, for an API request, a source VM or
\* a clone.
LEMMA RemoveMove ==
  ASSUME FlowInv, NEW l \in Handlers, Moves(l), UNCHANGED <<ops, ask, pve>>,
         h[l].pc \in RemovePlaces \/ (l \in VMs /\ h[l].pc \in DropPlaces \ {"drop"}),
         \/ h[l].op = Nil /\ h'[l] = Idle
         \/ h[l].op = Nil /\ Onward(h[l], h'[l], RemovePlaces)
         \/ h[l].op # Nil /\ Elsewhere(h[l], h'[l], RemovePlaces \cup (IF h[l].pc \in DropPlaces THEN DropPlaces ELSE {}), h[l].port),
         h'[l].pc \in {"dropAlloc", "dropAllocPurge"} => h'[l].rev \in {0, 1, 2}
  PROVE  FlowInv'
  <1> DEFINE w == h[l]
             x == h'[l]
  <1>1. CASE l \in Callers
    <2>1. CallerPlace(w) BY <1>1, Kinds, Zenon DEF FlowInv, Handling, Good
    <2>2. Good(l)' BY <1>1, <2>1, IdleGood, ZenonT(20) DEF Good, CallerPlace, Onward, Same
    <2> QED BY <2>2, MoveInv, Zenon
  <1>2. CASE l \in VMs
    <2>1. /\ Place(l, w, ops[w.op], ask[w.op], ops[w.req]) /\ w.op \in Ids /\ ~At(l, "idle")
      BY <1>2, Acting, ZenonT(20) DEF At
    <2>2. w.op # Nil BY <2>1, TxAssumption, Zenon
    <2>3. FinishAt(w) /\ (Recovers(w) => Kind(w.op) = "template" /\ w.pc \in RemovePlaces)
      BY <2>1, Zenon DEF Place, Finishing, Templates
    <2>4. Elsewhere(w, x, RemovePlaces \cup (IF w.pc \in DropPlaces THEN DropPlaces ELSE {}), w.port)
      BY <2>2, Zenon
    <2>5. /\ Same(w, x) /\ x.pc \in FinishPlaces /\ x.pc # "consume"
          /\ Recovers(w) => x.pc \in RemovePlaces \cup {"check", "delete", "end"}
      BY <2>3, <2>4, Zenon DEF Elsewhere
    <2>6. FinishAt(x) BY <2>3, <2>4, Zenon DEF FinishAt, Elsewhere, Same
    <2> QED BY <1>2, <2>5, <2>6, FinishMove, ZenonT(20)
  <1> QED BY <1>1, <1>2, Kinds, Zenon

\* The steps of removing a port.
LEMMA RemoveInv == ASSUME FlowInv, NEW l \in Handlers, ~At(l, "idle"), RemoveStep(l) PROVE FlowInv'
  <1> DEFINE w == h[l]
  <1>s. HandlerShape(w) /\ l \in DOMAIN h /\ DOMAIN h = Handlers BY Zenon DEF FlowInv, Handling, Good
  <1>1. w.pc \in RemovePlaces /\ UNCHANGED <<ops, ask, pve>> /\ Moves(l)
    BY <1>s, Zenon DEF RemoveStep, releasePortAllocations, purgeAllocation, removePort, purgePort, At, world, Moves, Try, Goto
  <1>2. \E rev, pc : \/ h'[l] = NotRemoved(w) \/ h'[l] = Removed(w)
                     \/ h'[l] = [w EXCEPT !.pc = "releasePurge", !.arev = rev]
                     \/ h'[l] = [w EXCEPT !.pc = "remove", !.arev = rev]
                     \/ h'[l] = [w EXCEPT !.pc = "remove"]
                     \/ h'[l] = [w EXCEPT !.pc = "purge", !.rev = rev]
    <2>1. CASE releasePortAllocations(l) BY <1>s, <2>1, Zenon DEF releasePortAllocations, Try, Goto
    <2>2. CASE purgeAllocation(l) BY <1>s, <2>2, Zenon DEF purgeAllocation, Try
    <2>3. CASE removePort(l) BY <1>s, <2>3, Zenon DEF removePort, Try
    <2>4. CASE purgePort(l) BY <1>s, <2>4, Zenon DEF purgePort, Try
    <2> QED BY <2>1, <2>2, <2>3, <2>4, Zenon DEF RemoveStep
  <1>3. PICK rev : \/ h'[l] = NotRemoved(w) \/ h'[l] = Removed(w)
                   \/ h'[l] = [w EXCEPT !.pc = "releasePurge", !.arev = rev]
                   \/ h'[l] = [w EXCEPT !.pc = "remove", !.arev = rev]
                   \/ h'[l] = [w EXCEPT !.pc = "remove"]
                   \/ h'[l] = [w EXCEPT !.pc = "purge", !.rev = rev]
    BY <1>2, Zenon
  <1>4. CASE h'[l] = NotRemoved(w) \/ h'[l] = Removed(w)
    <2>1. w.op = Nil => h'[l] = Idle BY <1>s, <1>4, NextPortShape, Zenon
    <2>4. w.op # Nil => Elsewhere(w, h'[l], {}, w.port) BY <1>s, <1>4, NextPortShape, Zenon
    <2>3. h'[l].pc \notin {"dropAlloc", "dropAllocPurge"} BY <2>1, <2>4, IdleGood, Zenon DEF Elsewhere
    <2>2. w.op # Nil => Elsewhere(w, h'[l], RemovePlaces, w.port) BY <1>s, <1>4, NextPortShape, Zenon
    <2> QED BY <1>1, <2>1, <2>2, <2>3, RemoveMove, Zenon
  <1>5. ASSUME Onward(w, h'[l], RemovePlaces) PROVE FlowInv'
    <2>1. Elsewhere(w, h'[l], RemovePlaces, w.port) BY <1>5, ZenonT(20) DEF Onward, Elsewhere
    <2>2. h'[l].pc \notin {"dropAlloc", "dropAllocPurge"} BY <1>5, Zenon DEF Onward
    <2> QED BY <1>1, <1>5, <2>1, <2>2, RemoveMove, Zenon
  <1>6. CASE h'[l] = [w EXCEPT !.pc = "releasePurge", !.arev = rev]
    BY <1>s, <1>5, <1>6, Zenon DEF Onward, Same, HandlerShape, Fields
  <1>7. CASE h'[l] = [w EXCEPT !.pc = "remove", !.arev = rev]
    BY <1>s, <1>5, <1>7, Zenon DEF Onward, Same, HandlerShape, Fields
  <1>8. CASE h'[l] = [w EXCEPT !.pc = "remove"]
    BY <1>s, <1>5, <1>8, Zenon DEF Onward, Same, HandlerShape, Fields
  <1>9. CASE h'[l] = [w EXCEPT !.pc = "purge", !.rev = rev]
    BY <1>s, <1>5, <1>9, Zenon DEF Onward, Same, HandlerShape, Fields
  <1> QED BY <1>3, <1>4, <1>6, <1>7, <1>8, <1>9, Zenon

\* The steps that delete a port of a clone.
LEMMA DropInv ==
  ASSUME FlowInv, NEW l \in VMs, ~At(l, "idle"),
         \/ deletePreparingClonePort(l) \/ deleteOwnedComputePort(l)
         \/ deletePreparingCloneAllocation(l) \/ purgeCloneAllocation(l) \/ dropEnd(l)
  PROVE  FlowInv'
  <1> DEFINE w == h[l]
  <1>0. /\ Place(l, w, ops[w.op], ask[w.op], ops[w.req]) /\ Relies(w) /\ HandlerShape(w)
        /\ w.op \in Ids /\ w.req \in Ids /\ Tx[w.req].vm = l
        /\ l \in Handlers /\ l \notin Callers /\ l \in DOMAIN h
        /\ ops[w.op] = NoOperation \/ Row(w.op, ops[w.op])
        /\ AskRow(w.op, ops[w.op], ask[w.op])
        /\ DOMAIN ops = Ids /\ DOMAIN ask = Ids
    BY Acting, Zenon
  <1>s. HandlerShape(w) BY <1>0, Zenon
  <1>1. /\ w.pc \in DropPlaces /\ Moves(l) /\ UNCHANGED <<ops, ask, pve>> /\ w.op # Nil
        /\ FinishAt(w) /\ Kind(w.op) = "clone" /\ w.dir # "commit" /\ ~Recovers(w)
    <2>1. w.pc \in DropPlaces
      BY Zenon DEF deletePreparingClonePort, deleteOwnedComputePort, deletePreparingCloneAllocation, purgeCloneAllocation, dropEnd, At
    <2>2. Moves(l) /\ UNCHANGED <<ops, ask, pve>>
      BY <1>0, Zenon DEF deletePreparingClonePort, deleteOwnedComputePort, deletePreparingCloneAllocation, purgeCloneAllocation, dropEnd,
         Moves, Try, world, FlowInv, Handling
    <2>3. FinishAt(w) /\ ~Recovers(w) BY <1>0, <2>1, Zenon DEF Place, Finishing
    <2> QED BY <1>0, <2>1, <2>2, <2>3, TxAssumption, Zenon DEF FinishAt
  <1>2. CASE deletePreparingClonePort(l)
    <2> DEFINE p == ClonePort(l)
               v == [w EXCEPT !.port = p, !.key = <<"drop", w.op>>]
    <2>1. w.i \in CloneNICs(w.op) /\ p = <<w.op, w.i>> /\ Same(w, v) /\ v.port = p /\ v.i = w.i
      BY <1>s, <1>2, Zenon DEF deletePreparingClonePort, ClonePort, Same, HandlerShape, Fields
    <2>2. \E rev : \/ h'[l] = NotRemoved(v)
                   \/ h'[l] = [v EXCEPT !.pc = "dropAlloc", !.rev = rev] /\ rev \in {0, 1, 2}
                   \/ h'[l] = [v EXCEPT !.pc = "dropRelease", !.rev = rev]
      <3> DEFINE rr == ports[p]
                 unbind == Present(rr) /\ clonePortAttached(p, l) /\ validateCloneAllocation(p)
                 owned == clonePortAttached(p, l) \/ clonePortDetached(p) \/ clonePortDeletionTombstone(p)
                 provisional == portCanBeDeprovisioned(rr) /\ rr.rev = IF Tombstone(rr) THEN 2 ELSE 1
      <3>1. h'[l] = CASE ~Present(rr) -> [v EXCEPT !.pc = "dropAlloc", !.rev = 0]
                  [] Present(rr) /\ unbind -> [v EXCEPT !.pc = "dropRelease", !.rev = 3]
                  [] Present(rr) /\ clonePortDetached(p) -> [v EXCEPT !.pc = "dropRelease", !.rev = 3]
                  [] Present(rr) /\ clonePortDeletionTombstone(p) -> [v EXCEPT !.pc = "dropRelease", !.rev = 4]
                  [] Present(rr) /\ ~owned /\ provisional -> [v EXCEPT !.pc = "dropAlloc", !.rev = rr.rev]
                  [] OTHER -> NotRemoved(v)
        BY <1>0, <1>2, Zenon DEF deletePreparingClonePort
      <3>2. provisional => rr.rev \in {1, 2} BY Zenon
      <3> HIDE DEF p, v, rr, unbind, owned, provisional
      <3> QED BY <3>1, <3>2, Zenon
    <2> HIDE DEF p, v
    <2>3. PICK rev : \/ h'[l] = NotRemoved(v)
                     \/ h'[l] = [v EXCEPT !.pc = "dropAlloc", !.rev = rev] /\ rev \in {0, 1, 2}
                     \/ h'[l] = [v EXCEPT !.pc = "dropRelease", !.rev = rev]
      BY <2>2, Zenon
    <2>4. Elsewhere(v, h'[l], {"dropAlloc", "dropRelease"}, p) /\ (h'[l].pc = "dropAlloc" => h'[l].rev \in {0, 1, 2})
      <3>1. HandlerShape(v) /\ v.op # Nil BY <1>1, <2>1, Zenon DEF Same
      <3>2. CASE h'[l] = NotRemoved(v)
        <4>1. Elsewhere(v, h'[l], {}, p) BY <3>1, <3>2, NextPortShape, Zenon
        <4> QED BY <4>1, Zenon DEF Elsewhere
      <3>3. CASE h'[l] = [v EXCEPT !.pc = "dropAlloc", !.rev = rev] /\ rev \in {0, 1, 2}
        BY <2>1, <3>1, <3>3, Zenon DEF Elsewhere, Same, HandlerShape, Fields
      <3>4. CASE h'[l] = [v EXCEPT !.pc = "dropRelease", !.rev = rev]
        BY <2>1, <3>1, <3>4, Zenon DEF Elsewhere, Same, HandlerShape, Fields
      <3> QED BY <2>3, <3>2, <3>3, <3>4, ZenonT(20)
    <2>5. Same(w, h'[l]) BY <2>1, <2>4, Zenon DEF Elsewhere, Same
    <2>6. FinishAt(h'[l]) /\ h'[l].pc \in FinishPlaces \ {"consume"}
      BY <1>1, <2>1, <2>4, <2>5, ZenonT(20) DEF FinishAt, Elsewhere, Same
    <2> QED BY <1>1, <2>5, <2>6, FinishMove, ZenonT(20)
  <1>3. ASSUME w.pc # "drop", Elsewhere(w, h'[l], RemovePlaces \cup DropPlaces, w.port),
               h'[l].pc \in {"dropAlloc", "dropAllocPurge"} => h'[l].rev \in {0, 1, 2}
        PROVE FlowInv'
    BY <1>0, <1>1, <1>3, RemoveMove, Zenon
  <1>a. ASSUME w.pc # "drop", h'[l] \in {NotRemoved(w), NextPort(w)} PROVE FlowInv'
    <2>0. Elsewhere(w, h'[l], {}, w.port)
      <3>1. w.op # Nil BY <1>1, Zenon
      <3>2. Elsewhere(w, NextPort(w), {}, w.port) /\ Elsewhere(w, NotRemoved(w), {}, w.port) BY <3>1, <1>s, NextPortShape, Zenon
      <3> QED BY <1>a, <3>2, Zenon
    <2>1. h'[l].pc \notin {"dropAlloc", "dropAllocPurge"} BY <2>0, Zenon DEF Elsewhere
    <2>2. Elsewhere(w, h'[l], RemovePlaces \cup DropPlaces, w.port) BY <2>0, Zenon DEF Elsewhere
    <2> QED BY <1>3, <1>a, <2>1, <2>2, ZenonT(20)
  <1>4. CASE deleteOwnedComputePort(l)
    <2>0. w.pc # "drop" BY <1>4, Zenon DEF deleteOwnedComputePort, At
    <2>1. \/ h'[l] = NotRemoved(w)
          \/ h'[l] = [w EXCEPT !.pc = IF w.rev = 4 THEN "purge" ELSE "release"]
      BY <1>0, <1>4, Zenon DEF deleteOwnedComputePort, Try
    <2>2. CASE h'[l] = [w EXCEPT !.pc = IF w.rev = 4 THEN "purge" ELSE "release"]
      BY <1>s, <1>3, <2>0, <2>2, Zenon DEF Elsewhere, Same, HandlerShape, Fields
    <2> QED BY <1>a, <2>0, <2>1, <2>2, Zenon
  <1>5. CASE deletePreparingCloneAllocation(l) \/ purgeCloneAllocation(l)
    <2>0. w.pc \in {"dropAlloc", "dropAllocPurge"} BY <1>5, Zenon DEF deletePreparingCloneAllocation, purgeCloneAllocation, At
    <2>1. w.rev \in {0, 1, 2} BY <1>1, <2>0, Zenon DEF FinishAt
    <2>2. \E rev : \/ h'[l] = NotRemoved(w) \/ h'[l] = AfterAddress(w)
                   \/ h'[l] = [w EXCEPT !.pc = "dropAllocPurge", !.arev = rev]
      BY <1>0, <1>5, Zenon DEF deletePreparingCloneAllocation, purgeCloneAllocation, Try
    <2>3. h'[l] = AfterAddress(w) => h'[l] = NextPort(w) \/ \E pc \in {"remove", "purge"} : h'[l] = [w EXCEPT !.pc = pc, !.arev = 0]
      BY <2>1, Zenon DEF AfterAddress
    <2>4. CASE \E pc \in {"remove", "purge"} : h'[l] = [w EXCEPT !.pc = pc, !.arev = 0]
      BY <1>s, <1>3, <2>0, <2>4, Zenon DEF Elsewhere, Same, HandlerShape, Fields
    <2>5. CASE \E rev : h'[l] = [w EXCEPT !.pc = "dropAllocPurge", !.arev = rev]
      BY <1>s, <1>3, <2>0, <2>1, <2>5, Zenon DEF Elsewhere, Same, HandlerShape, Fields
    <2> QED BY <1>a, <2>0, <2>2, <2>3, <2>4, <2>5, Zenon
  <1>6. CASE dropEnd(l)
    <2>1. h'[l] = Idle \/ h'[l] = [w EXCEPT !.pc = "end"] BY <1>0, <1>6, ZenonT(20) DEF dropEnd, Try
    <2>2. CASE h'[l] = Idle BY <1>0, <1>1, <2>2, IdleMove, ZenonT(20)
    <2>3. CASE h'[l] = [w EXCEPT !.pc = "end"]
      <3>1. Same(w, h'[l]) /\ h'[l].pc = "end" BY <1>s, <2>3, ZenonT(20) DEF HandlerShape, Fields, Same
      <3>2. FinishAt(h'[l]) BY <1>1, <3>1, Zenon DEF FinishAt, Same
      <3> QED BY <1>1, <3>1, <3>2, FinishMove, Zenon
    <2> QED BY <2>1, <2>2, <2>3, Zenon
  <1> QED BY <1>2, <1>4, <1>5, <1>6, ZenonT(20)

\* The next NIC of a clone's prepare.
LEMMA ProvisionNICShape ==
  ASSUME NEW w, HandlerShape(w), NEW i \in Nat, NEW x, x = ProvisionNIC(w, i)
  PROVE  /\ Same(w, x) /\ x.i = i
         /\ \/ i \in CloneNICs(w.op) /\ x.pc = "provision" /\ x.port = <<w.op, i>>
            \/ i \notin CloneNICs(w.op) /\ x.pc = "verify"
  BY Zenon DEF ProvisionNIC, Same, HandlerShape, Fields

\* The steps of a clone's prepare.
LEMMA ClonePrepareInv ==
  ASSUME FlowInv, NEW l \in VMs, ~At(l, "idle"),
         cloneNew(l) \/ attachClonePort(l) \/ persistClonePrepared(l) \/ failClonePrepare(l)
  PROVE  FlowInv'
  <1> DEFINE w == h[l]
  <1>0. /\ Place(l, w, ops[w.op], ask[w.op], ops[w.req]) /\ Relies(w) /\ HandlerShape(w)
        /\ w.op \in Ids /\ w.req \in Ids /\ Tx[w.req].vm = l
        /\ l \in Handlers /\ l \notin Callers /\ l \in DOMAIN h
        /\ ops[w.op] = NoOperation \/ Row(w.op, ops[w.op])
        /\ AskRow(w.op, ops[w.op], ask[w.op])
        /\ DOMAIN ops = Ids /\ DOMAIN ask = Ids
    BY Acting, ZenonT(20)
  <1>s. HandlerShape(w) BY <1>0, ZenonT(20)
  <1>m. Moves(l)
    BY Zenon DEF cloneNew, attachClonePort, persistClonePrepared, failClonePrepare, Moves, Try, FlowInv, Handling
  <1>1. CASE cloneNew(l)
    <2> DEFINE r == createComputeOperation("clone", "preparing", Nil)
               v == [w EXCEPT !.saw = Nil]
               ok == VMPorts(l) = {} /\ (\A p \in ClonePorts(w.op) : ~Present(ports[p])) /\ VMSlotFree(l)
    <2>0. /\ w.pc = "cloneNew" /\ Kind(w.op) = "clone" /\ w.op = w.req /\ ~Exists(ops[w.op]) /\ ask[w.op] = "none" /\ w.dir = Nil
      <3>1. w.pc = "cloneNew" BY <1>1, Zenon DEF cloneNew, At
      <3> QED BY <1>0, <3>1, Zenon DEF Place, Beginning
    <2>1. CASE ~ok
      BY <1>0, <1>1, <1>m, <2>1, IdleMove, Zenon DEF cloneNew, Try, world
    <2>2. CASE ok
      <3>1. ops' = [ops EXCEPT ![w.op] = r] /\ UNCHANGED <<ask, pve>> /\ h'[l] = ProvisionNIC(v, 1) /\ VMSlotFree(l)
        BY <1>0, <1>1, <2>2, Zenon DEF cloneNew, Try, world
      <3>2. HandlerShape(v) /\ v.op = w.op /\ v.req = w.req /\ v.dir = w.dir BY <1>s, ZenonT(20) DEF HandlerShape, Fields
      <3> HIDE DEF v
      <3>3. 1 \in CloneNICs(w.op) BY <1>0, <2>0, CloneAssumption DEF Clones, CloneNICs
      <3>4. Same(v, h'[l]) /\ h'[l].i = 1 /\ h'[l].pc = "provision" /\ h'[l].port = <<w.op, 1>>
        <4>1. 1 \in Nat BY Zenon
        <4> QED BY <3>1, <3>2, <3>3, <4>1, ProvisionNICShape
      <3>5. /\ Row(w.op, r) /\ DirOf(r.phase) = "open" /\ r.phase = "preparing" /\ Exists(r)
            /\ Running(r, "clone") /\ w.op \in TwoPhase
        BY <2>0, <1>0, Kinds, Zenon DEF createComputeOperation, Row, RowFields, DirOf, Exists, Running, TwoPhase, Snapshots, Unended, Ended, Payload
      <3> HIDE DEF r
      <3>6. RowChange(l, w.op, r)
        BY <1>0, <2>0, <3>1, <3>5, Zenon DEF RowChange, AskRow, Templates
      <3>7. ops'[w.op] = r /\ ask'[w.op] = "none" BY <1>0, <2>0, <3>1, Zenon
      <3>8. Preparing(h'[l], r, "none")
        BY <2>0, <3>2, <3>3, <3>4, <3>5, Zenon DEF Preparing, PrepareAt, Same
      <3>9. Place(l, h'[l], r, "none", r)
        BY <1>0, <2>0, <3>2, <3>4, <3>8, Zenon DEF Place, Recovers, Same
      <3>10. Relies(h[l])' BY <2>0, <3>2, <3>4, Zenon DEF Relies, Recovers, Same
      <3>11. Good(l)' BY <1>0, <2>0, <3>2, <3>4, <3>7, <3>9, <3>10, Zenon DEF Good, Same
      <3> QED BY <1>0, <1>m, <3>6, <3>11, RowInv, Zenon
    <2> QED BY <2>1, <2>2, Zenon
  <1>2. CASE attachClonePort(l)
    <2>0. w.pc = "attach" /\ PrepareAt(w, ops[w.op]) /\ w.op = w.req
      <3>1. w.pc = "attach" BY <1>2, Zenon DEF attachClonePort, At
      <3> QED BY <1>0, <3>1, Zenon DEF Place, Preparing
    <2>1. UNCHANGED <<ops, ask, pve>> /\ (h'[l] = ProvisionNIC(w, w.i + 1) \/ h'[l] = [w EXCEPT !.pc = "compensate"])
      BY <1>0, <1>2, Zenon DEF attachClonePort, Try, world
    <2>2. CASE h'[l] = ProvisionNIC(w, w.i + 1)
      <3>1. w.i + 1 \in Nat BY <1>s DEF HandlerShape
      <3>2. /\ Same(w, h'[l]) /\ h'[l].i = w.i + 1
            /\ \/ w.i + 1 \in CloneNICs(w.op) /\ h'[l].pc = "provision" /\ h'[l].port = <<w.op, w.i + 1>>
               \/ w.i + 1 \notin CloneNICs(w.op) /\ h'[l].pc = "verify"
        BY <1>s, <2>2, <3>1, ProvisionNICShape
      <3>3. PrepareAt(h'[l], ops[w.op]) BY <2>0, <3>2, Zenon DEF PrepareAt, Same
      <3>4. w.dir # "commit" BY <1>0, <2>0, DirectionAssumption, Zenon DEF Place, Preparing
      <3> QED BY <1>m, <2>0, <2>1, <3>2, <3>3, <3>4, PrepareMove, Zenon
    <2>3. CASE h'[l] = [w EXCEPT !.pc = "compensate"]
      <3>1. Same(w, h'[l]) /\ h'[l].pc = "compensate" BY <1>s, <2>3, Zenon DEF Same, HandlerShape, Fields
      <3>2. PrepareAt(h'[l], ops[w.op]) BY <2>0, <3>1, Zenon DEF PrepareAt, Same
      <3> QED BY <1>m, <2>0, <2>1, <3>1, <3>2, PrepareMove, Zenon
    <2> QED BY <2>1, <2>2, <2>3, Zenon
  <1>3. CASE persistClonePrepared(l)
    <2> DEFINE r == [ops[w.op] EXCEPT !.phase = "prepared"]
    <2>0. w.pc = "persist" /\ Preparing(w, ops[w.op], ask[w.op]) /\ w.op = w.req /\ Kind(w.op) = "clone" /\ Row(w.op, ops[w.op])
      <3>1. w.pc = "persist" BY <1>3, Zenon DEF persistClonePrepared, At
      <3>2. Preparing(w, ops[w.op], ask[w.op]) BY <1>0, <3>1, Zenon DEF Place
      <3> QED BY <1>0, <3>1, <3>2, NoRow, Zenon DEF Preparing, PrepareAt, Running
    <2>1. CASE ~(Running(ops[w.op], "clone") /\ ops[w.op].phase = "preparing")
      <3>1. UNCHANGED <<ops, ask, pve>> /\ h'[l] = [w EXCEPT !.pc = "compensate"]
        BY <1>0, <1>3, <2>1, Zenon DEF persistClonePrepared, Try, world
      <3>2. Same(w, h'[l]) /\ h'[l].pc = "compensate" BY <1>s, <3>1, Zenon DEF Same, HandlerShape, Fields
      <3>3. PrepareAt(h'[l], ops[w.op]) BY <2>0, <3>2, Zenon DEF PrepareAt, Same
      <3> QED BY <1>m, <2>0, <3>1, <3>2, <3>3, PrepareMove, Zenon
    <2>2. CASE Running(ops[w.op], "clone") /\ ops[w.op].phase = "preparing"
      <3>1. ops' = [ops EXCEPT ![w.op] = r] /\ UNCHANGED <<ask, pve>> /\ h'[l] = [w EXCEPT !.pc = "reply"]
        BY <1>0, <1>3, <2>2, ZenonT(20) DEF persistClonePrepared, Try, world
      <3>2. /\ Row(w.op, r) /\ DirOf(r.phase) = "open" /\ r.phase = "prepared" /\ Exists(r)
            /\ Running(r, "clone") /\ w.op \in TwoPhase /\ r.slot = ops[w.op].slot
        BY <2>0, <2>2, <1>0, Kinds, Zenon DEF Row, RowFields, DirOf, Exists, Running, TwoPhase, Snapshots, Unended, Ended
      <3>3. ask[w.op] = "none" /\ w.dir = Nil BY <2>0, Zenon DEF Preparing
      <3> HIDE DEF r
      <3>4. RowChange(l, w.op, r)
        BY <1>0, <2>0, <2>2, <3>1, <3>2, <3>3, Zenon DEF RowChange, AskRow, Active, Templates, Prepared, DirOf
      <3>5. Same(w, h'[l]) /\ h'[l].pc = "reply" BY <1>s, <3>1, Zenon DEF Same, HandlerShape, Fields
      <3>6. ops'[w.op] = r /\ ask'[w.op] = "none" BY <1>0, <3>1, <3>3, Zenon
      <3>7. Preparing(h'[l], r, "none")
        BY <2>0, <3>2, <3>3, <3>5, Zenon DEF Preparing, PrepareAt, Same
      <3>8. Place(l, h'[l], r, "none", r)
        BY <1>0, <2>0, <3>3, <3>5, <3>7, Zenon DEF Place, Recovers, Same
      <3>9. Relies(h[l])' BY <2>0, <3>5, Zenon DEF Relies, Recovers, Same
      <3>10. Good(l)' BY <1>0, <2>0, <3>5, <3>6, <3>8, <3>9, Zenon DEF Good, Same
      <3> QED BY <1>0, <1>m, <3>4, <3>10, RowInv, Zenon
    <2> QED BY <2>1, <2>2, Zenon
  <1>4. CASE failClonePrepare(l)
    <2> DEFINE r == claimComputeOperation(ops[w.op], "compensating")
               ok == Claimable(ops[w.op], "clone", {"preparing", "prepared"}, "compensating")
    <2>0. /\ w.pc = "compensate" /\ Preparing(w, ops[w.op], ask[w.op]) /\ Row(w.op, ops[w.op])
          /\ Kind(w.op) = "clone" /\ w.op = w.req
      <3>1. w.pc = "compensate" /\ Kind(w.op) = "clone" BY <1>4, Zenon DEF failClonePrepare, At
      <3>2. Preparing(w, ops[w.op], ask[w.op]) BY <1>0, <3>1, Zenon DEF Place
      <3> QED BY <1>0, <3>1, <3>2, NoRow, Zenon DEF Preparing, PrepareAt, Running
    <2>1. CASE ~ok
      BY <1>0, <1>4, <1>m, <2>1, IdleMove, ZenonT(20) DEF failClonePrepare, Try, world
    <2>2. CASE ok
      <3>1. /\ ops' = [ops EXCEPT ![w.op] = r] /\ UNCHANGED <<ask, pve>>
            /\ h'[l] = [w EXCEPT !.pc = "drop", !.dir = "undo", !.i = 1, !.bad = 0, !.port = Nil]
        BY <1>0, <1>4, <2>2, ZenonT(20) DEF failClonePrepare, Try, world
      <3>2. Row(w.op, r) /\ DirOf(r.phase) = "undo" /\ Exists(r) /\ r.slot = ops[w.op].slot /\ r.phase = "compensating"
        BY <2>0, Zenon DEF claimComputeOperation, Row, RowFields, DirOf, Exists, Preparing, Running, TwoPhase, Unended, Ended
      <3>3. ask[w.op] = "none" /\ DirOf(ops[w.op].phase) = "open" /\ w.op \in TwoPhase BY <2>0, Zenon DEF Preparing
      <3> HIDE DEF r
      <3>4. RowChange(l, w.op, r)
        BY <1>0, <2>0, <3>1, <3>2, <3>3, Zenon DEF RowChange, AskRow, AskOf, Active, Templates
      <3>5. /\ HandlerShape(h'[l]) /\ h'[l].op = w.op /\ h'[l].req = w.req /\ h'[l].pc = "drop" /\ h'[l].dir = "undo"
            /\ h'[l].saw = w.saw
        BY <1>s, <3>1 DEF HandlerShape, Fields
      <3>6. ops'[w.op] = r /\ ask'[w.op] = "none" BY <1>0, <3>1, <3>3, Zenon
      <3>7. Finishing(h'[l], r, "none")
        BY <2>0, <3>2, <3>3, <3>5, Zenon DEF Finishing, FinishAt, AskOf
      <3>8. Place(l, h'[l], r, "none", r)
        BY <1>0, <2>0, <3>5, <3>7, Zenon DEF Place, Recovers
      <3>9. Relies(h[l])' BY <2>0, <3>5, Zenon DEF Relies, Recovers
      <3>10. Good(l)' BY <1>0, <2>0, <3>5, <3>6, <3>8, <3>9, Zenon DEF Good
      <3> QED BY <1>0, <1>m, <3>4, <3>10, RowInv, Zenon
    <2> QED BY <2>1, <2>2, Zenon
  <1> QED BY <1>1, <1>2, <1>3, <1>4, ZenonT(20)

\* The verification of a clone's ports and the check of its finish.
LEMMA CloneCheckInv ==
  ASSUME FlowInv, NEW l \in VMs, ~At(l, "idle"), verifyClonePorts(l) \/ cloneCheck(l)
  PROVE  FlowInv'
  <1> DEFINE w == h[l]
  <1>0. /\ Place(l, w, ops[w.op], ask[w.op], ops[w.req]) /\ Relies(w) /\ HandlerShape(w)
        /\ w.op \in Ids /\ w.req \in Ids /\ Tx[w.req].vm = l
        /\ l \in Handlers /\ l \notin Callers /\ l \in DOMAIN h
        /\ ops[w.op] = NoOperation \/ Row(w.op, ops[w.op])
        /\ AskRow(w.op, ops[w.op], ask[w.op])
        /\ DOMAIN ops = Ids /\ DOMAIN ask = Ids
    BY Acting, Zenon
  <1>s. HandlerShape(w) BY <1>0, Zenon
  <1>m. Moves(l) /\ UNCHANGED <<ops, ask, pve>>
    BY Zenon DEF verifyClonePorts, cloneCheck, Moves, Try, Goto, FlowInv, Handling, world
  <1>1. CASE verifyClonePorts(l) /\ w.dir = "commit"
    <2>0. w.pc = "verify" /\ FinishAt(w) /\ ~Recovers(w)
      <3>1. w.pc = "verify" BY <1>1, Zenon DEF verifyClonePorts, At
      <3> QED BY <1>0, <1>1, <3>1, Zenon DEF Place, Finishing
    <2>1. h'[l] = Idle \/ h'[l] = [w EXCEPT !.pc = "end"]
      BY <1>0, <1>1, ZenonT(20) DEF verifyClonePorts, Try
    <2>2. CASE h'[l] = [w EXCEPT !.pc = "end"]
      <3>1. Same(w, h'[l]) /\ h'[l].pc = "end" BY <1>s, <2>2, ZenonT(20) DEF HandlerShape, Fields, Same
      <3>2. FinishAt(h'[l]) BY <2>0, <3>1, Zenon DEF FinishAt, Same
      <3> QED BY <1>1, <1>m, <2>0, <3>1, <3>2, FinishMove, Zenon
    <2> QED BY <1>0, <1>m, <2>1, <2>2, IdleMove, Zenon
  <1>2. CASE verifyClonePorts(l) /\ w.dir # "commit"
    <2>0. w.pc = "verify" /\ Preparing(w, ops[w.op], ask[w.op]) /\ Row(w.op, ops[w.op])
      <3>1. w.pc = "verify" BY <1>2, Zenon DEF verifyClonePorts, At
      <3>2. Preparing(w, ops[w.op], ask[w.op]) BY <1>0, <1>2, <3>1, Zenon DEF Place
      <3> QED BY <1>0, <3>1, <3>2, NoRow, Zenon DEF Preparing, PrepareAt, Running
    <2>1. PICK pc \in {"reply", "persist", "compensate"} : h'[l] = [w EXCEPT !.pc = pc] /\ (pc = "reply" => ops[w.op].phase = "prepared")
      BY <1>0, <1>2, Zenon DEF verifyClonePorts, Try
    <2>2. Same(w, h'[l]) /\ h'[l].pc = pc BY <1>s, <2>1, Zenon DEF HandlerShape, Fields, Same
    <2>3. PrepareAt(h'[l], ops[w.op]) BY <2>0, <2>1, <2>2, Zenon DEF Preparing, PrepareAt, Same
    <2> QED BY <1>2, <1>m, <2>0, <2>1, <2>2, <2>3, PrepareMove, Zenon
  <1>3. CASE cloneCheck(l)
    <2>0. w.pc = "check" /\ Kind(w.op) = "clone" /\ FinishAt(w) /\ ~Recovers(w)
      <3>1. w.pc = "check" /\ Kind(w.op) = "clone" BY <1>3, Zenon DEF cloneCheck, At
      <3> QED BY <1>0, <3>1, Zenon DEF Place, Finishing, Templates
    <2>1. \/ h'[l] = Idle
          \/ w.dir = "commit" /\ h'[l] = [w EXCEPT !.pc = "verify"]
          \/ w.dir # "commit" /\ h'[l] = [w EXCEPT !.pc = "drop", !.i = 1]
      BY <1>0, <1>3, Zenon DEF cloneCheck, Try, Goto
    <2>2. CASE w.dir = "commit" /\ h'[l] = [w EXCEPT !.pc = "verify"]
      <3>1. Same(w, h'[l]) /\ h'[l].pc = "verify" BY <1>s, <2>2, Zenon DEF HandlerShape, Fields, Same
      <3>2. FinishAt(h'[l]) BY <2>0, <3>1, Zenon DEF FinishAt, Same
      <3> QED BY <1>m, <2>0, <2>2, <3>1, <3>2, FinishMove, Zenon
    <2>3. CASE w.dir # "commit" /\ h'[l] = [w EXCEPT !.pc = "drop", !.i = 1]
      <3>1. Same(w, h'[l]) /\ h'[l].pc = "drop" BY <1>s, <2>3 DEF HandlerShape, Fields, Same
      <3>2. FinishAt(h'[l]) BY <2>0, <2>3, <3>1, Zenon DEF FinishAt, Same
      <3> QED BY <1>m, <2>0, <2>3, <3>1, <3>2, FinishMove, Zenon
    <2> QED BY <1>0, <1>m, <2>1, <2>2, <2>3, IdleMove, Zenon
  <1> QED BY <1>1, <1>2, <1>3, Zenon

\* The steps of a clone.
LEMMA CloneInv == ASSUME FlowInv, NEW l \in VMs, ~At(l, "idle"), CloneStep(l) PROVE FlowInv'
  BY ClonePrepareInv, CloneCheckInv, DropInv, Zenon DEF CloneStep

\* A request puts an idle handler where its row lets it be.
LEMMA RequestGood ==
  ASSUME NEW id \in Ids, NEW l \in VMs, Tx[id].vm = l,
         HandlerShape(h'[l]), h'[l].op = id, h'[l].req = id, Saw(h'[l]), Relies(h[l])',
         \/ h'[l].pc \in SnapPlaces /\ Snapping(h'[l], ops'[id], ask'[id])
         \/ h'[l].pc \in NewPlaces /\ Beginning(h'[l], ops'[id], ask'[id])
         \/ (h'[l].pc \in PreparePlaces \/ (h'[l].pc = "verify" /\ h'[l].dir # "commit")) /\ Preparing(h'[l], ops'[id], ask'[id])
         \/ h'[l].pc \in FinishPlaces /\ Finishing(h'[l], ops'[id], ask'[id])
  PROVE  Good(l)'
  <1>1. Place(l, h'[l], ops'[id], ask'[id], ops'[id]) BY Zenon DEF Place, Recovers
  <1>2. l \notin Callers BY Kinds, Zenon
  <1> QED BY <1>1, <1>2, Zenon DEF Good

\* The VM that a transaction is about.
LEMMA AskedVM ==
  ASSUME FlowInv, NEW id \in Ids
  PROVE  Tx[id].vm \in VMs /\ Tx[id].vm \in Handlers /\ Tx[id].vm \in DOMAIN h
  BY SourceAssumption, Kinds, Zenon DEF VMs, Targets, Clones, FlowInv, Handling

\* The handler's record at the start of a request.
LEMMA StartShape ==
  ASSUME FlowInv, NEW id \in Ids, NEW pc, Start(id, pc)
  PROVE  LET l == Tx[id].vm
         IN /\ Moves(l) /\ HandlerShape(h'[l]) /\ h'[l].pc = pc /\ h'[l].op = id /\ h'[l].req = id
            /\ h'[l].dir = Nil /\ h'[l].saw = Nil
  <1>1. Tx[id].vm \in DOMAIN h BY AskedVM, Zenon
  <1>2. h'[Tx[id].vm] = [Idle EXCEPT !.pc = pc, !.op = id, !.req = id] BY <1>1, Zenon DEF Start
  <1>3. Moves(Tx[id].vm) BY <1>1, Zenon DEF Start, Moves, FlowInv, Handling
  <1> QED BY <1>2, <1>3 DEF Idle, HandlerShape, Fields

\* The requests for a snapshot and for a mutation.
LEMMA SnapshotRequestInv ==
  ASSUME FlowInv, NEW id \in Ids, computeSnapshotCreate(id) \/ computeSnapshotCleanup(id) \/ computeSnapshotPrepare(id)
  PROVE  FlowInv'
  <1> DEFINE l == Tx[id].vm
             o == ops[id]
  <1>0. l \in VMs /\ l \in Handlers /\ DOMAIN ops = Ids /\ (o = NoOperation \/ Row(id, o)) /\ AskRow(id, o, ask[id])
    BY AskedVM, ZenonT(20) DEF FlowInv, Rows
  <1>1. CASE computeSnapshotCreate(id)
    <2>1. id \in Snapshots /\ ask[id] = "wanted" /\ UNCHANGED <<ops, ask, pve>>
      BY <1>1, Zenon DEF computeSnapshotCreate, Asked, Snapshots, world
    <2>2. PICK pc \in {"snapVerify", "snapNew", "snapReply"} :
            /\ Start(id, pc)
            /\ pc = "snapVerify" => Running(o, "snapshot") /\ o.phase = "creating"
            /\ pc = "snapReply" => Created(id)
      BY <1>1, Zenon DEF computeSnapshotCreate
    <2>3. /\ Moves(l) /\ HandlerShape(h'[l]) /\ h'[l].pc = pc /\ h'[l].op = id /\ h'[l].req = id
      BY <2>2, StartShape, Zenon
    <2>4. Snapping(h'[l], ops'[id], ask'[id])
      BY <2>1, <2>2, <2>3, ZenonT(20) DEF Snapping, Created
    <2>5. Saw(h'[l]) /\ Relies(h[l])' BY <2>2, <2>3, Zenon DEF Relies, Recovers
    <2>6. Good(l)' BY <1>0, <2>2, <2>3, <2>4, <2>5, RequestGood, Zenon
    <2> QED BY <1>0, <2>1, <2>3, <2>6, MoveInv, Zenon
  <1>2. CASE computeSnapshotCleanup(id)
    <2> DEFINE r == createComputeOperation("snapshot", "cleaning", Nil)
    <2>1. /\ id \in Snapshots /\ ask[id] = "undone" /\ ops' = [ops EXCEPT ![id] = r] /\ UNCHANGED <<ask, pve>>
          /\ Start(id, "snapClean") /\ (o.status = "running" \/ VMSlotFree(Src)) /\ l = Src
      BY <1>2, SourceAssumption, ZenonT(20) DEF computeSnapshotCleanup, Asked, Snapshots, world
    <2>2. /\ Moves(l) /\ HandlerShape(h'[l]) /\ h'[l].pc = "snapClean" /\ h'[l].op = id /\ h'[l].req = id
      BY <2>1, StartShape, Zenon
    <2>3. Row(id, r) BY <2>1, ZenonT(20) DEF Row, RowFields, createComputeOperation, Snapshots, TwoPhase, Payload
    <2>4. o.status = "running" => Active(o) BY <1>0, NoRow, Zenon DEF Row, Active
    <2> HIDE DEF r
    <2>5. RowChange(l, id, r)
      BY <1>0, <2>1, <2>3, <2>4, Zenon DEF RowChange, AskRow, Templates, Snapshots, TwoPhase
    <2>6. ops'[id] = r /\ ask'[id] = "undone" BY <1>0, <2>1, Zenon
    <2>7. Snapping(h'[l], ops'[id], ask'[id])
      BY <2>1, <2>2, <2>6, Zenon DEF Snapping
    <2>8. Saw(h'[l]) /\ Relies(h[l])' BY <2>2, Zenon DEF Relies, Recovers
    <2>9. Good(l)' BY <1>0, <2>2, <2>7, <2>8, RequestGood, Zenon
    <2> QED BY <1>0, <2>2, <2>5, <2>9, RowInv, ZenonT(20)
  <1>3. CASE computeSnapshotPrepare(id)
    <2>1. Kind(id) = "mutation" /\ ask[id] = "none" /\ UNCHANGED <<ops, ask, pve>> /\ id \in TwoPhase
      BY <1>3, Kinds, Zenon DEF computeSnapshotPrepare, Asked, world
    <2>2. \/ Start(id, "mutationVerify") /\ Running(o, "mutation") /\ o.phase = "prepared"
          \/ Start(id, "mutationNew") /\ ~Exists(o)
      BY <1>3, ZenonT(20) DEF computeSnapshotPrepare
    <2>3. CASE Start(id, "mutationVerify") /\ Running(o, "mutation") /\ o.phase = "prepared"
      <3>1. /\ Moves(l) /\ HandlerShape(h'[l]) /\ h'[l].pc = "mutationVerify" /\ h'[l].op = id /\ h'[l].req = id /\ h'[l].dir = Nil
        BY <2>3, StartShape, Zenon
      <3>2. Preparing(h'[l], ops'[id], ask'[id])
        BY <2>1, <2>3, <3>1, Zenon DEF Preparing, PrepareAt, DirOf
      <3>3. Saw(h'[l]) /\ Relies(h[l])' BY <3>1, Zenon DEF Relies, Recovers
      <3>4. Good(l)' BY <1>0, <3>1, <3>2, <3>3, RequestGood, Zenon
      <3> QED BY <1>0, <2>1, <3>1, <3>4, MoveInv, Zenon
    <2>4. CASE Start(id, "mutationNew") /\ ~Exists(o)
      <3>1. /\ Moves(l) /\ HandlerShape(h'[l]) /\ h'[l].pc = "mutationNew" /\ h'[l].op = id /\ h'[l].req = id /\ h'[l].dir = Nil
        BY <2>4, StartShape, Zenon
      <3>2. Beginning(h'[l], ops'[id], ask'[id])
        BY <2>1, <2>4, <3>1, ZenonT(20) DEF Beginning
      <3>3. Saw(h'[l]) /\ Relies(h[l])' BY <3>1, Zenon DEF Relies, Recovers
      <3>4. Good(l)' BY <1>0, <3>1, <3>2, <3>3, RequestGood, Zenon
      <3> QED BY <1>0, <2>1, <3>1, <3>4, MoveInv, Zenon
    <2> QED BY <2>2, <2>3, <2>4, Zenon
  <1> QED BY <1>1, <1>2, <1>3, Zenon

\* The request to finish a transaction.
LEMMA FinishRequestInv ==
  ASSUME FlowInv, NEW id \in Ids, NEW kind, computeFinish(id, kind)
  PROVE  FlowInv'
  <1> DEFINE l == Tx[id].vm
             o == ops[id]
             r == claimComputeOperation(o, ClaimOf(ask[id]))
  <1>0. l \in VMs /\ l \in Handlers /\ l \in DOMAIN h /\ DOMAIN ops = Ids /\ (o = NoOperation \/ Row(id, o)) /\ AskRow(id, o, ask[id])
    BY AskedVM, Zenon DEF FlowInv, Rows
  <1>1. /\ Kind(id) = kind /\ ask[id] \in {"commit", "abort"} /\ UNCHANGED <<ask, pve>>
        /\ Running(o, kind) /\ o.phase \in {Prepared(id), ClaimOf(ask[id])} /\ ops' = [ops EXCEPT ![id] = r]
        /\ h' = [h EXCEPT ![l] = [Idle EXCEPT !.pc = "check", !.op = id, !.req = id, !.dir = ask[id], !.key = <<ask[id], id>>]]
    BY Zenon DEF computeFinish, Asked, Claimable, world
  <1>2. id \in TwoPhase /\ Row(id, o)
    <2>1. Row(id, o) BY <1>0, <1>1, NoRow, Zenon DEF Running
    <2>2. ask[id] \in {"commit", "abort"} /\ kind # "snapshot" => id \in TwoPhase BY Kinds, <1>1, Zenon
    <2>3. kind # "snapshot"
      BY <1>1, <2>1, Zenon DEF Row, Snapshots, Running, Prepared, ClaimOf
    <2> QED BY <1>1, <2>1, <2>2, <2>3, Zenon
  <1>3. /\ Row(id, r) /\ Exists(r) /\ DirOf(r.phase) = ask[id] /\ r.slot = o.slot /\ DirOf(o.phase) \in {"open", ask[id]}
        /\ InForce(o) /\ Exists(o)
    BY <1>1, <1>2, Zenon DEF Row, RowFields, claimComputeOperation, ClaimOf, Prepared, DirOf, Exists, Running, InForce, TwoPhase, Unended, Ended
  <1>4. h'[l] = [Idle EXCEPT !.pc = "check", !.op = id, !.req = id, !.dir = ask[id], !.key = <<ask[id], id>>] /\ Moves(l)
    BY <1>0, <1>1, Zenon DEF Moves, FlowInv, Handling
  <1>5. /\ HandlerShape(h'[l]) /\ h'[l].pc = "check" /\ h'[l].op = id /\ h'[l].req = id /\ h'[l].dir = ask[id]
    BY <1>4 DEF Idle, HandlerShape, Fields
  <1> HIDE DEF r
  <1>6. RowChange(l, id, r)
    BY <1>0, <1>1, <1>2, <1>3, Zenon DEF RowChange, AskRow, AskOf, Active
  <1>7. ops'[id] = r /\ ask'[id] = ask[id] BY <1>0, <1>1, Zenon
  <1>8. Finishing(h'[l], ops'[id], ask'[id])
    BY <1>1, <1>2, <1>3, <1>5, <1>7, Zenon DEF Finishing, FinishAt, AskOf
  <1>9. Saw(h'[l]) /\ Relies(h[l])' BY <1>5, Zenon DEF Relies, Recovers
  <1>10. Good(l)' BY <1>0, <1>5, <1>8, <1>9, RequestGood, Zenon
  <1> QED BY <1>0, <1>4, <1>6, <1>10, RowInv, ZenonT(20)

\* A request for a row that runs: it resumes a prepare, or the compensation of
\* one that failed.
LEMMA ResumeInv ==
  ASSUME FlowInv, NEW id \in Ids, NEW l \in VMs, Tx[id].vm = l, ask[id] = "none", id \in TwoPhase,
         UNCHANGED <<ops, ask, pve>>, Moves(l), HandlerShape(h'[l]), h'[l].op = id, h'[l].req = id,
         Running(ops[id], Kind(id)),
         \/ /\ h'[l].pc \in PreparePlaces \cup {"verify"} /\ h'[l].pc # "findTemplate" /\ h'[l].dir = Nil
            /\ DirOf(ops[id].phase) = "open" /\ PrepareAt(h'[l], ops[id])
         \/ /\ h'[l].pc \in {"restore", "drop"} /\ h'[l].dir = "undo" /\ ops[id].phase = "compensating" /\ FinishAt(h'[l])
  PROVE  FlowInv'
  <1>1. Saw(h'[l]) /\ Relies(h[l])' BY Zenon DEF Relies, Recovers
  <1>2. \/ (h'[l].pc \in PreparePlaces \/ (h'[l].pc = "verify" /\ h'[l].dir # "commit")) /\ Preparing(h'[l], ops'[id], ask'[id])
        \/ h'[l].pc \in FinishPlaces /\ Finishing(h'[l], ops'[id], ask'[id])
    BY DirectionAssumption, Zenon DEF Preparing, Finishing, DirOf, AskOf, Running, Exists
  <1>3. Good(l)' BY <1>1, <1>2, RequestGood, Zenon
  <1> QED BY <1>3, MoveInv, Kinds, ZenonT(20)

\* A request for a row that is not there yet.
LEMMA BeginInv ==
  ASSUME FlowInv, NEW id \in Ids, NEW l \in VMs, Tx[id].vm = l, ask[id] = "none",
         UNCHANGED <<ops, ask, pve>>, Moves(l), HandlerShape(h'[l]), h'[l].op = id, h'[l].req = id, h'[l].dir = Nil,
         h'[l].pc \in NewPlaces, Beginning(h'[l], ops[id], ask[id]), Saw(h'[l]), Relies(h[l])'
  PROVE  FlowInv'
  <1>1. Good(l)' BY RequestGood, Zenon
  <1> QED BY <1>1, MoveInv, Kinds, Zenon

\* The requests to prepare a template conversion and a destroy.
LEMMA SourceRequestInv ==
  ASSUME FlowInv, NEW id \in Ids, computeTemplatePrepare(id) \/ computeDestroyCapture(id)
  PROVE  FlowInv'
  <1> DEFINE l == Tx[id].vm
             o == ops[id]
             v == [Idle EXCEPT !.op = id, !.req = id, !.i = 1]
             x == h'[l]
  <1>0. l \in VMs /\ l \in DOMAIN h /\ Handlers = DOMAIN h /\ DOMAIN ops = Ids /\ AskRow(id, o, ask[id])
    BY AskedVM, Zenon DEF FlowInv, Rows, Handling
  <1>1. /\ Kind(id) \in {"template", "destroy"} /\ ask[id] = "none" /\ UNCHANGED <<ops, ask, pve>> /\ id \in TwoPhase /\ Moves(l)
    BY <1>0, Kinds, Zenon DEF computeTemplatePrepare, computeDestroyCapture, Asked, world, Moves
  <1>2. /\ HandlerShape(v) /\ v.op = id /\ v.req = id /\ v.dir = Nil
    BY Zenon DEF Idle, HandlerShape, Fields
  <1>3. \/ /\ Running(o, Kind(id)) /\ o.phase = "compensating" /\ x = [v EXCEPT !.pc = "restore", !.dir = "undo"]
        \/ /\ Running(o, Kind(id)) /\ o.phase = Prepared(id)
           /\ x = [v EXCEPT !.pc = "detach"] \/ x = [v EXCEPT !.pc = "reply"]
        \/ /\ ~Exists(o) /\ Kind(id) = "template" /\ findTemplateRecord = {} /\ pve.vm = "vm"
           /\ x = [v EXCEPT !.pc = "new", !.saw = [m |-> ManifestOf(TRUE), snaps |-> {}, tmpl |-> Nil]]
        \/ /\ ~Exists(o) /\ Kind(id) = "destroy"
           /\ x = [v EXCEPT !.pc = "capture", !.saw = [m |-> ManifestOf(~(pve.vm = "template")), snaps |-> pve.snaps, tmpl |-> Nil]]
    <2>1. CASE computeTemplatePrepare(id)
      <3>1. Kind(id) = "template" BY <2>1, Zenon DEF computeTemplatePrepare, Asked
      <3> QED BY <1>0, <2>1, <3>1, Zenon DEF computeTemplatePrepare, Prepared
    <2>2. CASE computeDestroyCapture(id)
      <3>1. Kind(id) = "destroy" BY <2>2, Zenon DEF computeDestroyCapture, Asked
      <3> QED BY <1>0, <2>2, <3>1, Zenon DEF computeDestroyCapture, Prepared
    <2> QED BY <2>1, <2>2, Zenon
  <1> HIDE DEF v
  <1>4. CASE Running(o, Kind(id)) /\ o.phase = "compensating" /\ x = [v EXCEPT !.pc = "restore", !.dir = "undo"]
    <2>1. HandlerShape(x) /\ x.op = id /\ x.req = id /\ x.dir = "undo" /\ x.pc = "restore"
      BY <1>2, <1>4, Zenon DEF HandlerShape, Fields
    <2>2. FinishAt(x) BY <1>1, <2>1, Zenon DEF FinishAt
    <2> QED BY <1>0, <1>1, <1>4, <2>1, <2>2, ResumeInv, Zenon
  <1>5. ASSUME NEW pc \in {"detach", "reply"}, Running(o, Kind(id)), o.phase = Prepared(id), x = [v EXCEPT !.pc = pc] PROVE FlowInv'
    <2>1. HandlerShape(x) /\ x.op = id /\ x.req = id /\ x.dir = Nil /\ x.pc = pc
      BY <1>2, <1>5, Zenon DEF HandlerShape, Fields
    <2>2. DirOf(o.phase) = "open" /\ o.phase # "preparing" BY <1>5, Zenon DEF Prepared, DirOf
    <2>3. PrepareAt(x, o) BY <1>1, <2>1, <2>2, Zenon DEF PrepareAt
    <2> QED BY <1>0, <1>1, <1>5, <2>1, <2>2, <2>3, ResumeInv, Zenon
  <1>6. CASE /\ ~Exists(o) /\ Kind(id) = "template" /\ findTemplateRecord = {} /\ pve.vm = "vm"
             /\ x = [v EXCEPT !.pc = "new", !.saw = [m |-> ManifestOf(TRUE), snaps |-> {}, tmpl |-> Nil]]
    <2>1. HandlerShape(x) /\ x.op = id /\ x.req = id /\ x.dir = Nil /\ x.pc = "new" /\ x.saw = [m |-> ManifestOf(TRUE), snaps |-> {}, tmpl |-> Nil]
      BY <1>2, <1>6, Zenon DEF HandlerShape, Fields
    <2>2. Payload(id, x.saw) BY <1>6, <2>1 DEF Payload
    <2>3. Saw(x) BY <2>1, <2>2, Zenon DEF Saw, Recovers
    <2>4. ASSUME NEW t \in Templates PROVE ~InForce(ops[t])
      <3>1. t \in Ids /\ t \in TwoPhase /\ Kind(t) = "template" BY Kinds, Zenon DEF Templates
      <3>2. ~Exists(ops[t]) \/ ops[t].phase \in {"aborted", "compensated", "destroyed"} BY <1>6, Zenon DEF findTemplateRecord
      <3>3. ask[t] # "commit" BY <1>6, <3>1, Zenon DEF FlowInv, Converted
      <3>4. AskRow(t, ops[t], ask[t]) BY <3>1, Zenon DEF FlowInv, Rows
      <3>5. Exists(ops[t]) => ops[t].phase # "destroyed" BY <3>1, <3>3, <3>4, ZenonT(20) DEF AskRow, DirOf, AskOf
      <3> QED BY <3>2, <3>5, Zenon DEF InForce
    <2>5. Relies(h[l])' BY <1>1, <2>1, <2>4, Zenon DEF Relies, Recovers
    <2>6. Beginning(x, o, ask[id]) BY <1>1, <1>6, <2>1, Zenon DEF Beginning
    <2> QED BY <1>0, <1>1, <2>1, <2>3, <2>5, <2>6, BeginInv, Zenon
  <1>7. CASE /\ ~Exists(o) /\ Kind(id) = "destroy"
             /\ x = [v EXCEPT !.pc = "capture", !.saw = [m |-> ManifestOf(~(pve.vm = "template")), snaps |-> pve.snaps, tmpl |-> Nil]]
    <2>1. /\ HandlerShape(x) /\ x.op = id /\ x.req = id /\ x.dir = Nil /\ x.pc = "capture"
          /\ x.saw = [m |-> ManifestOf(~(pve.vm = "template")), snaps |-> pve.snaps, tmpl |-> Nil]
      BY <1>2, <1>7, Zenon DEF HandlerShape, Fields
    <2>2. Payload(id, x.saw) BY <1>7, <2>1 DEF Payload, FlowInv, Converted
    <2>3. Saw(x) BY <2>1, <2>2, Zenon DEF Saw, Recovers
    <2>5. Relies(h[l])' BY <1>1, <2>1, Zenon DEF Relies, Recovers
    <2>6. Beginning(x, o, ask[id]) BY <1>1, <1>7, <2>1, Zenon DEF Beginning
    <2> QED BY <1>0, <1>1, <2>1, <2>3, <2>5, <2>6, BeginInv, Zenon
  <1> QED BY <1>3, <1>4, <1>5, <1>6, <1>7, Zenon

\* The request to prepare a clone.
LEMMA CloneRequestInv ==
  ASSUME FlowInv, NEW id \in Ids, computeClonePrepare(id)
  PROVE  FlowInv'
  <1> DEFINE l == Tx[id].vm
             o == ops[id]
             v == [Idle EXCEPT !.op = id, !.req = id, !.i = 1]
             x == h'[l]
  <1>0. l \in VMs /\ l \in DOMAIN h /\ Handlers = DOMAIN h /\ DOMAIN ops = Ids
    BY AskedVM, Zenon DEF FlowInv, Rows, Handling
  <1>1. /\ Kind(id) = "clone" /\ ask[id] = "none" /\ UNCHANGED <<ops, ask, pve>> /\ id \in TwoPhase /\ Moves(l)
    BY <1>0, Kinds, Zenon DEF computeClonePrepare, Asked, world, Moves
  <1>2. /\ HandlerShape(v) /\ v.op = id /\ v.req = id /\ v.dir = Nil /\ v.i = 1
    BY Zenon DEF Idle, HandlerShape, Fields
  <1>3. \/ /\ Running(o, "clone") /\ o.phase = "compensating" /\ x = [v EXCEPT !.pc = "drop", !.dir = "undo"]
        \/ /\ Running(o, "clone") /\ o.phase = "preparing" /\ x = ProvisionNIC(v, 1)
        \/ /\ Running(o, "clone") /\ o.phase = "prepared" /\ x = [v EXCEPT !.pc = "verify"]
        \/ /\ ~Exists(o) /\ (Tx[id].from = "template" => pve.vm = "template")
           /\ x = [v EXCEPT !.pc = IF Tx[id].from = "template" THEN "findTemplate" ELSE "cloneNew", !.saw = [tmpl |-> Nil]]
    BY <1>0, Zenon DEF computeClonePrepare, cloneSourceBlueprints
  <1> HIDE DEF v
  <1>4. CASE Running(o, "clone") /\ o.phase = "compensating" /\ x = [v EXCEPT !.pc = "drop", !.dir = "undo"]
    <2>1. HandlerShape(x) /\ x.op = id /\ x.req = id /\ x.dir = "undo" /\ x.pc = "drop"
      BY <1>2, <1>4, Zenon DEF HandlerShape, Fields
    <2>2. FinishAt(x) BY <1>1, <2>1, Zenon DEF FinishAt
    <2> QED BY <1>0, <1>1, <1>4, <2>1, <2>2, ResumeInv, Zenon
  <1>5. CASE Running(o, "clone") /\ o.phase = "preparing" /\ x = ProvisionNIC(v, 1)
    <2>0. 1 \in CloneNICs(id) /\ 1 \in Nat BY <1>1, CloneAssumption DEF Clones, CloneNICs
    <2>1. Same(v, x) /\ x.i = 1 /\ x.pc = "provision" /\ x.port = <<id, 1>>
      BY <1>2, <1>5, <2>0, ProvisionNICShape
    <2>2. HandlerShape(x) /\ x.op = id /\ x.req = id /\ x.dir = Nil BY <1>2, <2>1, Zenon DEF Same
    <2>3. DirOf(o.phase) = "open" BY <1>5, Zenon DEF DirOf
    <2>4. PrepareAt(x, o) BY <1>1, <1>5, <2>0, <2>1, <2>2, Zenon DEF PrepareAt
    <2> QED BY <1>0, <1>1, <1>5, <2>1, <2>2, <2>3, <2>4, ResumeInv, Zenon
  <1>6. CASE Running(o, "clone") /\ o.phase = "prepared" /\ x = [v EXCEPT !.pc = "verify"]
    <2>1. HandlerShape(x) /\ x.op = id /\ x.req = id /\ x.dir = Nil /\ x.pc = "verify"
      BY <1>2, <1>6, Zenon DEF HandlerShape, Fields
    <2>3. DirOf(o.phase) = "open" BY <1>6, Zenon DEF DirOf
    <2>4. PrepareAt(x, o) BY <1>1, <2>1, Zenon DEF PrepareAt
    <2> QED BY <1>0, <1>1, <1>6, <2>1, <2>3, <2>4, ResumeInv, Zenon
  <1>7. CASE /\ ~Exists(o) /\ (Tx[id].from = "template" => pve.vm = "template")
             /\ x = [v EXCEPT !.pc = IF Tx[id].from = "template" THEN "findTemplate" ELSE "cloneNew", !.saw = [tmpl |-> Nil]]
    <2>1. /\ HandlerShape(x) /\ x.op = id /\ x.req = id /\ x.dir = Nil /\ x.saw = [tmpl |-> Nil]
          /\ x.pc = IF Tx[id].from = "template" THEN "findTemplate" ELSE "cloneNew"
      BY <1>2, <1>7, Zenon DEF HandlerShape, Fields
    <2>2. Saw(x) BY <1>1, <2>1, Zenon DEF Saw, Recovers
    <2>3. Tx[id].from = "template" => TemplateAsked' BY <1>1, <1>7, Zenon DEF TemplateAsked, FlowInv, Converted
    <2>4. Relies(h[l])' BY <1>1, <2>1, <2>3, Zenon DEF Relies, Recovers
    <2>5. Beginning(x, o, ask[id]) BY <1>1, <1>7, <2>1, Zenon DEF Beginning
    <2> QED BY <1>0, <1>1, <2>1, <2>2, <2>4, <2>5, BeginInv, Zenon
  <1> QED BY <1>3, <1>4, <1>5, <1>6, <1>7, ZenonT(20)

\* Every request of PVE.
LEMMA RequestInv == ASSUME FlowInv, NEW id \in Ids, Request(id) PROVE FlowInv'
  BY SnapshotRequestInv, FinishRequestInv, SourceRequestInv, CloneRequestInv, Zenon DEF Request

\* A call of a handler fails.
LEMMA FailInv == ASSUME FlowInv, NEW l \in Handlers, CallFails(l) PROVE FlowInv'
  <1> DEFINE w == h[l]
             x == h'[l]
  <1>s. HandlerShape(w) /\ l \in DOMAIN h /\ DOMAIN h = Handlers /\ w.pc # "idle" BY Zenon DEF FlowInv, Handling, Good, CallFails, At
  <1>1. Moves(l) /\ UNCHANGED <<ops, ask, pve>> /\ x = OnError(w)
    BY <1>s, Zenon DEF CallFails, Moves, world
  <1>2. CASE w.pc \in {"complete", "failProvision", "provision"}
    <2> DEFINE v == [w EXCEPT !.addr = Nil]
    <2>1. x = NotProvisioned(v) BY <1>1, <1>2, Zenon DEF OnError
    <2>2. Same(w, v) /\ v.i = w.i /\ v.port = w.port BY <1>s, Zenon DEF Same, HandlerShape, Fields
    <2> HIDE DEF v
    <2>3. (w.op = Nil /\ x = Idle) \/ (w.op # Nil /\ x = [v EXCEPT !.pc = "compensate"])
      BY <2>1, <2>2, Zenon DEF NotProvisioned, Same
    <2>4. x = [v EXCEPT !.pc = "compensate"] => Onward(w, x, {"attach", "compensate"})
      BY <2>2, Zenon DEF Onward, Same, HandlerShape, Fields
    <2> QED BY <1>1, <1>2, <2>3, <2>4, ProvisionMove, Zenon
  <1>3. CASE w.pc \in {"reserve", "pick", "create", "rollback", "giveBack", "giveBackPurge", "allocate"}
    <2>1. x = [w EXCEPT !.used = {}, !.pc = "failProvision"] BY <1>1, <1>3, Zenon DEF OnError, ProvisionError
    <2>2. Onward(w, x, ProvisionPlaces) BY <1>s, <2>1, Zenon DEF Onward, Same, HandlerShape, Fields
    <2> QED BY <1>1, <1>3, <2>2, ProvisionMove, Zenon
  <1>4. CASE w.pc \in RemovePlaces
    <2>1. x = NotRemoved(w) BY <1>1, <1>4, Zenon DEF OnError
    <2>2. w.op = Nil => x = Idle BY <1>s, <2>1, NextPortShape, Zenon
    <2>3. w.op # Nil => Elsewhere(w, x, {}, w.port) BY <1>s, <2>1, NextPortShape, Zenon
    <2>4. w.op # Nil => Elsewhere(w, x, RemovePlaces, w.port) BY <2>3, ZenonT(20) DEF Elsewhere
    <2>5. x.pc \notin {"dropAlloc", "dropAllocPurge"} BY <2>2, <2>3, IdleGood, ZenonT(20) DEF Elsewhere
    <2> QED BY <1>1, <1>4, <2>2, <2>4, <2>5, RemoveMove, Zenon
  <1>5. CASE w.pc \notin {"complete", "failProvision", "provision", "reserve", "pick", "create", "rollback", "giveBack", "giveBackPurge", "allocate"}
             /\ w.pc \notin RemovePlaces
    <2>1. l \in VMs /\ l \notin Callers
      BY <1>s, <1>5, Kinds, Zenon DEF FlowInv, Handling, Good, CallerPlace
    <2>2. Place(l, w, ops[w.op], ask[w.op], ops[w.req]) /\ w.op \in Ids /\ ~At(l, "idle")
      BY <1>s, <2>1, Acting, Zenon DEF At
    <2>3. CASE w.pc \in {"attach", "persist", "detach"} \/ (w.pc = "verify" /\ w.dir # "commit")
      <3>1. x = [w EXCEPT !.pc = "compensate"] BY <1>1, <2>3, Zenon DEF OnError
      <3>2. Same(w, x) /\ x.pc = "compensate" BY <1>s, <3>1, Zenon DEF Same, HandlerShape, Fields
      <3>3. PrepareAt(w, ops[w.op]) BY <2>2, <2>3, Zenon DEF Place, Preparing
      <3>4. PrepareAt(x, ops[w.op]) BY <2>3, <3>2, <3>3, Zenon DEF PrepareAt, Same
      <3> QED BY <1>1, <2>1, <2>3, <3>2, <3>4, PrepareMove, Zenon
    <2>4. CASE w.pc = "restore"
      <3>1. x = [w EXCEPT !.i = @ + 1, !.bad = 1] BY <1>1, <2>4, Zenon DEF OnError
      <3>2. Same(w, x) /\ x.pc = "restore" BY <1>s, <2>4, <3>1 DEF Same, HandlerShape, Fields
      <3>3. FinishAt(w) /\ ~Recovers(w) BY <2>2, <2>4, Zenon DEF Place, Finishing
      <3>4. FinishAt(x) BY <2>4, <3>2, <3>3, Zenon DEF FinishAt, Same
      <3> QED BY <1>1, <2>1, <2>4, <3>2, <3>3, <3>4, FinishMove, Zenon
    <2>5. CASE w.pc \in DropPlaces \cup {"delete"}
      <3>1. x = NotRemoved(w) BY <1>1, <2>5, Zenon DEF OnError
      <3>2. w.op # Nil BY <2>2, TxAssumption, Zenon
      <3>3. Elsewhere(w, x, {}, w.port) BY <1>s, <3>1, <3>2, NextPortShape, Zenon
      <3>4. FinishAt(w) /\ (Recovers(w) => Kind(w.op) = "template")
        BY <2>2, <2>5, Zenon DEF Place, Finishing, Templates
      <3>5. Same(w, x) /\ x.pc \in {"drop", "delete"} /\ FinishAt(x) /\ (Recovers(w) => x.pc = "delete")
        BY <2>5, <3>3, <3>4, Zenon DEF FinishAt, Same, Elsewhere
      <3> QED BY <1>1, <2>1, <2>5, <3>5, FinishMove, Zenon
    <2>6. CASE ~(w.pc \in {"attach", "persist", "detach"} \/ (w.pc = "verify" /\ w.dir # "commit")) /\ w.pc # "restore" /\ w.pc \notin DropPlaces \cup {"delete"}
      <3>1. x = Idle BY <1>1, <1>5, <2>6, Zenon DEF OnError
      <3> QED BY <1>1, <3>1, IdleMove, Zenon
    <2> QED BY <2>3, <2>4, <2>5, <2>6, Zenon
  <1> QED BY <1>2, <1>3, <1>4, <1>5, Zenon

\* The manager restarts.
LEMMA RestartInv == ASSUME FlowInv, Restart PROVE FlowInv'
  <1>1. DOMAIN h' = Handlers /\ (\A l \in Handlers : h'[l] = Idle) /\ UNCHANGED <<ops, ask, pve>>
    BY ZenonT(20) DEF Restart, world
  <1>2. Rows' /\ Slots' /\ OneTemplate' /\ Converted'
    BY <1>1, ZenonT(20) DEF FlowInv, Rows, Slots, OneTemplate, Converted
  <1>3. Handling' BY <1>1, IdleGood, Zenon DEF Handling, Good
  <1> QED BY <1>2, <1>3, Zenon DEF FlowInv

\* A step that moves no handler and changes no row of a transaction.
LEMMA QuietInv == ASSUME FlowInv, UNCHANGED <<ops, ask, pve, h>> PROVE FlowInv'
  <1>1. Rows' /\ Slots' /\ OneTemplate' /\ Converted'
    BY Zenon DEF FlowInv, Rows, Slots, OneTemplate, Converted
  <1>2. ASSUME NEW l \in Handlers PROVE Good(l)'
    BY Zenon DEF FlowInv, Handling, Good, Relies, TemplateAsked
  <1>3. Handling' BY <1>2, Zenon DEF FlowInv, Handling
  <1> QED BY <1>1, <1>3, Zenon DEF FlowInv

\* A user's request.
LEMMA APIInv == ASSUME FlowInv, NEW l \in Callers, APICall(l) PROVE FlowInv'
  <1>0. l \in Handlers /\ l \in DOMAIN h /\ DOMAIN h = Handlers BY Zenon DEF Handlers, FlowInv, Handling
  <1>1. PICK p \in APIPorts : provisionPort(l, p) \/ \E expected \in {ports[p].rev, ports[p].rev - 1} : deprovisionPort(l, p, expected)
    BY Zenon DEF APICall
  <1>2. Moves(l) /\ UNCHANGED <<ops, ask, pve>>
    BY <1>0, <1>1, ZenonT(20) DEF provisionPort, deprovisionPort, Called, Moves
  <1>3. HandlerShape(h'[l]) /\ CallerPlace(h'[l])
    <2>1. CASE provisionPort(l, p)
      <3>1. h'[l] = [Idle EXCEPT !.pc = "reserve", !.port = p] BY <1>0, <2>1, Zenon DEF provisionPort
      <3> QED BY <3>1 DEF Idle, HandlerShape, Fields, CallerPlace
    <2>2. ASSUME NEW expected, deprovisionPort(l, p, expected) PROVE HandlerShape(h'[l]) /\ CallerPlace(h'[l])
      <3>1. h'[l] = [Idle EXCEPT !.pc = "release", !.port = p, !.rev = expected, !.key = <<"deprovision", expected>>]
        BY <1>0, <2>2, Zenon DEF deprovisionPort
      <3> QED BY <3>1 DEF Idle, HandlerShape, Fields, CallerPlace
    <2> QED BY <1>1, <2>1, <2>2, Zenon
  <1>4. Good(l)' BY <1>3, Zenon DEF Good
  <1> QED BY <1>0, <1>2, <1>4, MoveInv, Zenon

\* Only a VM's handler is anywhere else than in provisioning or removing.
LEMMA CallerSteps ==
  ASSUME FlowInv, NEW l \in Callers, ~At(l, "idle")
  PROVE  ~(SnapshotStep(l) \/ SourceStep(l) \/ CloneStep(l))
  <1>1. h[l].pc \in ProvisionPlaces \cup RemovePlaces BY ZenonT(20) DEF At, FlowInv, Handling, Good, CallerPlace, Handlers
  <1>2. ~SnapshotStep(l)
    BY <1>1, Zenon DEF SnapshotStep, At, snapshotNew, snapshotOther, snapshotVerify, snapshotEnd, snapshotReply, snapshotClean,
       mutationNew, mutationVerify, mutationCheck, deleteSnapshotManifestExact, mutationEnd
  <1>3. ~SourceStep(l)
    BY <1>1, Zenon DEF SourceStep, At, captureSnapshotRefs, prepareNew, detachSourcePorts, prepareReply, failSourcePrepare, restoreSourcePorts,
       restoreEnd, finishCheck, deleteDetachedSourcePorts, deleteEnd, consumeTemplateBlueprint, deleteCapturedSnapshots, finishEnd,
       findCommittedTemplate
  <1>4. ~CloneStep(l)
    BY <1>1, Zenon DEF CloneStep, At, cloneNew, attachClonePort, verifyClonePorts, persistClonePrepared, failClonePrepare, cloneCheck,
       deletePreparingClonePort, deleteOwnedComputePort, deletePreparingCloneAllocation, purgeCloneAllocation, dropEnd
  <1> QED BY <1>2, <1>3, <1>4, Zenon

\* The start.
LEMMA FlowInit == Init => FlowInv
  <1> SUFFICES ASSUME Init PROVE FlowInv BY Zenon
  <1>1. Rows BY Zenon DEF Init, Rows, AskRow, Exists, NoOperation, TwoPhase
  <1>2. Slots BY ZenonT(20) DEF Init, Slots, Active, NoOperation
  <1>3. Handling BY IdleGood, ZenonT(20) DEF Init, Handling, Good
  <1>4. OneTemplate BY ZenonT(20) DEF Init, OneTemplate, InForce, Exists, NoOperation, Templates
  <1>5. Converted BY Zenon DEF Init, Converted, Templates
  <1> QED BY <1>1, <1>2, <1>3, <1>4, <1>5, Zenon DEF FlowInv

============================================================================
