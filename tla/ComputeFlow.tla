---------------------------- MODULE ComputeFlow ----------------------------
(***************************************************************************)
(* Where the handlers of the compute transactions may be: the inductive    *)
(* invariant behind SlotHeldOnce and Agreed, and the proof that the steps  *)
(* of snapshots, templates and destroys keep it.                           *)
(*                                                                         *)
(* FlowInv relates, for every handler, its place in the code to the phase  *)
(* of its transaction's row and to what PVE has asked for; it says which   *)
(* rows are in order, that a VM has one active transaction and one         *)
(* template in force, and that PVE's VM agrees with what PVE asked.        *)
(***************************************************************************)
EXTENDS ComputeResources, TLAPS

\* The VMs whose locks the handlers of transactions hold.
VMs == {Src} \cup Targets

\* The fields of a handler.
Fields == {"pc", "op", "req", "i", "port", "rev", "addr", "key", "used", "bad", "saw", "dir", "arev"}

HandlerShape(w) == DOMAIN w = Fields /\ w.i \in Nat

\* The fields of an operation row.
RowFields == {"action", "status", "phase", "slot", "pay"}

\* Which way a transaction in this phase goes.
DirOf(phase) ==
    CASE phase \in {"committing", "committed", "destroyed"} -> "commit"
      [] phase \in {"aborting", "aborted"} -> "abort"
      [] phase \in {"compensating", "compensated"} -> "undo"
      [] OTHER -> "open"

\* What PVE has asked for when a transaction goes that way.
AskOf(dir) == IF dir = "undo" THEN "none" ELSE dir

\* Phases in which a transaction has ended, and those in which it has not.
Ended == {"committed", "destroyed", "aborted", "compensated"}

Unended == {"preparing", "prepared", "captured", "committing", "aborting", "compensating"}

\* What a template's or a destroy's row records: the ports as they were found,
\* the snapshots and the template.
Payload(id, pay) == Kind(id) \in {"template", "destroy"} =>
    /\ DOMAIN pay = {"m", "snaps", "tmpl"} /\ pay.snaps \subseteq Snapshots
    /\ pay.tmpl \in IF Kind(id) = "template" THEN {Nil} ELSE Templates \cup {Nil}

\* A row of transaction id.
Row(id, r) ==
    /\ DOMAIN r = RowFields /\ r.action = Kind(id) /\ Payload(id, r.pay)
    /\ r.status \in {"running", "succeeded", "failed"}
    /\ r.slot = IF r.status = "running" THEN "active" ELSE "history"
    /\ id \in Snapshots => r.status = "running" <=> r.phase \in {"creating", "cleaning"}
    /\ id \in TwoPhase => /\ r.phase \in Ended \cup Unended
                          /\ r.status = "running" <=> r.phase \in Unended

\* What PVE asks for agrees with the row.
AskRow(id, r, a) == id \in TwoPhase =>
    /\ a \in {"none", "ready", "commit", "abort"}
    /\ ~Exists(r) => a = "none"
    /\ Exists(r) /\ DirOf(r.phase) # "open" => a = AskOf(DirOf(r.phase))
    /\ Exists(r) /\ DirOf(r.phase) = "open" => IF r.phase = "preparing" THEN a = "none" ELSE r.phase = Prepared(id)

\* The rows have their shape, and agree with what PVE asks for.
Rows == DOMAIN ops = Ids /\ DOMAIN ask = Ids /\ \A id \in Ids : (ops[id] = NoOperation \/ Row(id, ops[id])) /\ AskRow(id, ops[id], ask[id])

\* A VM has at most one active transaction.
Slots == \A i, j \in Ids : Tx[i].vm = Tx[j].vm /\ Active(ops[i]) /\ Active(ops[j]) => i = j

\* The places of handlers: provisioning, preparing a clone, removing a port,
\* snapshots, before a row exists, preparing, and finishing.
ProvisionPlaces == {"reserve", "pick", "create", "rollback", "giveBack", "giveBackPurge", "allocate",
                    "complete", "failProvision"}
ClonePlaces == ProvisionPlaces \cup {"provision", "attach"}
RemovePlaces == {"release", "releasePurge", "remove", "purge"}
DropPlaces == {"drop", "dropRelease", "dropAlloc", "dropAllocPurge"}
SnapPlaces == {"snapNew", "snapOther", "snapVerify", "snapEnd", "snapReply", "snapClean"}
NewPlaces == {"mutationNew", "capture", "findTemplate", "new", "cloneNew"}
PreparePlaces == ClonePlaces \cup {"mutationVerify", "detach", "reply", "compensate", "persist"}
FinishPlaces == RemovePlaces \cup DropPlaces
                \cup {"check", "mutationDelete", "mutationEnd", "restore", "delete", "deleteSnaps", "consume", "end"}

\* A handler w of a snapshot, when its row is o and PVE asks a for it.
Snapping(w, o, a) ==
    /\ w.op = w.req /\ w.op \in Snapshots /\ a = IF w.pc = "snapClean" THEN "undone" ELSE "wanted"
    /\ w.pc \in {"snapOther", "snapVerify", "snapEnd"} => Running(o, "snapshot") /\ o.phase = "creating"
    /\ w.pc = "snapReply" => o.status = "succeeded" /\ o.phase = "created"

\* A handler that has no row yet.
Beginning(w, o, a) ==
    /\ w.op = w.req /\ ~Exists(o) /\ a = "none" /\ w.dir = Nil
    /\ w.pc = "mutationNew" => Kind(w.op) = "mutation"
    /\ w.pc = "capture" => Kind(w.op) = "destroy"
    /\ w.pc = "findTemplate" => Kind(w.op) \in {"destroy", "clone"}
    /\ w.pc = "new" => Kind(w.op) \in {"template", "destroy"}
    /\ w.pc = "cloneNew" => Kind(w.op) = "clone"

\* A handler that prepares: the kind of its transaction, and the port it is at.
PrepareAt(w, o) ==
    /\ w.pc \in {"mutationVerify", "detach", "reply"} => o.phase # "preparing"
    /\ w.pc = "mutationVerify" => Kind(w.op) = "mutation"
    /\ w.pc = "detach" => Kind(w.op) \in {"template", "destroy"}
    /\ w.pc = "compensate" => Kind(w.op) \in {"template", "destroy", "clone"}
    /\ w.pc \in {"verify", "persist"} => Kind(w.op) = "clone"
    /\ w.pc \in ClonePlaces => /\ Kind(w.op) = "clone" /\ o.phase = "preparing"
                               /\ w.i \in CloneNICs(w.op) /\ w.port = <<w.op, w.i>>

Preparing(w, o, a) ==
    /\ w.op = w.req /\ w.op \in TwoPhase /\ a = "none" /\ w.dir = Nil
    /\ Running(o, Kind(w.op)) /\ DirOf(o.phase) = "open" /\ PrepareAt(w, o)

\* A handler that finishes: the kind and direction of its transaction, and the
\* port it is at.
FinishAt(w) ==
    /\ w.pc = "check" => w.dir # "undo"
    /\ w.pc = "mutationDelete" => Kind(w.op) = "mutation" /\ w.dir = "commit" /\ Tx[w.op].act = "delete"
    /\ w.pc = "mutationEnd" => Kind(w.op) = "mutation" /\ w.dir # "undo"
    /\ w.pc = "restore" => Kind(w.op) \in {"template", "destroy"} /\ w.dir # "commit"
    /\ w.pc = "delete" => Kind(w.op) \in {"template", "destroy"} /\ w.dir = "commit"
    /\ w.pc \in {"deleteSnaps", "consume"} => Kind(w.op) = "destroy" /\ w.dir = "commit"
    /\ w.pc = "end" => Kind(w.op) \in {"template", "destroy", "clone"}
    /\ w.pc \in DropPlaces => Kind(w.op) = "clone" /\ w.dir # "commit"
    /\ w.pc \in DropPlaces \ {"drop"} => w.i \in CloneNICs(w.op) /\ w.port = <<w.op, w.i>>
    /\ w.pc \in {"dropAlloc", "dropAllocPurge"} => w.rev \in {0, 1, 2}
    /\ w.pc \in RemovePlaces =>
         \/ Kind(w.op) = "clone" /\ w.dir # "commit" /\ w.i \in CloneNICs(w.op) /\ w.port = <<w.op, w.i>>
         \/ Kind(w.op) \in {"template", "destroy"} /\ w.dir = "commit" /\ w.i \in NICs /\ w.port = <<Src, w.i>>
    /\ w.pc = "verify" => Kind(w.op) = "clone"

Finishing(w, o, a) ==
    /\ w.op \in TwoPhase /\ w.dir \in {"commit", "abort", "undo"}
    /\ Exists(o) /\ DirOf(o.phase) = w.dir /\ a = AskOf(w.dir) /\ FinishAt(w)
    /\ w.pc = "consume" => o.pay.tmpl # Nil

\* The handler finishes a template's commit for another transaction.
Recovers(w) == w.op # w.req

\* What a prepare read before it has a row of its own.
Saw(w) ==
    /\ w.pc \in {"capture", "new"} => Payload(w.req, w.saw)
    /\ w.pc = "findTemplate" \/ Recovers(w) =>
         \/ Kind(w.req) = "clone" /\ DOMAIN w.saw = {"tmpl"}
         \/ Kind(w.req) = "destroy" /\ DOMAIN w.saw = {"m", "snaps", "tmpl"} /\ w.saw.snaps \subseteq Snapshots

\* Where a handler w of VM l may be, when its row is o, PVE asks a for it, and
\* the row it was called for is r.
Place(l, w, o, a, r) ==
    /\ w.req \in Ids /\ Tx[w.req].vm = l /\ w.op \in Ids /\ Saw(w)
    /\ w.pc \in SnapPlaces \cup NewPlaces \cup PreparePlaces \cup FinishPlaces \cup {"verify"}
    /\ w.pc \in SnapPlaces => Snapping(w, o, a)
    /\ w.pc \in NewPlaces => Beginning(w, o, a)
    /\ w.pc \in PreparePlaces \/ (w.pc = "verify" /\ w.dir # "commit") => Preparing(w, o, a)
    /\ w.pc \in FinishPlaces \/ (w.pc = "verify" /\ w.dir = "commit") => Finishing(w, o, a)
    /\ Recovers(w) => /\ w.op \in Templates /\ w.dir = "commit"
                      /\ Kind(w.req) \in {"clone", "destroy"} /\ ~Exists(r)
                      /\ w.pc \in RemovePlaces \cup {"check", "delete", "end"}

\* A handler of an API request.
CallerPlace(w) == w.op = Nil /\ w.port \in APIPorts /\ w.pc \in ProvisionPlaces \cup RemovePlaces

\* A template's row that was not given up.
InForce(r) == Exists(r) /\ r.phase \notin {"aborted", "compensated"}

\* PVE has converted the VM, and asked for the commit.
TemplateAsked == pve.vm # "vm" /\ \E t \in Templates : ask[t] = "commit"

\* What a handler of the source VM or of a clone's VM relies on.
Relies(w) ==
    /\ w.pc = "new" /\ Kind(w.req) = "template" => \A t \in Templates : ~InForce(ops[t])
    /\ w.pc = "findTemplate" \/ (w.pc # "idle" /\ Recovers(w)) => TemplateAsked

\* A handler is where it may be.
Good(l) == HandlerShape(h[l]) /\ (h[l].pc # "idle" =>
    IF l \in Callers THEN CallerPlace(h[l])
    ELSE Place(l, h[l], ops[h[l].op], ask[h[l].op], ops[h[l].req]) /\ Relies(h[l]))

Handling == DOMAIN h = Handlers /\ \A l \in Handlers : Good(l)

\* At most one template of the VM is in force.
OneTemplate == \A t, u \in Templates : InForce(ops[t]) /\ InForce(ops[u]) => t = u

\* What PVE has done agrees with what it asked for.
Converted ==
    /\ DOMAIN pve = {"vm", "snaps"} /\ pve.snaps \subseteq Snapshots
    /\ pve.vm \in {"vm", "template", "gone"}
    /\ \A id \in Ids : Kind(id) \in {"template", "destroy"} /\ ask[id] = "commit" => pve.vm # "vm"
    /\ pve.vm = "template" => \E t \in Templates : ask[t] = "commit"

FlowInv == Rows /\ Slots /\ Handling /\ OneTemplate /\ Converted

\* Only handler l moves.
Moves(l) == DOMAIN h' = Handlers /\ \A k \in Handlers : k # l => h'[k] = h[k]

\* The kinds of transactions and of handlers.
LEMMA Kinds == /\ \A id \in TwoPhase : id \in Ids /\ Kind(id) \in {"mutation", "template", "destroy", "clone"}
               /\ \A id \in Ids : id \in TwoPhase <=> Kind(id) # "snapshot"
               /\ Templates \subseteq TwoPhase
               /\ \A l \in VMs : l \in Handlers /\ l \notin Callers
               /\ \A l \in Handlers : l \in Callers \/ l \in VMs
  BY TxAssumption, SourceAssumption, CloneAssumption, Zenon
  DEF TwoPhase, Snapshots, Templates, VMs, Handlers, Targets, Clones

\* The row of a transaction that was never begun.
LEMMA NoRow == NoOperation.status = "absent" /\ NoOperation.slot = "none"
  BY DEF NoOperation

\* A step that only moves a handler.
LEMMA MoveInv ==
  ASSUME FlowInv, NEW l \in Handlers, Moves(l), UNCHANGED <<ops, ask, pve>>, Good(l)'
  PROVE  FlowInv'
  <1>1. Rows' /\ Slots' /\ OneTemplate' /\ Converted'
    BY Zenon DEF FlowInv, Rows, Slots, OneTemplate, Converted
  <1>2. ASSUME NEW k \in Handlers PROVE Good(k)'
    BY Zenon DEF FlowInv, Handling, Good, Moves, Relies, TemplateAsked
  <1> QED BY <1>1, <1>2, Zenon DEF FlowInv, Handling, Moves


\* Handler l writes r to the row of id.
RowChange(l, id, r) ==
    /\ ops' = [ops EXCEPT ![id] = r] /\ UNCHANGED <<ask, pve>>
    /\ Row(id, r) /\ AskRow(id, r, ask[id])
    /\ Active(r) => Active(ops[id]) \/ VMSlotFree(Tx[id].vm)
    /\ Tx[id].vm = l \/ (id \in Templates /\ ask[id] = "commit")
    /\ id \in TwoPhase /\ Exists(ops[id]) /\ DirOf(ops[id].phase) # "open" => DirOf(r.phase) = DirOf(ops[id].phase)
    /\ id \in Templates /\ InForce(r) =>
         InForce(ops[id]) \/ (~Exists(ops[id]) /\ \A t \in Templates : ~InForce(ops[t]))

\* A VM's free slot.
LEMMA FreeSlot == ASSUME NEW vm, VMSlotFree(vm), NEW id \in Ids, Tx[id].vm = vm PROVE ~Active(ops[id])
  BY Zenon DEF VMSlotFree, SlotFree

\* A handler elsewhere keeps its place when a row changes under it.
LEMMA OtherPlace ==
  ASSUME NEW l \in VMs, NEW k \in VMs, k # l, NEW w, NEW id \in Ids, NEW r, NEW a, NEW o, NEW q,
         Place(k, w, o, a, q),
         Tx[id].vm = l \/ (id \in Templates /\ a = "commit"), w.op = id,
         Row(id, r), AskRow(id, o, a),
         id \in TwoPhase /\ Exists(o) /\ DirOf(o.phase) # "open" => DirOf(r.phase) = DirOf(o.phase)
  PROVE  Place(k, w, r, a, q)
  <1>1. w.op \in Templates /\ a = "commit" /\ Finishing(w, o, a)
    BY TxAssumption, SourceAssumption, Kinds, Zenon
    DEF Place, Snapping, Beginning, Preparing, PrepareAt, Finishing, FinishAt, Recovers, AskOf,
        SnapPlaces, NewPlaces, PreparePlaces, FinishPlaces, ClonePlaces, ProvisionPlaces, RemovePlaces, DropPlaces, Templates, Snapshots, TwoPhase
  <1>2. Finishing(w, r, a)
    BY <1>1, Kinds, Zenon DEF Finishing, FinishAt, Row, Exists, DirOf, Templates
  <1> QED
    BY <1>1, <1>2, TxAssumption, Zenon
    DEF Place, Snapping, Beginning, Preparing, PrepareAt, Snapshots, Templates, TwoPhase,
        SnapPlaces, NewPlaces, PreparePlaces, FinishPlaces, ClonePlaces, ProvisionPlaces, RemovePlaces, DropPlaces

\* A step of l that also changes the row of id.
LEMMA RowInv ==
  ASSUME FlowInv, NEW l \in VMs, Moves(l), NEW id \in Ids, NEW r, RowChange(l, id, r), Good(l)'
  PROVE  FlowInv'
  <1>1. Rows'
    BY Zenon DEF FlowInv, Rows, RowChange
  <1>2. Slots'
    BY FreeSlot, Zenon DEF FlowInv, Rows, Slots, RowChange
  <1>3. OneTemplate' /\ Converted'
    BY Kinds, Zenon DEF FlowInv, Rows, OneTemplate, Converted, RowChange, TwoPhase
  <1>4. ASSUME NEW k \in Handlers PROVE Good(k)'
    <2>1. CASE k = l BY <2>1, Zenon
    <2>2. CASE k \in Callers
      BY <2>2, Kinds, Zenon DEF FlowInv, Handling, Good, Moves
    <2>3. CASE k \in VMs /\ k # l /\ h[k].pc # "idle"
      <3> DEFINE w == h[k]
      <3>1. Place(k, w, ops[w.op], ask[w.op], ops[w.req]) /\ Relies(w) /\ HandlerShape(w) /\ h'[k] = w
        BY <2>3, Kinds, Zenon DEF FlowInv, Handling, Good, Moves
      <3>2. w.op \in Ids /\ w.req \in Ids /\ Tx[w.req].vm = k
        BY <3>1, Zenon DEF Place
      <3>3. Recovers(w) => ops'[w.req] = ops[w.req]
        BY <3>1, <3>2, <2>3, Zenon DEF FlowInv, Rows, Place, Recovers, RowChange, Templates
      <3>4. Place(k, w, ops'[w.op], ask'[w.op], ops'[w.req])
        <4>1. ask' = ask BY Zenon DEF RowChange
        <4>2. Place(k, w, ops[w.op], ask[w.op], ops'[w.req])
          BY <3>1, <3>3, Zenon DEF Place
        <4>3. CASE w.op # id
          BY <4>1, <4>2, <4>3, <3>2, Zenon DEF FlowInv, Rows, RowChange
        <4>4. CASE w.op = id
          <5>1. ops'[id] = r BY Zenon DEF FlowInv, Rows, RowChange
          <5>2. Place(k, w, r, ask[w.op], ops'[w.req])
            BY <4>2, <4>4, <2>3, OtherPlace DEF FlowInv, Rows, RowChange
          <5> QED BY <5>1, <5>2, <4>1, <4>4, Zenon
        <4> QED BY <4>3, <4>4, Zenon
      <3>5. Relies(w)'
        <4>1. w.pc = "new" /\ Kind(w.req) = "template" => \A t \in Templates : ~InForce(ops'[t])
          <5> SUFFICES ASSUME w.pc = "new", Kind(w.req) = "template", NEW t \in Templates PROVE ~InForce(ops'[t])
            BY Zenon
          <5>1. k = Src /\ ~InForce(ops[t])
            BY <3>1, <3>2, SourceAssumption, ZenonT(20) DEF Relies
          <5>2. id \in Templates /\ ~Exists(ops[id]) => Tx[id].vm = l /\ Tx[id].vm = Src
            BY SourceAssumption, Kinds, Zenon DEF FlowInv, Rows, AskRow, RowChange, Templates, TwoPhase
          <5>3. t \in Ids BY Zenon DEF Templates
          <5> QED BY <5>1, <5>2, <5>3, <2>3, <3>1, Zenon DEF FlowInv, Rows, RowChange, Relies
        <4> QED BY <4>1, <3>1, <2>3, ZenonT(20) DEF Relies, TemplateAsked, RowChange, Moves
      <3> QED BY <3>1, <3>4, <3>5, <2>3, Kinds, Zenon DEF Good
    <2>4. CASE k # l /\ h[k].pc = "idle"
      BY <2>4, Zenon DEF FlowInv, Handling, Good, Moves
    <2> QED BY <2>1, <2>2, <2>3, <2>4, Kinds, Zenon
  <1> QED BY <1>1, <1>2, <1>3, <1>4, Zenon DEF FlowInv, Handling, Moves

\* PVE asks a for id.
AskChange(id, a) ==
    /\ ask' = [ask EXCEPT ![id] = a] /\ UNCHANGED ops /\ AskRow(id, ops[id], a)
    /\ ask[id] \notin {"commit", "abort"}

\* What PVE asks for changes only for a transaction that no handler is at.
LEMMA AskInv ==
  ASSUME FlowInv, DOMAIN h' = Handlers, NEW l, \A k \in Handlers : k # l => h'[k] = h[k],
         NEW id \in Ids, NEW a, AskChange(id, a), Converted',
         pve.vm # "vm" => pve'.vm # "vm", l \in Handlers => Good(l)',
         \A k \in VMs : k # l /\ h[k].pc # "idle" => h[k].op # id
  PROVE  FlowInv'
  <1>1. Rows' /\ Slots' /\ OneTemplate'
    BY Zenon DEF FlowInv, Rows, Slots, OneTemplate, AskChange
  <1>2. TemplateAsked => TemplateAsked'
    BY Zenon DEF TemplateAsked, AskChange, FlowInv, Rows, Templates
  <1>3. ASSUME NEW k \in Handlers PROVE Good(k)'
    <2>1. CASE k = l BY <2>1, Zenon
    <2>2. CASE k # l /\ k \in VMs /\ h[k].pc # "idle"
      <3> DEFINE w == h[k]
      <3>1. Place(k, w, ops[w.op], ask[w.op], ops[w.req]) /\ Relies(w) /\ HandlerShape(w) /\ h'[k] = w
        BY <2>2, Kinds, Zenon DEF FlowInv, Handling, Good
      <3>2. ask'[w.op] = ask[w.op] /\ ops' = ops
        BY <3>1, <2>2, Zenon DEF AskChange, Place, FlowInv, Rows
      <3>3. Relies(w)'
        BY <3>1, <3>2, <1>2, ZenonT(20) DEF Relies
      <3> QED BY <2>2, <3>1, <3>2, <3>3, Kinds, Zenon DEF Good
    <2>3. CASE k # l /\ ~(k \in VMs /\ h[k].pc # "idle")
      BY <2>3, Kinds, Zenon DEF FlowInv, Handling, Good
    <2> QED BY <2>1, <2>2, <2>3, Zenon
  <1> QED BY <1>1, <1>3, Zenon DEF FlowInv, Handling


\* A handler that is at a transaction knows what PVE asks for in it.
LEMMA AskAt ==
  ASSUME FlowInv, NEW k \in VMs, h[k].pc # "idle"
  PROVE  /\ h[k].op \in Ids /\ h[k].req \in Ids /\ Tx[h[k].req].vm = k
         /\ ask[h[k].op] \in {"wanted", "undone", "none", "commit", "abort"}
         /\ h[k].op \in Snapshots => k = Src /\ ask[h[k].op] \in {"wanted", "undone"}
  <1> DEFINE w == h[k]
             a == ask[w.op]
  <1>1. Place(k, w, ops[w.op], a, ops[w.req]) BY Kinds, Zenon DEF FlowInv, Handling, Good
  <1>2. w.op \in Ids /\ w.req \in Ids /\ Tx[w.req].vm = k BY <1>1, Zenon DEF Place
  <1>3. CASE Snapping(w, ops[w.op], a)
    <2>1. w.op = w.req /\ w.op \in Snapshots /\ a \in {"wanted", "undone"} BY <1>3, Zenon DEF Snapping
    <2>2. k = Src BY <1>2, <2>1, SourceAssumption, Zenon DEF Snapshots
    <2> QED BY <1>2, <2>1, <2>2, Zenon
  <1>4. CASE w.pc \in NewPlaces /\ Beginning(w, ops[w.op], a)
    <2>1. a = "none" /\ Kind(w.op) # "snapshot" BY <1>4, Zenon DEF Beginning, NewPlaces
    <2> QED BY <1>2, <2>1, Zenon DEF Snapshots
  <1>5. CASE Preparing(w, ops[w.op], a)
    <2>1. a = "none" /\ w.op \notin Snapshots BY <1>5, Zenon DEF Preparing, TwoPhase
    <2> QED BY <1>2, <2>1, Zenon
  <1>6. CASE Finishing(w, ops[w.op], a)
    <2>1. a \in {"none", "commit", "abort"} /\ w.op \notin Snapshots BY <1>6, Zenon DEF Finishing, TwoPhase, AskOf
    <2> QED BY <1>2, <2>1, Zenon
  <1>7. \/ w.pc \in SnapPlaces \/ w.pc \in NewPlaces
        \/ w.pc \in PreparePlaces \/ (w.pc = "verify" /\ w.dir # "commit")
        \/ w.pc \in FinishPlaces \/ (w.pc = "verify" /\ w.dir = "commit")
    BY <1>1, Zenon DEF Place
  <1> QED BY <1>1, <1>3, <1>4, <1>5, <1>6, <1>7, Zenon DEF Place

\* PVE's own steps.
LEMMA PVEInv ==
  ASSUME FlowInv, NEW id \in Ids, PVECommits(id) \/ PVEAborts(id) \/ PVESnapshot(id) \/ PVEUndoSnapshot(id)
  PROVE  FlowInv'
  <1>0. Nil \notin Handlers
    BY SourceAssumption, CloneAssumption, CallerAssumption, Zenon DEF Handlers, Targets, Clones
  <1>1. CASE PVECommits(id)
    <2>1. AskChange(id, "commit") /\ h' = h
      BY <1>1, Zenon DEF PVECommits, AskChange, FlowInv, Rows, AskRow, AskOf, DirOf
    <2>2. Converted'
      BY <1>1, TxAssumption, Zenon DEF PVECommits, PVEDone, FlowInv, Converted, Templates, Rows
    <2>3. pve.vm # "vm" => pve'.vm # "vm"
      BY <1>1, ZenonT(20) DEF PVECommits, PVEDone, FlowInv, Converted
    <2>4. \A k \in VMs : h[k].pc # "idle" => h[k].op # id
      BY <1>1, AskAt, ZenonT(20) DEF PVECommits
    <2> QED BY <2>1, <2>2, <2>3, <2>4, <1>0, AskInv, Zenon DEF FlowInv, Handling
  <1>2. CASE PVEAborts(id)
    <2>1. AskChange(id, "abort") /\ h' = h /\ pve' = pve
      BY <1>2, Zenon DEF PVEAborts, AskChange, FlowInv, Rows, AskRow, AskOf, DirOf
    <2>2. Converted'
      BY <1>2, TxAssumption, ZenonT(20) DEF PVEAborts, FlowInv, Converted, Templates, Rows
    <2>4. \A k \in VMs : h[k].pc # "idle" => h[k].op # id
      BY <1>2, AskAt, ZenonT(20) DEF PVEAborts
    <2> QED BY <2>1, <2>2, <2>4, <1>0, AskInv, Zenon DEF FlowInv, Handling
  <1>3. CASE PVESnapshot(id)
    <2>1. AskChange(id, "wanted") /\ h' = h
      BY <1>3, Zenon DEF PVESnapshot, AskChange, AskRow, Snapshots, TwoPhase, FlowInv, Rows
    <2>2. Converted' /\ pve'.vm = pve.vm
      BY <1>3, TxAssumption, Zenon DEF PVESnapshot, FlowInv, Converted, Templates, Rows, Snapshots
    <2>4. \A k \in VMs : h[k].pc # "idle" => h[k].op # id
      BY <1>3, AskAt, ZenonT(20) DEF PVESnapshot
    <2> QED BY <2>1, <2>2, <2>4, <1>0, AskInv, Zenon DEF FlowInv, Handling
  <1>4. CASE PVEUndoSnapshot(id)
    <2>1. AskChange(id, "undone") /\ h' = h
      BY <1>4, Zenon DEF PVEUndoSnapshot, AskChange, AskRow, Snapshots, TwoPhase, FlowInv, Rows
    <2>2. Converted' /\ pve'.vm = pve.vm
      BY <1>4, TxAssumption, Zenon DEF PVEUndoSnapshot, FlowInv, Converted, Templates, Rows, Snapshots
    <2>4. \A k \in VMs : h[k].pc # "idle" => h[k].op # id
      BY <1>4, AskAt, Zenon DEF PVEUndoSnapshot, At
    <2> QED BY <2>1, <2>2, <2>4, <1>0, AskInv, Zenon DEF FlowInv, Handling
  <1> QED BY <1>1, <1>2, <1>3, <1>4, Zenon

USE DEF Saw, SnapPlaces, NewPlaces, PreparePlaces, FinishPlaces, ClonePlaces, RemovePlaces, ProvisionPlaces, DropPlaces

\* A handler at work on a VM is where its row lets it be.
LEMMA Acting ==
  ASSUME FlowInv, NEW l \in VMs, ~At(l, "idle")
  PROVE  /\ Place(l, h[l], ops[h[l].op], ask[h[l].op], ops[h[l].req]) /\ Relies(h[l]) /\ HandlerShape(h[l])
         /\ h[l].op \in Ids /\ h[l].req \in Ids /\ Tx[h[l].req].vm = l
         /\ l \in Handlers /\ l \notin Callers /\ l \in DOMAIN h
         /\ ops[h[l].op] = NoOperation \/ Row(h[l].op, ops[h[l].op])
         /\ AskRow(h[l].op, ops[h[l].op], ask[h[l].op])
         /\ DOMAIN ops = Ids /\ DOMAIN ask = Ids
  BY Kinds, Zenon DEF At, FlowInv, Handling, Good, Place, Rows

\* Two handlers are at the same transaction only when one recovers a template.
LEMMA Alone ==
  ASSUME FlowInv, NEW l \in VMs, NEW k \in VMs, k # l, h[l].pc # "idle", h[k].pc # "idle", h[k].op = h[l].op
  PROVE  h[l].op \in Templates /\ ask[h[l].op] = "commit"
  <1>1. ASSUME NEW j \in VMs, h[j].pc # "idle", Recovers(h[j]) PROVE h[j].op \in Templates /\ ask[h[j].op] = "commit"
    <2>1. Place(j, h[j], ops[h[j].op], ask[h[j].op], ops[h[j].req]) BY <1>1, Acting, Zenon DEF At
    <2>2. h[j].op \in Templates /\ h[j].dir = "commit" /\ Finishing(h[j], ops[h[j].op], ask[h[j].op]) BY <1>1, <2>1, Zenon DEF Place
    <2> QED BY <2>2, Zenon DEF Finishing, AskOf
  <1>2. Tx[h[k].req].vm = k /\ Tx[h[l].req].vm = l
    BY Acting, Zenon DEF At
  <1> QED BY <1>1, <1>2, Zenon DEF Recovers

\* An idle handler is in good order.
LEMMA IdleGood == HandlerShape(Idle) /\ Idle.pc = "idle"
  BY Zenon DEF HandlerShape, Idle, Fields

\* The record x of a handler that goes on with the same transaction.
Same(w, x) == HandlerShape(x) /\ x.op = w.op /\ x.req = w.req /\ x.dir = w.dir /\ x.saw = w.saw

\* A step that ends the handler's request and changes no row.
LEMMA IdleMove ==
  ASSUME FlowInv, NEW l \in Handlers, Moves(l), UNCHANGED <<ops, ask, pve>>, h'[l] = Idle
  PROVE  FlowInv'
  BY MoveInv, IdleGood, Zenon DEF Good

\* A finish that goes on from one place to another, whatever other row it changed.
LEMMA FinishGood ==
  ASSUME FlowInv, NEW l \in VMs, ~At(l, "idle"), UNCHANGED <<ask, pve>>,
         ops'[h[l].op] = ops[h[l].op], ops'[h[l].req] = ops[h[l].req],
         h[l].pc \in FinishPlaces \/ (h[l].pc = "verify" /\ h[l].dir = "commit"),
         Same(h[l], h'[l]), FinishAt(h'[l]), h'[l].pc = "consume" => ops[h[l].op].pay.tmpl # Nil,
         h'[l].pc \in FinishPlaces \/ (h'[l].pc = "verify" /\ h[l].dir = "commit"),
         Recovers(h[l]) => h'[l].pc \in RemovePlaces \cup {"check", "delete", "end"}
  PROVE  Good(l)'
  <1> DEFINE w == h[l]
             x == h'[l]
  <1>1. /\ Place(l, w, ops[w.op], ask[w.op], ops[w.req]) /\ Relies(w) /\ l \in Handlers /\ l \notin Callers
    BY Acting, Zenon
  <1>2. Finishing(w, ops[w.op], ask[w.op])
    BY <1>1, Zenon DEF Place
  <1>3. Finishing(x, ops'[x.op], ask'[x.op])
    BY <1>2, Zenon DEF Same, Finishing
  <1>4. Place(l, x, ops'[x.op], ask'[x.op], ops'[x.req])
    BY <1>1, <1>3, Zenon DEF Place, Same, Recovers
  <1>5. Relies(h[l])'
    BY <1>1, Zenon DEF Relies, Same, TemplateAsked, Recovers
  <1> QED BY <1>1, <1>4, <1>5, Zenon DEF Good, Same

\* A step from one place of a finish to another.
LEMMA FinishMove ==
  ASSUME FlowInv, NEW l \in VMs, Moves(l), UNCHANGED <<ops, ask, pve>>,
         h[l].pc \in FinishPlaces \/ (h[l].pc = "verify" /\ h[l].dir = "commit"),
         Same(h[l], h'[l]), FinishAt(h'[l]), h'[l].pc = "consume" => ops[h[l].op].pay.tmpl # Nil,
         h'[l].pc \in FinishPlaces \/ (h'[l].pc = "verify" /\ h[l].dir = "commit"),
         Recovers(h[l]) => h'[l].pc \in RemovePlaces \cup {"check", "delete", "end"}
  PROVE  FlowInv'
  <1>1. ~At(l, "idle") /\ l \in Handlers BY Kinds, Zenon DEF At
  <1>2. Good(l)' BY <1>1, FinishGood, Zenon
  <1> QED BY <1>1, <1>2, MoveInv, Zenon

\* A step from one place of a prepare to another.
LEMMA PrepareMove ==
  ASSUME FlowInv, NEW l \in VMs, Moves(l), UNCHANGED <<ops, ask, pve>>,
         h[l].pc \in PreparePlaces \/ (h[l].pc = "verify" /\ h[l].dir # "commit"),
         Same(h[l], h'[l]), PrepareAt(h'[l], ops[h[l].op]),
         h'[l].pc \in PreparePlaces \/ (h'[l].pc = "verify" /\ h[l].dir # "commit")
  PROVE  FlowInv'
  <1>0. ~At(l, "idle") BY Zenon DEF At
  <1> DEFINE w == h[l]
             x == h'[l]
  <1>1. /\ Place(l, w, ops[w.op], ask[w.op], ops[w.req]) /\ Relies(w) /\ l \in Handlers /\ l \notin Callers
    BY <1>0, Acting, Zenon
  <1>2. Preparing(w, ops[w.op], ask[w.op])
    BY <1>1, Zenon DEF Place
  <1>3. Preparing(x, ops[x.op], ask[x.op])
    BY <1>2, Zenon DEF Same, Preparing
  <1>4. Place(l, x, ops[x.op], ask[x.op], ops[x.req])
    BY <1>1, <1>3, Zenon DEF Place, Same, Recovers, Preparing
  <1>5. Relies(h[l])'
    BY <1>1, <1>3, Zenon DEF Relies, Same, TemplateAsked, Recovers, Preparing
  <1>6. Good(l)'
    BY <1>1, <1>4, <1>5, Zenon DEF Good, Same
  <1> QED BY <1>1, <1>6, MoveInv, Zenon

\* The record x of a handler that goes on to a port of its loop, or out of it.
Elsewhere(w, x, pcs, p) ==
    /\ Same(w, x)
    /\ \/ x.pc = IF Kind(w.op) = "clone" THEN "drop" ELSE "delete"
       \/ x.pc \in pcs /\ x.i = w.i /\ x.port = p

\* The next port of a loop.
LEMMA NextPortShape ==
  ASSUME NEW w, HandlerShape(w), NEW pcs, NEW p
  PROVE  /\ Elsewhere(w, NextPort(w), pcs, p) /\ Elsewhere(w, [NextPort(w) EXCEPT !.bad = 1], pcs, p)
         /\ w.op # Nil => Elsewhere(w, NotRemoved(w), pcs, p) /\ Elsewhere(w, Removed(w), pcs, p)
         /\ w.op = Nil => NotRemoved(w) = Idle /\ Removed(w) = Idle
  BY DEF HandlerShape, Fields, Elsewhere, Same, NextPort, NotRemoved, Removed

\* The end of a claimed transaction.
LEMMA EndChange ==
  ASSUME FlowInv, NEW l \in VMs, ~At(l, "idle"), Finishing(h[l], ops[h[l].op], ask[h[l].op]), NEW after, terminalizeClaimed(l, after)
  PROVE  LET o == h[l].op
             r == terminalizeClaimedComputeOperation(ops[o], EndOf(h[l].dir), StatusOf(h[l].dir))
         IN /\ Moves(l) /\ (h'[l] = after \/ h'[l] = Idle)
            /\ \/ UNCHANGED <<ops, ask, pve>> /\ h'[l] = Idle
               \/ RowChange(l, o, r) /\ h'[l] = after
  <1> DEFINE w == h[l]
             o == w.op
             r == terminalizeClaimedComputeOperation(ops[o], EndOf(w.dir), StatusOf(w.dir))
             ok == Terminalizable(ops[w.op], Kind(w.op), ClaimOf(w.dir), EndOf(w.dir), StatusOf(w.dir))
  <1>0. /\ o \in Ids /\ l \in Handlers /\ l \in DOMAIN h /\ o \in TwoPhase
        /\ Exists(ops[o]) /\ Row(o, ops[o]) /\ DirOf(ops[o].phase) = w.dir /\ ask[o] = AskOf(w.dir)
        /\ w.dir \in {"commit", "abort", "undo"} /\ DOMAIN ops = Ids
        /\ Tx[o].vm = l \/ (o \in Templates /\ ask[o] = "commit")
    <2>1. /\ o \in Ids /\ l \in Handlers /\ l \in DOMAIN h /\ DOMAIN ops = Ids
          /\ ops[o] = NoOperation \/ Row(o, ops[o])
          /\ Tx[w.req].vm = l /\ (Recovers(w) => w.op \in Templates /\ w.dir = "commit")
      BY Acting, Zenon DEF Place
    <2> QED BY <2>1, NoRow, Zenon DEF Finishing, Exists, Recovers, AskOf
  <1>1. Moves(l) /\ (h'[l] = after \/ h'[l] = Idle)
    BY <1>0, ZenonT(20) DEF terminalizeClaimed, Moves, Try, FlowInv, Handling
  <1>2. CASE ~ok
    BY <1>0, <1>1, <1>2, Zenon DEF terminalizeClaimed, Try, world
  <1>3. CASE ok
    <2>1. h'[l] = after /\ ops' = [ops EXCEPT ![o] = r] /\ UNCHANGED <<ask, pve>>
      BY <1>0, <1>3, ZenonT(20) DEF terminalizeClaimed, Try, world
    <2>2. Row(o, r) /\ Exists(r) /\ DirOf(r.phase) = w.dir /\ ~Active(r)
      BY <1>0, <1>3 DEF Terminalizable, terminalizeClaimedComputeOperation, Row, RowFields, EndOf, StatusOf, ClaimOf, Exists, DirOf, Active,
          Ended, Unended, TwoPhase
    <2>3. AskRow(o, r, ask[o])
      BY <1>0, <2>2, Zenon DEF AskRow, AskOf
    <2>4. InForce(r) => InForce(ops[o])
      BY <1>0, <2>2, Zenon DEF InForce, DirOf, Row, Exists, terminalizeClaimedComputeOperation, RowFields, EndOf
    <2>5. RowChange(l, o, r)
      BY <1>0, <2>1, <2>2, <2>3, <2>4, Zenon DEF RowChange
    <2> QED BY <1>1, <2>1, <2>5, Zenon
  <1> QED BY <1>2, <1>3, Zenon

\* A handler that answers.
LEMMA Answer ==
  ASSUME FlowInv, NEW l \in VMs, Moves(l), NEW id \in Ids, NEW a, AskChange(id, a), Converted', pve' = pve, Good(l)',
         \A k \in VMs : k # l /\ h[k].pc # "idle" => h[k].op # id
  PROVE  FlowInv'
  <1>1. DOMAIN h' = Handlers /\ \A k \in Handlers : k # l => h'[k] = h[k] BY Zenon DEF Moves
  <1>2. pve.vm # "vm" => pve'.vm # "vm" BY Zenon
  <1>3. l \in Handlers => Good(l)' BY Zenon
  <1> QED BY <1>1, <1>2, <1>3, AskInv

\* A handler of a snapshot that goes on.
LEMMA SnapGood ==
  ASSUME FlowInv, NEW l \in VMs, ~At(l, "idle"), h[l].pc \in SnapPlaces, UNCHANGED ask,
         Same(h[l], h'[l]), h'[l].pc \in SnapPlaces, Snapping(h'[l], ops'[h[l].op], ask[h[l].op])
  PROVE  Good(l)'
  <1> DEFINE w == h[l]
             x == h'[l]
             o == ops'[w.op]
  <1>1. /\ w.req \in Ids /\ Tx[w.req].vm = l /\ w.op \in Ids /\ l \notin Callers /\ l \in Handlers
        /\ w.op = w.req
    BY Acting, Zenon DEF Place, Snapping
  <1>2. x.op = w.op /\ x.req = w.req /\ HandlerShape(x) BY Zenon DEF Same
  <1>3. ~Recovers(x) /\ x.pc \in SnapPlaces /\ Snapping(x, o, ask[w.op]) BY <1>1, <1>2, Zenon DEF Recovers
  <1>4. Place(l, x, o, ask[w.op], o) BY <1>1, <1>2, <1>3, Zenon DEF Place
  <1>5. Relies(h[l])' BY <1>3, Zenon DEF Relies, Recovers
  <1> QED BY <1>1, <1>2, <1>4, <1>5, Zenon DEF Good

\* A snapshot's row that ends.
LEMMA SnapEnded ==
  ASSUME NEW l, NEW s \in Snapshots, Tx[s].vm = l, Row(s, ops[s]),
         NEW phase \in {"created", "conflicted", "deleted"}, NEW status \in {"succeeded", "failed"},
         NEW r, r = terminalizeClaimedComputeOperation(ops[s], phase, status),
         ops' = [ops EXCEPT ![s] = r], UNCHANGED <<ask, pve>>
  PROVE  RowChange(l, s, r)
  <1>1. Row(s, r) /\ ~Active(r)
    BY DEF Row, RowFields, Active, TwoPhase, terminalizeClaimedComputeOperation
  <1> QED BY <1>1, Zenon DEF RowChange, AskRow, TwoPhase, Templates, Snapshots

\* The steps of snapshots and of their deletes and rollbacks (computeSnapshotCreate,
\* computeSnapshotCleanup, computeSnapshotPrepare and their finish).
LEMMA SnapshotInv == ASSUME FlowInv, NEW l \in VMs, ~At(l, "idle"), SnapshotStep(l) PROVE FlowInv'
  <1> DEFINE w == h[l]
  <1>0. /\ Place(l, w, ops[w.op], ask[w.op], ops[w.req]) /\ Relies(w) /\ HandlerShape(w)
        /\ w.op \in Ids /\ w.req \in Ids /\ Tx[w.req].vm = l
        /\ l \in Handlers /\ l \notin Callers /\ l \in DOMAIN h
        /\ ops[w.op] = NoOperation \/ Row(w.op, ops[w.op])
        /\ AskRow(w.op, ops[w.op], ask[w.op])
        /\ DOMAIN ops = Ids /\ DOMAIN ask = Ids
    BY Acting, Zenon
  <1>s. HandlerShape(w) BY <1>0, Zenon
  <1>p. ASSUME w.pc \in SnapPlaces
        PROVE  /\ Snapping(w, ops[w.op], ask[w.op]) /\ w.op = w.req /\ w.op \in Snapshots /\ Tx[w.op].vm = l
               /\ w.pc # "snapClean" => ask[w.op] = "wanted"
               /\ w.pc \in {"snapOther", "snapVerify", "snapEnd"} => Row(w.op, ops[w.op])
    BY <1>0, <1>p, NoRow, Zenon DEF Place, Snapping, Running
  <1>1. CASE snapshotNew(l)
    <2>0. w.pc = "snapNew" BY <1>1, Zenon DEF snapshotNew, At
    <2>1. Moves(l) BY <1>1, ZenonT(20) DEF snapshotNew, Moves, Goto, Done, FlowInv, Handling
    <2>2. CASE VMSlotFree(Src)
      <3> DEFINE r == createComputeOperation("snapshot", "creating", Nil)
                 x == [w EXCEPT !.pc = "snapOther"]
      <3>1. ops' = [ops EXCEPT ![w.op] = r] /\ UNCHANGED <<ask, pve>> /\ h'[l] = x
        BY <1>0, <1>1, <2>2, Zenon DEF snapshotNew, Goto, world
      <3>2. RowChange(l, w.op, r)
        BY <1>0, <1>p, <2>0, <2>2, <3>1, SourceAssumption, Zenon DEF Payload, RowChange, createComputeOperation, Row, RowFields,
          AskRow, Snapshots, TwoPhase, Active, Templates
      <3>3. Running(r, "snapshot") /\ r.phase = "creating" /\ ops'[w.op] = r
        BY <1>0, <3>1, Zenon DEF Running, createComputeOperation
      <3> HIDE DEF r
      <3>4. Same(w, x) /\ x.pc = "snapOther" BY <1>s, Zenon DEF Same, HandlerShape, Fields
      <3> HIDE DEF x
      <3>5. Snapping(x, r, ask[w.op]) BY <1>p, <2>0, <3>3, <3>4, Zenon DEF Snapping, Same
      <3>6. Good(l)' BY <2>0, <3>1, <3>3, <3>4, <3>5, SnapGood, Zenon
      <3> QED BY <3>2, <3>6, <2>1, <1>0, RowInv, Zenon
    <2>3. CASE ~VMSlotFree(Src)
      BY <1>0, <1>1, <2>1, <2>3, IdleMove, Zenon DEF snapshotNew, Done, world
    <2> QED BY <2>2, <2>3, Zenon
  <1>2. CASE snapshotOther(l)
    <2>0. w.pc = "snapOther" BY <1>2, Zenon DEF snapshotOther, At
    <2>1. Moves(l) BY <1>2, Zenon DEF snapshotOther, Moves, Try, FlowInv, Handling
    <2>2. CASE findActiveSnapshotByNameExcept(w.op) # {}
      <3> DEFINE r == terminalizeClaimedComputeOperation(ops[w.op], "conflicted", "failed")
      <3>1. ops' = [ops EXCEPT ![w.op] = r] /\ UNCHANGED <<ask, pve>> /\ h'[l] = Idle
        BY <1>0, <1>2, <2>2, Zenon DEF snapshotOther, Try, world
      <3>2. RowChange(l, w.op, r) BY <1>p, <2>0, <3>1, SnapEnded, Zenon
      <3>3. Good(l)' BY <3>1, IdleGood, Zenon DEF Good
      <3> QED BY <3>2, <3>3, <2>1, <1>0, RowInv, Zenon
    <2>3. CASE findActiveSnapshotByNameExcept(w.op) = {}
      <3> DEFINE x == [w EXCEPT !.pc = "snapVerify"]
      <3>1. UNCHANGED <<ops, ask, pve>> /\ h'[l] = x
        BY <1>0, <1>2, <2>3, Zenon DEF snapshotOther, Try, world
      <3>2. Same(w, x) /\ x.pc = "snapVerify" BY <1>s, Zenon DEF Same, HandlerShape, Fields
      <3> HIDE DEF x
      <3>3. Snapping(x, ops[w.op], ask[w.op]) BY <1>p, <2>0, <3>2, Zenon DEF Snapping, Same
      <3>4. Good(l)' BY <2>0, <3>1, <3>2, <3>3, SnapGood, Zenon
      <3> QED BY <1>0, <2>1, <3>1, <3>4, MoveInv, Zenon
    <2> QED BY <2>2, <2>3, Zenon
  <1>3. CASE snapshotVerify(l)
    <2>0. w.pc = "snapVerify" BY <1>3, Zenon DEF snapshotVerify, At
    <2>1. Moves(l) BY <1>3, Zenon DEF snapshotVerify, Moves, Try, FlowInv, Handling
    <2> DEFINE x == [w EXCEPT !.pc = "snapEnd"]
    <2>2. UNCHANGED <<ops, ask, pve>> /\ h'[l] \in {x, Idle}
      BY <1>0, <1>3, Zenon DEF snapshotVerify, Try, world
    <2>3. Same(w, x) /\ x.pc = "snapEnd" BY <1>s, Zenon DEF Same, HandlerShape, Fields
    <2> HIDE DEF x
    <2>4. Snapping(x, ops[w.op], ask[w.op]) BY <1>p, <2>0, <2>3, Zenon DEF Snapping, Same
    <2>5. CASE h'[l] = x
      <3>1. Good(l)' BY <2>0, <2>2, <2>3, <2>4, <2>5, SnapGood, Zenon
      <3> QED BY <1>0, <2>1, <2>2, <3>1, MoveInv, Zenon
    <2> QED BY <1>0, <2>1, <2>2, <2>5, IdleMove, Zenon
  <1>4. CASE snapshotEnd(l)
    <2>0. w.pc = "snapEnd" BY <1>4, Zenon DEF snapshotEnd, At
    <2>1. Moves(l) BY <1>4, ZenonT(20) DEF snapshotEnd, Moves, Try, FlowInv, Handling
    <2> DEFINE ok == Terminalizable(ops[w.op], "snapshot", "creating", "created", "succeeded")
    <2>2. CASE ok
      <3> DEFINE r == terminalizeClaimedComputeOperation(ops[w.op], "created", "succeeded")
                 x == [w EXCEPT !.pc = "snapReply"]
      <3>1. ops' = [ops EXCEPT ![w.op] = r] /\ UNCHANGED <<ask, pve>> /\ h'[l] = x
        BY <1>0, <1>4, <2>2, Zenon DEF snapshotEnd, Try, world
      <3>r. r = terminalizeClaimedComputeOperation(ops[w.op], "created", "succeeded") OBVIOUS
      <3> HIDE DEF r
      <3>2. RowChange(l, w.op, r) /\ r.status = "succeeded" /\ r.phase = "created"
        <4>1. Row(w.op, ops[w.op]) /\ w.op \in Snapshots /\ Tx[w.op].vm = l BY <1>p, <2>0, Zenon
        <4>2. ops' = [ops EXCEPT ![w.op] = r] /\ UNCHANGED <<ask, pve>> BY <3>1, Zenon
        <4>3. RowChange(l, w.op, r) BY <4>1, <4>2, <3>r, SnapEnded, Zenon
        <4>4. r.status = "succeeded" /\ r.phase = "created"
          BY <4>1, <3>r, Zenon DEF Row, RowFields, terminalizeClaimedComputeOperation
        <4> QED BY <4>3, <4>4, Zenon
      <3>3. ops'[w.op] = r BY <1>0, <3>1, Zenon
      <3>4. Same(w, x) /\ x.pc = "snapReply" BY <1>s, Zenon DEF Same, HandlerShape, Fields
      <3> HIDE DEF x
      <3>5. Snapping(x, r, ask[w.op]) BY <1>p, <2>0, <3>2, <3>4, Zenon DEF Snapping, Same
      <3>6. Good(l)' BY <2>0, <3>1, <3>3, <3>4, <3>5, SnapGood, Zenon
      <3> QED BY <3>2, <3>6, <2>1, <1>0, RowInv, Zenon
    <2>3. CASE ~ok
      BY <1>0, <1>4, <2>1, <2>3, IdleMove, Zenon DEF snapshotEnd, Try, world
    <2> QED BY <2>2, <2>3, Zenon
  <1>5. CASE snapshotReply(l)
    <2>0. w.pc = "snapReply" BY <1>5, Zenon DEF snapshotReply, At
    <2>1. Moves(l) BY <1>5, Zenon DEF snapshotReply, Moves, Done, FlowInv, Handling
    <2>2. Good(l)'
      BY <1>0, <1>5, IdleGood, ZenonT(20) DEF snapshotReply, Good, Done
    <2>3. AskChange(w.op, "kept") /\ Converted' /\ pve' = pve
      BY <1>0, <1>5, Zenon DEF snapshotReply, AskChange, At, Place, Snapping, AskRow, TwoPhase, FlowInv, Converted, Rows, Templates, Snapshots
    <2>4. ASSUME NEW k \in VMs, k # l, h[k].pc # "idle" PROVE h[k].op # w.op
      <3>1. l = Src BY <1>p, <2>0, SourceAssumption, Zenon DEF Snapshots
      <3> QED BY <1>p, <2>0, <2>4, <3>1, AskAt, Zenon
    <2> QED BY <1>0, <2>1, <2>2, <2>3, <2>4, Answer, Zenon
  <1>6. CASE snapshotClean(l)
    <2>0. w.pc = "snapClean" BY <1>6, Zenon DEF snapshotClean, At
    <2>1. Moves(l) BY <1>6, Zenon DEF snapshotClean, Moves, Done, FlowInv, Handling
    <2> DEFINE ok == Terminalizable(ops[w.op], "snapshot", "cleaning", "deleted", "succeeded")
    <2>2. Good(l)'
      BY <1>0, <1>6, IdleGood, Zenon DEF snapshotClean, Done, Good
    <2>3. CASE ok
      <3> DEFINE r == terminalizeClaimedComputeOperation(ops[w.op], "deleted", "succeeded")
      <3>1. ops' = [ops EXCEPT ![w.op] = r] /\ UNCHANGED <<ask, pve>>
        BY <1>0, <1>6, <2>3, Zenon DEF snapshotClean, world
      <3>2. Row(w.op, ops[w.op]) BY <1>0, <2>3, NoRow, Zenon DEF Terminalizable, Exists
      <3>3. RowChange(l, w.op, r) BY <1>p, <2>0, <3>1, <3>2, SnapEnded, Zenon
      <3> QED BY <3>3, <2>1, <2>2, <1>0, RowInv, Zenon
    <2>4. CASE ~ok
      BY <1>0, <1>6, <2>1, <2>2, <2>4, MoveInv, Zenon DEF snapshotClean, world
    <2> QED BY <2>3, <2>4, Zenon
  <1>7. CASE mutationNew(l)
    <2>1. Moves(l) BY <1>7, ZenonT(20) DEF mutationNew, Moves, Try, FlowInv, Handling
    <2>2. CASE VMSlotFree(Src)
      <3>1. RowChange(l, w.op, createComputeOperation("mutation", "prepared", Nil))
        BY <1>0, <1>7, <2>2, SourceAssumption, Zenon DEF Payload, mutationNew, RowChange, At, Place, Beginning, createComputeOperation, world,
          Row, RowFields, AskRow, Exists, DirOf, AskOf, Prepared, Ended, Unended, Snapshots, TwoPhase, Active, Templates
      <3>2. Good(l)'
        BY <1>0, <1>7, <2>2 DEF mutationNew, At, Place, Beginning, Preparing, PrepareAt, createComputeOperation, Try,
          Good, HandlerShape, Fields, Recovers, Relies, world, Running, DirOf, TwoPhase, Snapshots
      <3> QED BY <3>1, <3>2, <2>1, <1>0, RowInv, Zenon
    <2>3. CASE ~VMSlotFree(Src)
      BY <1>0, <1>7, <2>1, <2>3, MoveInv, IdleGood, Zenon DEF mutationNew, Good, Try, world
    <2> QED BY <2>2, <2>3, Zenon
  <1>8. CASE mutationVerify(l)
    <2>0. /\ ask[w.op] = "none" /\ Kind(w.op) = "mutation" /\ w.op = w.req /\ Row(w.op, ops[w.op])
          /\ DirOf(ops[w.op].phase) = "open" /\ ops[w.op].phase # "preparing" /\ w.op \in TwoPhase
          /\ ops[w.op].status = "running"
      BY <1>0, <1>8, NoRow, Zenon DEF mutationVerify, At, Place, Preparing, PrepareAt, Running
    <2>1. Moves(l) BY <1>8, Zenon DEF mutationVerify, Moves, Done, FlowInv, Handling
    <2>2. Good(l)'
      BY <1>0, <1>8, IdleGood, Zenon DEF mutationVerify, Done, Good
    <2>3. CASE MutationSound(w.op)
      <3>1. AskChange(w.op, "ready") /\ Converted' /\ pve' = pve
        <4>1. AskChange(w.op, "ready")
          BY <1>0, <1>8, <2>3, <2>0, Zenon DEF mutationVerify, AskChange, AskRow, Exists
        <4>2. Converted' /\ pve' = pve
          BY <1>0, <1>8, <2>3, <2>0, Zenon DEF mutationVerify, FlowInv, Converted, Templates
        <4> QED BY <4>1, <4>2, Zenon
      <3>2. \A k \in VMs : k # l /\ h[k].pc # "idle" => h[k].op # w.op
        BY Alone, <2>0, Zenon DEF At
      <3> QED BY <1>0, <2>1, <2>2, <3>1, <3>2, Answer, Zenon
    <2>4. CASE ~MutationSound(w.op)
      <3>1. RowChange(l, w.op, terminalizeClaimedComputeOperation(ops[w.op], "compensated", "failed"))
        BY <1>0, <1>8, <2>4, <2>0, Zenon DEF mutationVerify, RowChange, terminalizeClaimedComputeOperation,
          Exists, Row, RowFields, AskRow, AskOf, DirOf, Ended, Unended, Snapshots, TwoPhase, Active, Templates
      <3> QED BY <3>1, <2>1, <2>2, <1>0, RowInv, Zenon
    <2> QED BY <2>3, <2>4, Zenon
  <1>9. CASE mutationCheck(l)
    <2>0. w.pc = "check" /\ Kind(w.op) = "mutation" /\ FinishAt(w) /\ ~Recovers(w)
      <3>1. w.pc = "check" /\ Kind(w.op) = "mutation" BY <1>9, Zenon DEF mutationCheck, At
      <3> QED BY <1>0, <3>1, Zenon DEF Place, Finishing, FinishAt, Recovers, Templates
    <2>1. Moves(l) BY <1>9, Zenon DEF mutationCheck, Moves, Try, FlowInv, Handling
    <2>2. UNCHANGED <<ops, ask, pve>>
      BY <1>9, Zenon DEF mutationCheck, world
    <2> DEFINE x == [w EXCEPT !.pc = IF w.dir = "commit" /\ Tx[w.op].act = "delete" THEN "mutationDelete" ELSE "mutationEnd"]
    <2>3. h'[l] \in {x, Idle} BY <1>0, <1>9, Zenon DEF mutationCheck, Try
    <2>4. Same(w, x) /\ x.pc \in {"mutationDelete", "mutationEnd"} /\ (x.pc = "mutationDelete" => w.dir = "commit" /\ Tx[w.op].act = "delete")
      BY <1>0, Zenon DEF Same, HandlerShape, Fields
    <2> HIDE DEF x
    <2>5. FinishAt(x) BY <2>0, <2>4, Zenon DEF FinishAt, Same
    <2> QED BY <1>0, <2>0, <2>1, <2>2, <2>3, <2>4, <2>5, FinishMove, IdleMove, Zenon
  <1>10. CASE deleteSnapshotManifestExact(l)
    <2> DEFINE s == Tx[w.op].snap
               ok == verifySnapshotMutationManifest(w.op)
    <2>0. /\ Kind(w.op) = "mutation" /\ w.op = w.req /\ w.dir = "commit" /\ w.op \in TwoPhase
          /\ Finishing(w, ops[w.op], ask[w.op]) /\ w.pc = "mutationDelete"
          /\ s \in Snapshots /\ s \in Ids /\ s # w.op /\ Tx[s].vm = l
      BY <1>0, <1>10, SourceAssumption, Zenon DEF deleteSnapshotManifestExact, At, Place, Finishing, FinishAt, Recovers, Templates, Mutations, Snapshots
    <2>1. Moves(l) BY <1>10, Zenon DEF deleteSnapshotManifestExact, Moves, Try, FlowInv, Handling
    <2>2. CASE ok
      <3> DEFINE r == [ops[s] EXCEPT !.phase = "deleted"]
      <3>1. ops' = [ops EXCEPT ![s] = r] /\ UNCHANGED <<ask, pve>>
        BY <1>10, <2>2, Zenon DEF deleteSnapshotManifestExact, world
      <3>2. Row(s, r) /\ ~Active(r)
        <4>1. Row(s, ops[s]) /\ ops[s].status = "succeeded"
          BY <2>0, <2>2, NoRow, Zenon DEF verifySnapshotMutationManifest, FlowInv, Rows
        <4> QED BY <2>0, <4>1, Zenon DEF Row, RowFields, Active, TwoPhase
      <3>3. RowChange(l, s, r)
        BY <2>0, <3>1, <3>2, Zenon DEF RowChange, AskRow, TwoPhase, Templates, Snapshots
      <3>4. ops'[w.op] = ops[w.op] /\ h'[l] = [w EXCEPT !.pc = "mutationEnd"]
        BY <1>0, <1>10, <2>0, <2>2, <3>1, Zenon DEF deleteSnapshotManifestExact, Try
      <3>5. Same(w, h'[l]) /\ h'[l].pc = "mutationEnd"
        BY <1>0, <3>4, Zenon DEF Same, HandlerShape, Fields
      <3>6. FinishAt(h'[l]) BY <2>0, <3>5, Zenon DEF Finishing, FinishAt, Same
      <3>7. Good(l)' BY <2>0, <3>1, <3>4, <3>5, <3>6, FinishGood, Zenon DEF Recovers
      <3> QED BY <2>0, <2>1, <3>3, <3>7, RowInv, Zenon
    <2>3. CASE ~ok
      BY <1>0, <1>10, <2>1, <2>3, MoveInv, IdleGood, Zenon DEF deleteSnapshotManifestExact, Good, Try, world
    <2> QED BY <2>2, <2>3, Zenon
  <1>11. CASE mutationEnd(l)
    <2>1. Finishing(w, ops[w.op], ask[w.op]) /\ terminalizeClaimed(l, Idle)
      BY <1>0, <1>11, Zenon DEF mutationEnd, At, Place
    <2>2. h'[l] = Idle /\ Moves(l)
      BY <2>1, EndChange, Zenon
    <2>3. Good(l)'
      BY <2>2, IdleGood, Zenon DEF Good
    <2> QED BY <1>0, <2>1, <2>2, <2>3, EndChange, RowInv, MoveInv, Zenon
  <1> QED BY <1>1, <1>2, <1>3, <1>4, <1>5, <1>6, <1>7, <1>8, <1>9, <1>10, <1>11, Zenon DEF SnapshotStep

\* The prepare of a template or a destroy, up to its first answer (prepareNew,
\* captureSnapshotRefs, detachSourcePorts, failSourcePrepare).
LEMMA SourcePrepareInv ==
  ASSUME FlowInv, NEW l \in VMs, ~At(l, "idle"),
         captureSnapshotRefs(l) \/ prepareNew(l) \/ detachSourcePorts(l) \/ prepareReply(l) \/ failSourcePrepare(l)
  PROVE  FlowInv'
  <1> DEFINE w == h[l]
  <1>0. /\ Place(l, w, ops[w.op], ask[w.op], ops[w.req]) /\ Relies(w) /\ HandlerShape(w)
        /\ w.op \in Ids /\ w.req \in Ids /\ Tx[w.req].vm = l
        /\ l \in Handlers /\ l \notin Callers /\ l \in DOMAIN h
        /\ ops[w.op] = NoOperation \/ Row(w.op, ops[w.op])
        /\ AskRow(w.op, ops[w.op], ask[w.op])
        /\ DOMAIN ops = Ids /\ DOMAIN ask = Ids
    BY Acting, Zenon
  <1>s. HandlerShape(w) BY <1>0, Zenon
  <1>1. CASE captureSnapshotRefs(l)
    <2> DEFINE open == {s \in w.saw.snaps : Running(ops[s], "snapshot") /\ ops[s].phase = "creating"}
               s == CHOOSE s \in open : TRUE
    <2>0. /\ w.pc = "capture" /\ Kind(w.op) = "destroy" /\ w.op = w.req /\ ~Exists(ops[w.op]) /\ ask[w.op] = "none"
          /\ w.dir = Nil /\ Payload(w.req, w.saw) /\ l = Src
      BY <1>0, <1>1, SourceAssumption, Zenon DEF captureSnapshotRefs, At, Place, Beginning
    <2>1. Moves(l) BY <1>1, Zenon DEF captureSnapshotRefs, Moves, Try, FlowInv, Handling
    <2>2. CASE open # {} /\ verifySnapshotPorts
      <3> DEFINE r == terminalizeClaimedComputeOperation(ops[s], "created", "succeeded")
      <3>1. s \in open /\ s \in Snapshots /\ s \in Ids /\ s # w.op /\ Tx[s].vm = l
        BY <2>0, <2>2, SourceAssumption, Zenon DEF Payload, Snapshots
      <3>2. ops' = [ops EXCEPT ![s] = r] /\ UNCHANGED <<ask, pve, h>>
        BY <1>1, <2>2, Zenon DEF captureSnapshotRefs, world
      <3>3. Row(s, r) /\ ~Active(r)
        <4>1. Row(s, ops[s]) /\ ops[s].status = "running"
          BY <3>1, NoRow, Zenon DEF Running, FlowInv, Rows
        <4> QED BY <3>1, <4>1, Zenon DEF Row, RowFields, Active, TwoPhase, terminalizeClaimedComputeOperation
      <3> HIDE DEF s, r, open
      <3>4. RowChange(l, s, r)
        BY <3>1, <3>2, <3>3, Zenon DEF RowChange, AskRow, TwoPhase, Templates, Snapshots
      <3>5. ops'[w.op] = ops[w.op] /\ ops'[w.req] = ops[w.req] /\ h'[l] = w
        BY <1>0, <2>0, <3>1, <3>2, Zenon
      <3>6. Good(l)'
        BY <1>0, <2>0, <3>2, <3>5, Zenon DEF Good, Relies, Recovers
      <3> QED BY <2>1, <3>1, <3>4, <3>6, RowInv, ZenonT(20)
    <2>3. CASE ~(open # {} /\ verifySnapshotPorts)
      <3>1. /\ UNCHANGED <<ops, ask, pve>>
            /\ \/ h'[l] = Idle
               \/ h'[l] = [w EXCEPT !.pc = IF pve.vm = "template" THEN "findTemplate" ELSE "new"]
        BY <1>0, <1>1, <2>3, Zenon DEF captureSnapshotRefs, Try, world
      <3>2. pve.vm = "template" => TemplateAsked'
        BY <3>1, Zenon DEF FlowInv, Converted, TemplateAsked
      <3> DEFINE x == [w EXCEPT !.pc = IF pve.vm = "template" THEN "findTemplate" ELSE "new"]
      <3>3. /\ HandlerShape(x) /\ x.pc = (IF pve.vm = "template" THEN "findTemplate" ELSE "new")
            /\ x.op = w.op /\ x.req = w.req /\ x.saw = w.saw /\ x.dir = w.dir
        BY <1>0, Zenon DEF HandlerShape, Fields
      <3> HIDE DEF x
      <3>4. h'[l] = x => Good(l)'
        BY <1>0, <2>0, <3>1, <3>2, <3>3 DEF Good, Place, Beginning, Recovers, Relies, Payload
      <3>5. Good(l)'
        BY <3>1, <3>4, IdleGood, Zenon DEF Good, x
      <3> QED BY <1>0, <2>1, <3>1, <3>5, MoveInv, Zenon
    <2> QED BY <2>2, <2>3, Zenon
  <1>2. CASE prepareNew(l)
    <2> DEFINE r == createComputeOperation(Kind(w.req), Prepared(w.req), w.saw)
    <2>0. /\ w.pc = "new" /\ Kind(w.op) \in {"template", "destroy"} /\ w.op = w.req /\ ~Exists(ops[w.op]) /\ ask[w.op] = "none"
          /\ w.dir = Nil /\ Payload(w.req, w.saw)
          /\ Kind(w.op) = "template" => \A t \in Templates : ~InForce(ops[t])
      BY <1>0, <1>2, Zenon DEF prepareNew, At, Place, Beginning, Relies
    <2>1. Moves(l) BY <1>2, Zenon DEF prepareNew, Moves, Try, FlowInv, Handling
    <2>2. CASE VMSlotFree(l)
      <3>1. /\ ops' = [ops EXCEPT ![w.op] = r] /\ UNCHANGED <<ask, pve>>
            /\ h'[l] = [w EXCEPT !.saw = Nil, !.pc = IF w.saw.tmpl = Nil THEN "detach" ELSE "reply"]
        BY <1>0, <1>2, <2>0, <2>2, Zenon DEF prepareNew, Try, world
      <3>2. /\ Row(w.op, r) /\ DirOf(r.phase) = "open" /\ r.phase = Prepared(w.op) /\ r.phase # "preparing" /\ Exists(r)
            /\ Running(r, Kind(w.op)) /\ w.op \in TwoPhase
        BY <2>0, <1>0, Zenon DEF createComputeOperation, Row, RowFields, Prepared, DirOf, Exists, Running, TwoPhase, Snapshots, Unended, Ended
      <3> HIDE DEF r
      <3>3. RowChange(l, w.op, r)
        BY <1>0, <2>0, <2>2, <3>1, <3>2, ZenonT(20) DEF RowChange, AskRow, Templates
      <3>4. Good(l)'
        BY <1>0, <2>0, <3>1, <3>2 DEF Good, HandlerShape, Fields, Place, Preparing, PrepareAt, Recovers, Relies
      <3> QED BY <1>0, <2>1, <3>3, <3>4, RowInv, Zenon
    <2>3. CASE ~VMSlotFree(l)
      BY <1>0, <1>2, <2>0, <2>1, <2>3, MoveInv, IdleGood, Zenon DEF prepareNew, Good, Try, world
    <2> QED BY <2>2, <2>3, Zenon
  <1>3. CASE detachSourcePorts(l)
    <2>0. w.pc = "detach" /\ Preparing(w, ops[w.op], ask[w.op])
      BY <1>0, <1>3, Zenon DEF detachSourcePorts, At, Place
    <2>1. Moves(l) BY <1>3, Zenon DEF detachSourcePorts, Moves, Try, FlowInv, Handling
    <2>2. /\ UNCHANGED <<ops, ask, pve>>
          /\ h'[l] \in {[w EXCEPT !.i = @ + 1], [w EXCEPT !.pc = "compensate"]}
      BY <1>0, <1>3, Zenon DEF detachSourcePorts, Try, world
    <2>3. Same(w, h'[l]) /\ h'[l].pc \in {"detach", "compensate"}
      <3>1. CASE h'[l] = [w EXCEPT !.i = @ + 1]
        BY <1>s, <2>0, <3>1 DEF HandlerShape, Fields, Same
      <3>2. CASE h'[l] = [w EXCEPT !.pc = "compensate"]
        BY <1>s, <3>2, Zenon DEF HandlerShape, Fields, Same
      <3> QED BY <2>2, <3>1, <3>2, Zenon
    <2>4. PrepareAt(h'[l], ops[w.op]) BY <2>0, <2>3, Zenon DEF Preparing, PrepareAt, Same
    <2> QED BY <2>0, <2>1, <2>2, <2>3, <2>4, PrepareMove, Zenon
  <1>4. CASE prepareReply(l)
    <2>0. Preparing(w, ops[w.op], ask[w.op]) /\ w.pc \in {"reply", "detach"}
      BY <1>0, <1>4, Zenon DEF prepareReply, At, Place
    <2>1. Moves(l) /\ h'[l] = Idle
      BY <1>0, <1>4, Zenon DEF prepareReply, Moves, Done, FlowInv, Handling
    <2>2. Good(l)'
      BY <2>1, IdleGood, Zenon DEF Good
    <2>3. AskChange(w.op, "ready")
      BY <1>0, <1>4, <2>0, Zenon DEF prepareReply, AskChange, Preparing, PrepareAt, AskRow, Exists, Running
    <2>4. Converted' /\ pve' = pve
      BY <1>0, <1>4, <2>0, Zenon DEF prepareReply, FlowInv, Converted, Templates, Preparing, PrepareAt
    <2>5. \A k \in VMs : k # l /\ h[k].pc # "idle" => h[k].op # w.op
      BY Alone, <2>0, Zenon DEF At, Preparing, PrepareAt
    <2> QED BY <1>0, <2>1, <2>2, <2>3, <2>4, <2>5, Answer, Zenon
  <1>5. CASE failSourcePrepare(l)
    <2> DEFINE r == claimComputeOperation(ops[w.op], "compensating")
               ok == Claimable(ops[w.op], Kind(w.op), {Prepared(w.op)}, "compensating")
    <2>0. /\ w.pc = "compensate" /\ Preparing(w, ops[w.op], ask[w.op]) /\ Row(w.op, ops[w.op])
          /\ Kind(w.op) \in {"template", "destroy"}
      BY <1>0, <1>5, NoRow, Zenon DEF failSourcePrepare, At, Place, Preparing, PrepareAt, Running
    <2>1. Moves(l) BY <1>5, Zenon DEF failSourcePrepare, Moves, Try, FlowInv, Handling
    <2>2. CASE ok
      <3>1. /\ ops' = [ops EXCEPT ![w.op] = r] /\ UNCHANGED <<ask, pve>>
            /\ h'[l] = [w EXCEPT !.pc = "restore", !.dir = "undo", !.i = 1, !.bad = 0]
        BY <1>0, <1>5, <2>2, ZenonT(20) DEF failSourcePrepare, Try, world
      <3>2. Row(w.op, r) /\ DirOf(r.phase) = "undo" /\ Exists(r) /\ r.slot = ops[w.op].slot /\ r.phase = "compensating"
        BY <2>0, ZenonT(20) DEF claimComputeOperation, Row, RowFields, DirOf, Exists, Preparing, PrepareAt, Running, TwoPhase, Unended, Ended
      <3> HIDE DEF r
      <3>3. InForce(ops[w.op])
        BY <2>0, Zenon DEF InForce, Preparing, PrepareAt, Exists, DirOf, Row
      <3>4. RowChange(l, w.op, r)
        BY <1>0, <2>0, <3>1, <3>2, <3>3, ZenonT(20) DEF RowChange, AskRow, AskOf, Active, Preparing, PrepareAt
      <3>5. Good(l)'
        BY <1>0, <2>0, <3>1, <3>2 DEF Good, HandlerShape, Fields, Place, Preparing, PrepareAt, Finishing, FinishAt, AskOf, Recovers, Relies
      <3> QED BY <1>0, <2>1, <3>4, <3>5, RowInv, Zenon
    <2>3. CASE ~ok
      BY <1>0, <1>5, <2>1, <2>3, MoveInv, IdleGood, Zenon DEF failSourcePrepare, Good, Try, world
    <2> QED BY <2>2, <2>3, Zenon
  <1> QED BY <1>1, <1>2, <1>3, <1>4, <1>5, Zenon

\* The restore and the delete of the source's ports.
LEMMA SourceMoveInv ==
  ASSUME FlowInv, NEW l \in VMs, ~At(l, "idle"),
         restoreSourcePorts(l) \/ restoreEnd(l) \/ finishCheck(l) \/ deleteDetachedSourcePorts(l) \/ deleteEnd(l)
  PROVE  FlowInv'
  <1> DEFINE w == h[l]
  <1>0. /\ Place(l, w, ops[w.op], ask[w.op], ops[w.req]) /\ Relies(w) /\ HandlerShape(w)
        /\ w.op \in Ids /\ w.req \in Ids /\ Tx[w.req].vm = l
        /\ l \in Handlers /\ l \notin Callers /\ l \in DOMAIN h
        /\ ops[w.op] = NoOperation \/ Row(w.op, ops[w.op])
        /\ AskRow(w.op, ops[w.op], ask[w.op])
        /\ DOMAIN ops = Ids /\ DOMAIN ask = Ids
    BY Acting, Zenon
  <1>s. HandlerShape(w) BY <1>0, Zenon
  <1>1. CASE restoreSourcePorts(l)
    <2>0. w.pc = "restore" /\ FinishAt(w) /\ ~Recovers(w)
      BY <1>0, <1>1, Zenon DEF restoreSourcePorts, At, Place, Finishing
    <2>1. Moves(l) BY <1>1, Zenon DEF restoreSourcePorts, Moves, Try, FlowInv, Handling
    <2>2. /\ UNCHANGED <<ops, ask, pve>>
          /\ h'[l] \in {[w EXCEPT !.i = @ + 1], [w EXCEPT !.i = @ + 1, !.bad = 1]}
      BY <1>0, <1>1, Zenon DEF restoreSourcePorts, Try, world
    <2>3. Same(w, h'[l]) /\ h'[l].pc = "restore"
      <3>1. CASE h'[l] = [w EXCEPT !.i = @ + 1]
        BY <1>s, <2>0, <3>1 DEF HandlerShape, Fields, Same
      <3>2. CASE h'[l] = [w EXCEPT !.i = @ + 1, !.bad = 1]
        BY <1>s, <2>0, <3>2 DEF HandlerShape, Fields, Same
      <3> QED BY <2>2, <3>1, <3>2, Zenon
    <2>4. FinishAt(h'[l])
      BY <2>0, <2>3, Zenon DEF FinishAt, Same
    <2> QED BY <2>0, <2>1, <2>2, <2>3, <2>4, FinishMove, Zenon
  <1>2. CASE restoreEnd(l)
    <2>0. w.pc = "restore" /\ FinishAt(w) /\ ~Recovers(w)
      BY <1>0, <1>2, Zenon DEF restoreEnd, At, Place, Finishing
    <2>1. Moves(l) BY <1>2, Zenon DEF restoreEnd, Moves, Try, FlowInv, Handling
    <2>2. UNCHANGED <<ops, ask, pve>> /\ h'[l] \in {[w EXCEPT !.pc = "end"], Idle}
      BY <1>0, <1>2, Zenon DEF restoreEnd, Try, world
    <2>3. h'[l] # Idle => Same(w, h'[l]) /\ h'[l].pc = "end"
      BY <1>s, <2>2, Zenon DEF HandlerShape, Fields, Same
    <2>4. h'[l] # Idle => FinishAt(h'[l])
      BY <2>0, <2>3, Zenon DEF FinishAt, Same
    <2> QED BY <1>0, <2>0, <2>1, <2>2, <2>3, <2>4, FinishMove, IdleMove, Zenon
  <1>3. CASE finishCheck(l)
    <2>0. /\ w.pc = "check" /\ FinishAt(w) /\ w.dir \in {"commit", "abort"}
          /\ Kind(w.op) \in {"template", "destroy"} /\ Payload(w.op, ops[w.op].pay)
          /\ Recovers(w) => Kind(w.op) = "template" /\ w.dir = "commit"
      <3>1. w.pc = "check" /\ Kind(w.op) \in {"template", "destroy"} BY <1>3, Zenon DEF finishCheck, At
      <3>2. Finishing(w, ops[w.op], ask[w.op]) /\ (Recovers(w) => Kind(w.op) = "template" /\ w.dir = "commit")
        BY <1>0, <3>1, Zenon DEF Place, Templates
      <3>3. Row(w.op, ops[w.op]) BY <1>0, <3>2, NoRow, Zenon DEF Finishing, Exists
      <3> QED BY <3>1, <3>2, <3>3, Zenon DEF Finishing, FinishAt, Row
    <2>1. Moves(l) BY <1>3, Zenon DEF finishCheck, Moves, Try, FlowInv, Handling
    <2>2. PICK first \in {"restore", "delete", "end", "consume"} :
            /\ UNCHANGED <<ops, ask, pve>> /\ h'[l] \in {[w EXCEPT !.pc = first, !.i = 1, !.bad = 0], Idle}
            /\ first \in {"restore", "end"} => w.dir = "abort"
            /\ first \in {"delete", "consume"} => w.dir = "commit"
            /\ first = "consume" => ops[w.op].pay.tmpl # Nil
      BY <1>0, <1>3, <2>0, Zenon DEF finishCheck, Try, world
    <2>3. h'[l] # Idle => Same(w, h'[l]) /\ h'[l].pc = first
      <3>1. CASE h'[l] = [w EXCEPT !.pc = first, !.i = 1, !.bad = 0]
        BY <1>s, <3>1 DEF HandlerShape, Fields, Same
      <3> QED BY <2>2, <3>1, Zenon
    <2>4. first = "consume" => Kind(w.op) = "destroy"
      BY <2>0, <2>2, Zenon DEF Payload
    <2>5. h'[l] # Idle => FinishAt(h'[l])
      BY <2>0, <2>2, <2>3, <2>4, Zenon DEF FinishAt, Same
    <2> QED BY <1>0, <2>0, <2>1, <2>2, <2>3, <2>4, <2>5, FinishMove, IdleMove, Zenon
  <1>4. CASE deleteDetachedSourcePorts(l)
    <2>0. w.pc = "delete" /\ FinishAt(w) /\ w.i \in NICs /\ Kind(w.op) \in {"template", "destroy"} /\ w.dir = "commit"
      BY <1>0, <1>4, Zenon DEF deleteDetachedSourcePorts, At, Place, Finishing, FinishAt
    <2>1. Moves(l) BY <1>4, Zenon DEF deleteDetachedSourcePorts, Moves, FlowInv, Handling
    <2>2. UNCHANGED <<ops, ask, pve>> /\ w.op # Nil
      BY <1>0, <1>4, TxAssumption, Zenon DEF deleteDetachedSourcePorts, world
    <2>3. Elsewhere(w, h'[l], {"purge", "release"}, <<Src, w.i>>)
      <3> DEFINE m == Entry(l)
                 P == <<Src, w.i>>
      <3>1. \/ h'[l] \in {NextPort(w), NotRemoved(w)}
            \/ h'[l] = [w EXCEPT !.pc = "purge", !.port = P, !.rev = m.rev + 2]
            \/ h'[l] = [w EXCEPT !.pc = "release", !.port = P, !.rev = m.rev + 1]
        BY <1>0, <1>4, Zenon DEF deleteDetachedSourcePorts, SourcePort
      <3> HIDE DEF m
      <3> QED 
        <4>1. CASE h'[l] \in {NextPort(w), NotRemoved(w)}
          BY <1>s, <2>2, <4>1, NextPortShape, Zenon
        <4>2. CASE h'[l] = [w EXCEPT !.pc = "purge", !.port = P, !.rev = m.rev + 2]
          BY <1>s, <4>2, Zenon DEF Elsewhere, HandlerShape, Fields, Same
        <4>3. CASE h'[l] = [w EXCEPT !.pc = "release", !.port = P, !.rev = m.rev + 1]
          BY <1>s, <4>3, Zenon DEF Elsewhere, HandlerShape, Fields, Same
        <4> QED BY <3>1, <4>1, <4>2, <4>3, Zenon
    <2>4. FinishAt(h'[l])
      BY <2>0, <2>3, Zenon DEF FinishAt, Same, Elsewhere
    <2> QED BY <2>0, <2>1, <2>2, <2>3, <2>4, FinishMove, Zenon DEF Elsewhere
  <1>5. CASE deleteEnd(l)
    <2>0. w.pc = "delete" /\ FinishAt(w) /\ (Recovers(w) => Kind(w.op) = "template")
      BY <1>0, <1>5, Zenon DEF deleteEnd, At, Place, Finishing, Templates
    <2>1. Moves(l) BY <1>5, Zenon DEF deleteEnd, Moves, Try, FlowInv, Handling
    <2>2. /\ UNCHANGED <<ops, ask, pve>>
          /\ h'[l] \in {[w EXCEPT !.pc = IF Kind(w.op) = "destroy" THEN "deleteSnaps" ELSE "end"], Idle}
      BY <1>0, <1>5, Zenon DEF deleteEnd, Try, world
    <2>3. h'[l] # Idle => Same(w, h'[l]) /\ h'[l].pc = IF Kind(w.op) = "destroy" THEN "deleteSnaps" ELSE "end"
      BY <1>s, <2>2, Zenon DEF HandlerShape, Fields, Same
    <2>4. h'[l] # Idle => FinishAt(h'[l])
      BY <2>0, <2>3, Zenon DEF FinishAt, Same
    <2> QED BY <1>0, <2>0, <2>1, <2>2, <2>3, <2>4, FinishMove, IdleMove, Zenon
  <1> QED BY <1>1, <1>2, <1>3, <1>4, <1>5, Zenon

\* The end of a destroy: the template's record and the captured snapshots.
LEMMA ConsumeInv ==
  ASSUME FlowInv, NEW l \in VMs, ~At(l, "idle"), consumeTemplateBlueprint(l) \/ deleteCapturedSnapshots(l)
  PROVE  FlowInv'
  <1> DEFINE w == h[l]
  <1>0. /\ Place(l, w, ops[w.op], ask[w.op], ops[w.req]) /\ Relies(w) /\ HandlerShape(w)
        /\ w.op \in Ids /\ w.req \in Ids /\ Tx[w.req].vm = l
        /\ l \in Handlers /\ l \notin Callers /\ l \in DOMAIN h
        /\ ops[w.op] = NoOperation \/ Row(w.op, ops[w.op])
        /\ AskRow(w.op, ops[w.op], ask[w.op])
        /\ DOMAIN ops = Ids /\ DOMAIN ask = Ids
    BY Acting, Zenon
  <1>s. HandlerShape(w) BY <1>0, Zenon
  <1> DEFINE pay == ops[w.op].pay
  <1>1. /\ w.pc \in {"consume", "deleteSnaps"} /\ Finishing(w, ops[w.op], ask[w.op]) /\ ~Recovers(w) /\ w.op = w.req /\ l = Src
        /\ Kind(w.op) = "destroy" /\ w.dir = "commit" /\ Payload(w.op, pay)
    <2>1. w.pc \in {"consume", "deleteSnaps"} BY Zenon DEF consumeTemplateBlueprint, deleteCapturedSnapshots, At
    <2>2. Finishing(w, ops[w.op], ask[w.op]) /\ ~Recovers(w) /\ w.op = w.req BY <1>0, <2>1, Zenon DEF Place, Recovers
    <2>3. Kind(w.op) = "destroy" /\ w.dir = "commit" /\ l = Src /\ Row(w.op, ops[w.op])
      BY <1>0, <2>1, <2>2, NoRow, SourceAssumption, Zenon DEF Finishing, FinishAt, Exists
    <2> QED BY <2>1, <2>2, <2>3, Zenon DEF Row
  <1>2. Moves(l) BY Zenon DEF consumeTemplateBlueprint, deleteCapturedSnapshots, Moves, Try, Goto, FlowInv, Handling
  <1>3. CASE consumeTemplateBlueprint(l)
    <2> DEFINE t == pay.tmpl
               ok == ops[t].status = "succeeded" /\ ops[t].phase \in {"committed", "destroyed"}
               r == [ops[t] EXCEPT !.phase = "destroyed"]
    <2>0. w.pc = "consume" BY <1>3, Zenon DEF consumeTemplateBlueprint, At
    <2>1. CASE ~ok
      BY <1>0, <1>2, <1>3, <2>1, IdleMove, Zenon DEF consumeTemplateBlueprint, Try, world
    <2>2. CASE ok
      <3>1. ops' = [ops EXCEPT ![t] = r] /\ UNCHANGED <<ask, pve>> /\ h'[l] = [w EXCEPT !.pc = "deleteSnaps"]
        BY <1>0, <1>3, <2>2, Zenon DEF consumeTemplateBlueprint, Try, world
      <3>2. t \in Ids /\ Row(t, ops[t]) /\ t \in Templates
        <4>1. t \in Templates \cup {Nil} BY <1>1, Zenon DEF Payload
        <4>2. t # Nil
          BY <2>0, <1>1, Zenon DEF Finishing
        <4> HIDE DEF t
        <4> QED BY <4>1, <4>2, <2>2, NoRow, Zenon DEF Templates, FlowInv, Rows
      <3> HIDE DEF t
      <3>3. Row(t, r) /\ ~Active(r) /\ Exists(r) /\ DirOf(r.phase) = "commit" /\ DirOf(ops[t].phase) = "commit" /\ InForce(ops[t])
        BY <2>2, <3>2, Kinds, Zenon DEF Row, RowFields, Active, Exists, DirOf, InForce, Ended, Unended, Snapshots, TwoPhase, Templates
      <3>4. ask[t] = "commit" /\ t \in TwoPhase
        BY <3>2, <3>3, Kinds, Zenon DEF FlowInv, Rows, AskRow, AskOf, Exists, InForce
      <3> HIDE DEF r
      <3>5. RowChange(l, t, r)
        BY <1>0, <3>1, <3>2, <3>3, <3>4, Zenon DEF RowChange, AskRow, AskOf
      <3>6. Same(w, h'[l]) /\ h'[l].pc = "deleteSnaps"
        BY <1>s, <3>1, Zenon DEF HandlerShape, Fields, Same
      <3>7. FinishAt(h'[l]) BY <1>1, <3>6, Zenon DEF FinishAt, Same
      <3>8. ops'[w.op] = ops[w.op] /\ ops'[w.req] = ops[w.req]
        BY <1>0, <1>1, <3>1, <3>2, ZenonT(20) DEF Templates
      <3>9. Good(l)' BY <1>1, <3>1, <3>6, <3>7, <3>8, FinishGood, Zenon
      <3> QED BY <1>0, <1>2, <3>2, <3>5, <3>9, RowInv, Zenon
    <2> QED BY <2>1, <2>2, Zenon
  <1>4. CASE deleteCapturedSnapshots(l)
    <2> DEFINE left == {s \in pay.snaps : ops[s].phase # "deleted"}
               s == CHOOSE s \in left : TRUE
               r == [ops[s] EXCEPT !.phase = "deleted"]
    <2>0. w.pc = "deleteSnaps" BY <1>4, Zenon DEF deleteCapturedSnapshots, At
    <2>1. CASE left = {}
      <3>1. UNCHANGED <<ops, ask, pve>> /\ h'[l] = [w EXCEPT !.pc = "end"]
        BY <1>0, <1>4, <2>1, Zenon DEF deleteCapturedSnapshots, Goto, world
      <3>2. Same(w, h'[l]) /\ h'[l].pc = "end"
        BY <1>s, <3>1, Zenon DEF HandlerShape, Fields, Same
      <3>3. FinishAt(h'[l]) BY <1>1, <3>2, Zenon DEF FinishAt, Same
      <3> QED BY <1>1, <1>2, <3>1, <3>2, <3>3, FinishMove, Zenon
    <2>2. CASE left # {} /\ ~Created(s)
      BY <1>0, <1>2, <1>4, <2>2, IdleMove, Zenon DEF deleteCapturedSnapshots, Try, world
    <2>3. CASE left # {} /\ Created(s)
      <3>1. ops' = [ops EXCEPT ![s] = r] /\ UNCHANGED <<ask, pve>> /\ h'[l] = w
        BY <1>0, <1>4, <2>3, Zenon DEF deleteCapturedSnapshots, Try, world
      <3>2. s \in Snapshots /\ s \in Ids /\ s # w.op /\ Tx[s].vm = l
        <4>1. s \in pay.snaps BY <2>3, Zenon
        <4> QED BY <4>1, <1>1, SourceAssumption, Zenon DEF Payload, Snapshots
      <3>3. Created(s) BY <2>3, Zenon
      <3> HIDE DEF s
      <3>4. Row(s, r) /\ ~Active(r)
        <4>1. Row(s, ops[s]) /\ ops[s].status = "succeeded"
          BY <3>2, <3>3, NoRow, Zenon DEF Created, FlowInv, Rows
        <4> QED BY <3>2, <4>1, Zenon DEF Row, RowFields, Active, TwoPhase
      <3> HIDE DEF r
      <3>5. RowChange(l, s, r)
        BY <3>1, <3>2, <3>4, Zenon DEF RowChange, AskRow, TwoPhase, Templates, Snapshots
      <3>6. ops'[w.op] = ops[w.op] /\ ops'[w.req] = ops[w.req]
        BY <1>0, <1>1, <3>1, <3>2, Zenon
      <3>7. Same(w, h'[l]) /\ h'[l].pc = "deleteSnaps" /\ FinishAt(h'[l])
        BY <1>s, <1>1, <2>0, <3>1, Zenon DEF Same, Finishing
      <3>8. Good(l)' BY <1>1, <3>1, <3>6, <3>7, FinishGood, Zenon
      <3> QED BY <1>2, <3>2, <3>5, <3>8, RowInv, Zenon
    <2> QED BY <2>1, <2>2, <2>3, Zenon
  <1> QED BY <1>3, <1>4, Zenon

\* The end of a template, a destroy or a clone, for its own request or for another.
LEMMA FinishEndInv ==
  ASSUME FlowInv, NEW l \in VMs, ~At(l, "idle"), finishEnd(l)
  PROVE  FlowInv'
  <1> DEFINE w == h[l]
  <1>0. /\ Place(l, w, ops[w.op], ask[w.op], ops[w.req]) /\ Relies(w) /\ HandlerShape(w)
        /\ w.op \in Ids /\ w.req \in Ids /\ Tx[w.req].vm = l
        /\ l \in Handlers /\ l \notin Callers /\ l \in DOMAIN h
        /\ ops[w.op] = NoOperation \/ Row(w.op, ops[w.op])
        /\ AskRow(w.op, ops[w.op], ask[w.op])
        /\ DOMAIN ops = Ids /\ DOMAIN ask = Ids
    BY Acting, Zenon
  <1>s. HandlerShape(w) BY <1>0, Zenon
  <1> DEFINE after == IF w.op = w.req THEN Idle ELSE Recovered(w)
             r == terminalizeClaimedComputeOperation(ops[w.op], EndOf(w.dir), StatusOf(w.dir))
  <1>1. w.pc = "end" /\ Finishing(w, ops[w.op], ask[w.op]) /\ terminalizeClaimed(l, after)
    BY <1>0, Zenon DEF finishEnd, At, Place
  <1>2. /\ Moves(l) /\ (h'[l] = after \/ h'[l] = Idle)
        /\ \/ UNCHANGED <<ops, ask, pve>> /\ h'[l] = Idle
           \/ RowChange(l, w.op, r) /\ h'[l] = after
    BY <1>1, EndChange, Zenon
  <1> HIDE DEF r
  <1>3. CASE h'[l] = Idle
    <2>1. Good(l)' BY <1>3, IdleGood, Zenon DEF Good
    <2> QED BY <1>0, <1>2, <2>1, RowInv, MoveInv, Zenon
  <1>4. CASE h'[l] # Idle
    <2>1. RowChange(l, w.op, r) /\ h'[l] = Recovered(w) /\ Recovers(w)
      BY <1>2, <1>4, ZenonT(20) DEF Recovers
    <2>2. /\ Kind(w.req) \in {"clone", "destroy"} /\ ~Exists(ops[w.req]) /\ Saw(w)
          /\ (Kind(w.req) = "clone" \/ (Kind(w.req) = "destroy" /\ DOMAIN w.saw = {"m", "snaps", "tmpl"} /\ w.saw.snaps \subseteq Snapshots))
          /\ TemplateAsked /\ ask[w.req] = "none"
      <3>1. /\ Kind(w.req) \in {"clone", "destroy"} /\ ~Exists(ops[w.req]) /\ Saw(w)
        BY <1>0, <2>1, Zenon DEF Place
      <3>2. TemplateAsked BY <1>0, <1>1, <2>1, Zenon DEF Relies
      <3>3. ask[w.req] = "none" BY <1>0, <3>1, Kinds, Zenon DEF FlowInv, Rows, AskRow
      <3> QED BY <2>1, <3>1, <3>2, <3>3, Zenon DEF Saw
    <2>3. /\ HandlerShape(h'[l]) /\ h'[l].pc = (IF Kind(w.req) = "clone" THEN "cloneNew" ELSE "findTemplate")
          /\ h'[l].op = w.req /\ h'[l].req = w.req /\ h'[l].saw = w.saw /\ h'[l].dir = Nil
      BY <2>1 DEF Recovered, Idle, HandlerShape, Fields
    <2>4. ops'[w.req] = ops[w.req] /\ ask'[w.req] = ask[w.req] /\ TemplateAsked'
      BY <1>0, <2>1, <2>2, Zenon DEF RowChange, Recovers, TemplateAsked
    <2>5. Place(l, h'[l], ops'[w.req], ask'[w.req], ops'[w.req])
      BY <1>0, <2>2, <2>3, <2>4, Zenon DEF Place, Beginning, Recovers, Saw
    <2>6. Relies(h[l])'
      BY <2>2, <2>3, <2>4, Zenon DEF Relies, Recovers
    <2>7. Good(l)' BY <1>0, <2>3, <2>5, <2>6, Zenon DEF Good
    <2> QED BY <1>0, <1>2, <2>1, <2>7, RowInv, Zenon
  <1> QED BY <1>3, <1>4, ZenonT(20)
============================================================================
