------------------------------- MODULE HAStart -------------------------------
(***************************************************************************)
(* HA-managed starts.  The PVE cluster resource manager gives a service a  *)
(* new UID on each assignment to a node and issues a proof: the UID, the   *)
(* node, an epoch, and the nodes it holds for dead.  A start with a proof  *)
(* may take over a migration, whose chosen direction it completes first,   *)
(* or an HA start that another node left behind; it moves the ports only   *)
(* from positions its row names.  The handler of a node that was declared  *)
(* dead may still be running.                                              *)
(***************************************************************************)
EXTENDS ComputeMigration, FiniteSetsExt

CONSTANTS Proofs,     \* [uid, node, epoch]
          MaxDeaths   \* nodes declared dead, over time

vars == <<port, ops, tokens, expired, down, w, faults, overtaken, issued, audits, deaths>>

-----------------------------------------------------------------------------
(* Authority.                                                              *)

\* The proofs the durable rows remember.
Authorities(op) ==
    IF ~Exists(op) THEN {}
    ELSE IF op.action = "ha" THEN op.pay.hist \cup {op.pay.q}
    ELSE IF op.pay.rec # Nil THEN op.pay.rec.hist \cup {op.pay.rec.q}
    ELSE {}

Baselines == UNION {Authorities(ops[id]) : id \in DOMAIN ops}

validateHAAuthoritySuccessor(q, b) ==
    IF q.uid = b.uid THEN q.node = b.node /\ q.epoch >= b.epoch /\ (q.epoch = b.epoch => q = b)
    ELSE q.epoch > b.epoch

enforceHAAuthorityHistory(q) ==
    LET own == {b.epoch : b \in {x \in Baselines : x.uid = q.uid}} IN
    /\ own # {} => \A b \in Baselines : b.uid # q.uid => b.epoch <= Max(own)
    /\ \A b \in Baselines : validateHAAuthoritySuccessor(q, b)

\* The proof is the one PVE issued for a start on this node.
validateHAProofIdentity(n, q) == q \in DOMAIN issued /\ q.node = n

\* Every prior node, given with the chassis a manifest names for it, is dead
\* to the proof and gone from membership and heartbeats.
validateHAClusterAuthority(q, prior) ==
    /\ Ready(q.node)
    /\ \A x \in prior : /\ x.node \in issued[q] /\ x.node \in down
                        /\ x.ch = {x.node}

-----------------------------------------------------------------------------
(* An HA row: the proof, the proofs before it, and for each port the       *)
(* positions it may be found in and the one it is moved to.                *)

Position(node, ch, floor, gen) == [node |-> node, ch |-> ch, floor |-> floor, gen |-> gen]

haPortPredecessors(h) == {h.prior} \cup h.preds

haPortMatchesPosition(c, x) == On(c, x.node, x.ch) /\ c.gen = x.gen /\ c.rev >= x.floor

AtPrior(c, h) == \E x \in haPortPredecessors(h) : haPortMatchesPosition(c, x)

AtTarget(c, h, n) == On(c, n, {n}) /\ c.gen = h.gen /\ c.rev >= h.rev

\* One position of each place and generation, with the lowest floor.
normalizeHAPortPositions(xs) ==
    {x \in xs : \A y \in xs : On(y, x.node, x.ch) /\ y.gen = x.gen => x.floor <= y.floor}

\* The first position that names node k: the prior one, else the lowest
\* generation and floor.
FirstAt(h, k) ==
    IF h.prior.node = k THEN h.prior
    ELSE CHOOSE x \in h.preds :
           /\ x.node = k
           /\ \A y \in h.preds : y.node = k => \/ x.gen < y.gen
                                               \/ x.gen = y.gen /\ x.floor <= y.floor

haPriorNodes(hports, n) ==
    LET named(p) == {x.node : x \in haPortPredecessors(hports[p])}
        nodes == UNION {named(p) : p \in Ports} \ {n}
        first(k) == Min({p \in Ports : k \in named(p)}) IN
    {[node |-> k, ch |-> FirstAt(hports[first(k)], k).ch] : k \in nodes}

\* HA needs every port on one chassis, that of its node.
Attached(listed) == \A p \in Ports : listed[p].ch = {listed[p].node}

newHAPayload(q, listed) ==
    [q |-> q, hist |-> {}, audit |-> Nil,
     ports |-> [p \in Ports |->
        LET c == listed[p]  moves == IF c.node # q.node THEN 1 ELSE 0 IN
        [prior |-> Position(c.node, c.ch, c.rev, c.gen), preds |-> {},
         rev |-> c.rev + moves, gen |-> c.gen + moves]]]

\* A generation above every named position, unless all are the target.
TopGeneration(h) == Max({x.gen : x \in haPortPredecessors(h)})

Fencing(h, q, same) ==
    IF \A x \in haPortPredecessors(h) : On(x, q.node, {q.node}) THEN same ELSE TopGeneration(h) + 1

\* Mutant of addMigrationPreparedPredecessors: nothing is added.
NoPreparedPredecessors(hp, m, t) == hp

\* A migration worker may still prepare a port after it was brought back.
addMigrationPreparedPredecessors(hp, m, t) ==
    [hp EXCEPT !.ports = [p \in Ports |->
        LET x == Position(PreparedNode(m), PreparedChassis(m), t[p].rev + 1, t[p].gen + 1)
            h == [hp.ports[p] EXCEPT !.preds = normalizeHAPortPositions(@ \cup {x})] IN
        [h EXCEPT !.gen = Fencing(h, hp.q, h.gen)]]]

\* Mutant of newHASupersessionPayload: the older assignments are forgotten.
SupersessionForgets(q, listed, old) == newHAPayload(q, listed)

newHASupersessionPayload(q, listed, old) ==
    LET hp == newHAPayload(q, listed) IN
    [hp EXCEPT !.hist = old.hist \cup {old.q}, !.audit = old.audit,
               !.ports = [p \in Ports |->
        LET o == old.ports[p]
            xs == haPortPredecessors(o) \cup {Position(old.q.node, {old.q.node}, o.rev, o.gen),
                                              hp.ports[p].prior}
            h == [hp.ports[p] EXCEPT !.preds = normalizeHAPortPositions(xs)] IN
        [h EXCEPT !.gen = Fencing(h, q, TopGeneration(h))]]]

-----------------------------------------------------------------------------
(* The request: proof, history, then a migration to recover or a row.      *)

HARequest(n, q) ==
    /\ w[n].pc = "idle" /\ validateHAProofIdentity(n, q)
    /\ validateHAClusterAuthority(q, {})
    /\ Step(n, [Idle EXCEPT !.pc = "history", !.q = q, !.loaded = port])
    /\ UNCHANGED <<port, ops, tokens, rest>>

HAHistory(n) ==
    /\ w[n].pc = "history"
    /\ Step(n, IF enforceHAAuthorityHistory(w[n].q) THEN Goto(n, "recover") ELSE Idle)
    /\ UNCHANGED <<port, ops, tokens, rest>>

migrationHARecoveryDirection(phase) ==
    CASE phase \in {"preparing", "compensating", "aborting", "ha-recovering-source"} -> "source"
      [] phase \in {"prepared", "committing", "ha-recovering-target"} -> "target"

Recovering(direction) == IF direction = "source" THEN "ha-recovering-source" ELSE "ha-recovering-target"

\* Both nodes of the migration, other than the HA target, must be dead.
recoverMigrationForHA(n) ==
    LET running == {m \in Moves : Running(ops[m], "migration")} IN
    /\ w[n].pc = "recover"
    /\ \/ running = {} /\ Step(n, Goto(n, "find"))
       \/ \E m \in running :
            LET prior == {[node |-> k, ch |-> {k}] : k \in {m.src, m.dst} \ {n}} IN
            Step(n, IF validateHAClusterAuthority(w[n].q, prior)
                    THEN [Goto(n, "hclaim") EXCEPT !.op = m,
                            !.phase = Recovering(migrationHARecoveryDirection(ops[m].phase))]
                    ELSE Idle)
    /\ UNCHANGED <<port, ops, tokens, rest>>

\* The claim records the proof, and the one it takes over from.
claimHAMigrationRecovery(n) ==
    LET m == w[n].op  q == w[n].q  op == ops[m]
        direction == migrationHARecoveryDirection(op.phase)
        rec == IF op.pay.rec = Nil
               THEN [direction |-> direction, orig |-> op.phase, q |-> q, hist |-> {}]
               ELSE [op.pay.rec EXCEPT !.q = q,
                       !.hist = IF op.pay.rec.q.uid # q.uid THEN @ \cup {op.pay.rec.q} ELSE @]
        pay == [op.pay EXCEPT !.rec = rec] IN
    /\ w[n].pc = "hclaim"
    /\ IF /\ Running(op, "migration") /\ Active(op)
          /\ Recovering(direction) = w[n].phase
          /\ op.pay.rec # Nil => validateHAAuthoritySuccessor(q, op.pay.rec.q)
       THEN /\ ops' = [ops EXCEPT ![m] = [op EXCEPT !.phase = w[n].phase, !.pay = pay]]
            /\ StepWriting(n, m, [w[n] EXCEPT !.pc = IF direction = "source" THEN "compensate" ELSE "fload",
                                              !.pay = pay, !.i = 1, !.fresh = TRUE])
       ELSE Step(n, Idle) /\ UNCHANGED ops
    /\ UNCHANGED <<port, tokens, rest>>

Direction(n) == w[n].pay.rec.direction

\* The recovery failed: its error is recorded under the claim.
HARecoveryFailed(n) ==
    /\ w[n].pc = "compensate" /\ w[n].i > NPorts /\ w[n].q # Nil /\ w[n].bad
    /\ StepRecording(n)
    /\ UNCHANGED <<port, ops, tokens, rest>>

validateRecoveredMigrationPorts(n, listed) ==
    LET m == w[n].op  t == w[n].pay.ports IN
    \A p \in Ports : IF Direction(n) = "source" THEN BackAtSource(m, listed[p], t[p])
                     ELSE AtFinal(m, listed[p], t[p], m.dst)

PromotedPayload(n) ==
    LET m == w[n].op  rec == w[n].pay.rec
        hp == [newHAPayload(w[n].q, port) EXCEPT !.hist = rec.hist,
                 !.audit = [m |-> m, direction |-> rec.direction, uid |-> w[n].q.uid]] IN
    IF rec.direction = "source" THEN addMigrationPreparedPredecessors(hp, m, w[n].pay.ports) ELSE hp

\* The recovered ports are listed and checked, the migration is archived
\* under the HA lifecycle, and the row's next payload is built.
HARecovered(n) ==
    LET pay == PromotedPayload(n) IN
    /\ w[n].pc \in {"compensate", "finish"} /\ w[n].i > NPorts /\ w[n].q # Nil /\ ~w[n].bad
    /\ IF validateRecoveredMigrationPorts(n, port)
       THEN /\ audits' = audits \cup {[audit |-> pay.audit, ports |-> w[n].pay.ports, orig |-> w[n].pay.rec.orig]}
            /\ Step(n, IF validateHAClusterAuthority(w[n].q, haPriorNodes(pay.ports, n))
                       THEN [Goto(n, "promote") EXCEPT !.pay = pay] ELSE Idle)
       ELSE Step(n, Idle) /\ UNCHANGED audits
    /\ UNCHANGED <<port, ops, tokens, expired, down, faults, overtaken, issued, deaths>>

\* One swap on the revision of the claim changes the row's action: the slot
\* is never free in between.
promoteMigrationRecoveryToHA(n) ==
    LET m == w[n].op IN
    /\ w[n].pc = "promote"
    /\ IF w[n].fresh
       THEN /\ ops' = [ops EXCEPT ![m] = [@ EXCEPT !.action = "ha", !.phase = "rebinding", !.pay = w[n].pay]]
            /\ StepWriting(n, m, Goto(n, "aload"))
       ELSE Step(n, Idle) /\ UNCHANGED ops
    /\ UNCHANGED <<port, tokens, rest>>

-----------------------------------------------------------------------------
(* A row of this assignment, or of an older one to supersede, or a new one. *)

Audited(op) == op.pay.audit # Nil => \E a \in audits : a.audit = op.pay.audit

HARow(op) == Exists(op) /\ op.action = "ha"

\* The row of this UID that runs, or else the ready one with the newest proof.
findHAOperationForLifecycle(q) ==
    LET found == {id \in DOMAIN ops : HARow(ops[id]) /\ ops[id].pay.q.uid = q.uid
                                      /\ ops[id].pay.q.node = q.node}
        active == {id \in found : ops[id].status = "running"}
        best == {id \in found : \A k \in found : ops[id].pay.q.epoch >= ops[k].pay.q.epoch}
        promoted == {id \in best : ops[id].pay.audit # Nil} IN
    CASE active # {} -> active
      [] active = {} /\ promoted # {} -> promoted
      [] OTHER -> best

\* The row of this assignment accepts the proof.
validateHAReplayIdentity(q, pay) == validateHAAuthoritySuccessor(q, pay.q)

HAFind(n) ==
    LET found == findHAOperationForLifecycle(w[n].q) IN
    /\ w[n].pc = "find"
    /\ Step(n, IF found = {} THEN Goto(n, "supersede")
               ELSE LET id == CHOOSE x \in found : TRUE IN
                    IF /\ Cardinality(found) = 1 /\ Audited(ops[id])
                       /\ validateHAReplayIdentity(w[n].q, ops[id].pay)
                       /\ validateHAClusterAuthority(w[n].q, haPriorNodes(ops[id].pay.ports, n))
                    THEN [Goto(n, "reclaim") EXCEPT !.op = id] ELSE Idle)
    /\ UNCHANGED <<port, ops, tokens, rest>>

\* A retry takes the running row again; a ready one is opened again.
claimHAStartOperation(n) ==
    LET id == w[n].op  q == w[n].q  op == ops[id]
        pay == [op.pay EXCEPT !.q = q]
        next == [Goto(n, "aload") EXCEPT !.pay = pay] IN
    /\ w[n].pc = "reclaim"
    /\ IF /\ HARow(op) /\ op.pay.q.uid = q.uid /\ op.pay.q.node = n
          /\ enforceHAAuthorityHistory(q)
          /\ Active(op) \/ SlotFree(ops)
       THEN IF Active(op) /\ op.pay.q = q THEN Step(n, next) /\ UNCHANGED <<ops, overtaken>>
            ELSE /\ ops' = [ops EXCEPT ![id] = [@ EXCEPT !.status = "running", !.slot = "active",
                                                          !.phase = "rebinding", !.pay = pay]]
                 /\ overtaken' = (overtaken \/ \E p \in Ports : ~(\/ AtPrior(port[p], pay.ports[p])
                                                                 \/ AtTarget(port[p], pay.ports[p], n)))
                 /\ StepWriting(n, id, next)
       ELSE Step(n, Idle) /\ UNCHANGED <<ops, overtaken>>
    /\ UNCHANGED <<port, tokens, expired, down, faults, ha>>

\* loadHAOperationPortStates: every port at one of the row's positions.
HAPortStates(pay) ==
    \A p \in Ports : AtPrior(port[p], pay.ports[p]) \/ AtTarget(port[p], pay.ports[p], pay.q.node)

\* No running HA row: a new one, from the ports listed at the start.
HANew(n) ==
    LET pay == newHAPayload(w[n].q, w[n].loaded) IN
    IF Attached(w[n].loaded) /\ validateHAClusterAuthority(w[n].q, haPriorNodes(pay.ports, n))
    THEN [Goto(n, "hcreate") EXCEPT !.op = [uid |-> w[n].q.uid], !.pay = pay] ELSE Idle

\* One of another UID: it is replaced if the proof is newer and fences its
\* target and every node it names.
HAReplace(n, id) ==
    LET old == ops[id].pay  q == w[n].q
        prior == haPriorNodes(old.ports, n) \cup
                 {[node |-> k, ch |-> {k}] : k \in {old.q.node} \ {n}}
        pay == newHASupersessionPayload(q, port, old) IN
    IF /\ q.epoch > old.q.epoch /\ q.uid # old.q.uid
       /\ validateHAClusterAuthority(q, prior)
       /\ HAPortStates(old) /\ Attached(port)
       /\ validateHAClusterAuthority(q, haPriorNodes(pay.ports, n))
    THEN [Goto(n, "replace") EXCEPT !.op = id, !.pay = pay, !.fresh = TRUE] ELSE Idle

supersedeHAOperation(n) ==
    LET active == {id \in DOMAIN ops : HARow(ops[id]) /\ ops[id].status = "running"} IN
    /\ w[n].pc = "supersede"
    /\ \/ active = {} /\ Step(n, HANew(n))
       \/ \E id \in active : Audited(ops[id]) /\ Step(n, HAReplace(n, id))
    /\ UNCHANGED <<port, ops, tokens, rest>>

HAReplaceSwap(n) ==
    LET id == w[n].op IN
    /\ w[n].pc = "replace"
    /\ IF w[n].fresh
       THEN /\ ops' = [ops EXCEPT ![id] = [@ EXCEPT !.pay = w[n].pay]]
            /\ StepWriting(n, id, Goto(n, "aload"))
       ELSE Step(n, Idle) /\ UNCHANGED ops
    /\ UNCHANGED <<port, tokens, rest>>

HACreate(n) ==
    LET id == w[n].op IN
    /\ w[n].pc = "hcreate"
    /\ IF SlotFree(ops) /\ ~Exists(ops[id])
       THEN /\ ops' = [ops EXCEPT ![id] = createComputeOperation("ha", "rebinding", w[n].pay)]
            /\ overtaken' = (overtaken \/ ~HAPortStates(w[n].pay))
            /\ StepWriting(n, id, Goto(n, "aload"))
       ELSE Step(n, Idle) /\ UNCHANGED <<ops, overtaken>>
    /\ UNCHANGED <<port, tokens, expired, down, faults, ha>>

-----------------------------------------------------------------------------
(* Move every port to the target, then answer.                             *)

HAOwner(n) == OwnedAs(ops[w[n].op], "ha", "rebinding", w[n].pay) /\ Audited(ops[w[n].op])

HALoad(n) ==
    /\ w[n].pc = "aload"
    /\ Step(n, IF HAOwner(n) THEN Load(n, "apply") ELSE Goto(n, "aerror"))
    /\ UNCHANGED <<port, ops, tokens, rest>>

applyHAPorts(n) ==
    LET p == w[n].i  h == w[n].pay.ports[p]  c == w[n].loaded[p] IN
    /\ w[n].pc = "apply" /\ p <= NPorts
    /\ Step(n, CASE ~HAOwner(n) -> Goto(n, "aerror")
                 [] AtTarget(c, h, n) -> IF n \in port[p].ch THEN NextPort(n, "apply") ELSE Goto(n, "aerror")
                 [] AtPrior(c, h) -> Goto(n, "awrite")
                 [] OTHER -> Goto(n, "aerror"))
    /\ UNCHANGED <<port, ops, tokens, rest>>

HAWrite(n) ==
    LET p == w[n].i  c == w[n].loaded[p]  key == <<"rebind", [uid |-> w[n].q.uid]>> IN
    /\ w[n].pc = "awrite"
    /\ IF Replayed(p, c.rev, key) \/ Applies(p, c.rev, key)
       THEN /\ Rebind(p, c.rev, key, n, {n}, w[n].pay.ports[p].gen)
            /\ Step(n, NextPort(n, "apply"))
       ELSE Step(n, Goto(n, "aerror")) /\ UNCHANGED <<port, tokens>>
    /\ UNCHANGED <<ops, rest>>

\* Mutant of HAReady: the answer does not wait for the last port.
HAReadyEarly(n) ==
    LET id == w[n].op IN
    /\ w[n].pc = "apply" /\ w[n].i >= NPorts
    /\ IF HAOwner(n)
       THEN /\ ops' = [ops EXCEPT ![id] = terminalizeClaimedComputeOperation(@, "ready", "succeeded")]
            /\ StepWriting(n, id, Idle)
       ELSE Step(n, Idle) /\ UNCHANGED ops
    /\ UNCHANGED <<port, tokens, rest>>

HAReady(n) ==
    LET id == w[n].op IN
    /\ w[n].pc = "apply" /\ w[n].i > NPorts
    /\ IF HAOwner(n)
       THEN /\ ops' = [ops EXCEPT ![id] = terminalizeClaimedComputeOperation(@, "ready", "succeeded")]
            /\ StepWriting(n, id, Idle)
       ELSE Step(n, Idle) /\ UNCHANGED ops
    /\ UNCHANGED <<port, tokens, rest>>

HAError(n) ==
    /\ w[n].pc = "aerror"
    /\ IF HAOwner(n) THEN StepWriting(n, w[n].op, Idle) ELSE Step(n, Idle)
    /\ UNCHANGED <<port, ops, tokens, rest>>

-----------------------------------------------------------------------------
(* The cluster.                                                            *)

Die(n) ==
    /\ n \notin down /\ deaths < MaxDeaths
    /\ down' = down \cup {n} /\ deaths' = deaths + 1
    /\ UNCHANGED <<port, ops, tokens, expired, w, faults, overtaken, issued, audits>>

Return(n) ==
    /\ n \in down
    /\ down' = down \ {n}
    /\ UNCHANGED <<port, ops, tokens, expired, w, faults, overtaken, issued, audits, deaths>>

Issue(q) ==
    /\ q \notin DOMAIN issued /\ q.node \notin down
    /\ \A b \in Proofs : b.epoch < q.epoch => b \in DOMAIN issued
    /\ issued' = [b \in DOMAIN issued \cup {q} |-> IF b = q THEN down ELSE issued[b]]
    /\ UNCHANGED <<port, ops, tokens, expired, down, w, faults, overtaken, audits, deaths>>

HAStep(n) ==
    \/ \E q \in Proofs : HARequest(n, q)
    \/ HAHistory(n) \/ recoverMigrationForHA(n) \/ claimHAMigrationRecovery(n)
    \/ HARecoveryFailed(n) \/ HARecovered(n) \/ promoteMigrationRecoveryToHA(n)
    \/ HAFind(n) \/ claimHAStartOperation(n) \/ supersedeHAOperation(n) \/ HAReplaceSwap(n)
    \/ HACreate(n) \/ HALoad(n) \/ applyHAPorts(n) \/ HAWrite(n) \/ HAReady(n) \/ HAError(n)
    \/ Die(n) \/ Return(n)

Next ==
    \/ MigrationNext
    \/ \E n \in Nodes : HAStep(n)
    \/ \E q \in Proofs : Issue(q)

Spec == MigrationInit /\ [][Next]_vars

\* A handler in flight goes on, and whoever claimed a direction, or left a
\* compensation behind, asks for it again until it has ended.
Continues(n) ==
    \/ BeginCreate(n) \/ PrepareLoad(n) \/ PreparePort(n) \/ PrepareWrite(n)
    \/ markMigrationPrepared(n)
    \/ failMigrationPrepare(n) \/ CompensateOwner(n) \/ CompensatePort(n) \/ CompensateEnd(n)
    \/ FinishLoad(n) \/ FinishPort(n) \/ FinishWrite(n) \/ FinishEnd(n) \/ FinishError(n)
    \/ StartFence(n) \/ StartPort(n)

Claims == {"committing", "aborting", "compensating"}

Retries(m) ==
    \/ ops[m].phase = "compensating" /\ BeginRequest(m.src, m)
    \/ ops[m].phase = "committing" /\ FinishRequest(m.src, m, FALSE)
    \/ ops[m].phase = "aborting" /\ FinishRequest(m.src, m, TRUE)

RetryingSpec ==
    /\ Spec
    /\ \A n \in Nodes : WF_vars(Continues(n))
    /\ \A m \in Moves : SF_vars(Exists(ops[m]) /\ Retries(m))

-----------------------------------------------------------------------------
(* What must hold.                                                         *)

\* Whatever handlers failed, stopped, were declared dead or took over, once no
\* transaction holds the VM's slot all its ports are on one node, asked for
\* by that chassis alone.
SettledInPlace ==
    SlotFree(ops) => \E n \in Nodes : \A p \in Ports : On(port[p], n, {n})

\* The places in which the handlers of a row's phase still accept a port.
Accepted(id, c, p) ==
    LET op == ops[id] IN
    IF op.action = "ha" THEN \/ AtPrior(c, op.pay.ports[p])
                             \/ AtTarget(c, op.pay.ports[p], op.pay.q.node)
    ELSE LET t == op.pay.ports[p] IN
         CASE op.phase = "preparing" -> AtSource(id, c, t) \/ AtPrepared(id, c, t)
           [] op.phase = "prepared" -> AtPrepared(id, c, t)
           [] op.phase \in {"committing", "ha-recovering-target"} ->
                AtPrepared(id, c, t) \/ AtFinal(id, c, t, id.dst)
           [] op.phase = "aborting" -> AtPrepared(id, c, t) \/ AtFinal(id, c, t, id.src)
           [] OTHER -> AtPrepared(id, c, t) \/ BackAtSource(id, c, t)

\* A transaction that runs can be carried on: its next handler finds every
\* port where the row's manifest says it may be, late writes of handlers on
\* dead nodes included; unless the row took the slot with a manifest that a
\* whole other transaction had overtaken.
Recoverable ==
    ~overtaken => \A id \in DOMAIN ops : Active(ops[id]) =>
                    \A p \in Ports : Accepted(id, port[p], p)

\* A service UID once accepted stays in the durable rows: recovery, promotion
\* and supersession of rows carry the authority history along.
AuthorityKept ==
    [][{b.uid : b \in Baselines} \subseteq {b.uid : b \in Baselines'}]_vars

\* The last port is found in place, and the start is answered.
Granted(n) == /\ w[n].pc = "sport" /\ w[n].i = NPorts /\ w'[n] = Idle
              /\ n \in port[NPorts].ch

\* A granted ordinary start finds every port on this node alone and no
\* transaction in the slot, unless a proof holds the node for dead or the
\* slot was taken with an overtaken manifest.
StartsAlone ==
    [][\A n \in Nodes :
         Granted(n) /\ w[n].phase = "start" /\ ~overtaken
         /\ (\A q \in DOMAIN issued : n \notin issued[q])
         => SlotFree(ops) /\ \A p \in Ports : On(port[p], n, {n})]_vars

\* A claimed finish and a begun compensation end when they are asked for
\* again: no failure, crash, report or start in between leaves the migration
\* in a state its own retry refuses.
ClaimedEnds ==
    \A m \in Moves : (Exists(ops[m]) /\ ops[m].phase \in Claims) ~> (ops[m].status # "running")
==============================================================================
