-------------------------- MODULE ComputeMigration --------------------------
(***************************************************************************)
(* Starts and migrations of one VM: its ports, its transactions, and one   *)
(* handler at a time on each manager, which holds that manager's lock of   *)
(* the VM.  A step is one store call: a read of an Operation row or of     *)
(* ports, a claim (OperationClaim), or an Update of one port under the     *)
(* revision and the idempotency key of the code.  Realizing a port in OVN  *)
(* changes no desired state; where it fails, the handler's next call does. *)
(* HAStart adds HA-managed starts, which may take a migration over.        *)
(***************************************************************************)
EXTENDS Naturals, FiniteSets, ComputeOperation

CONSTANTS Nodes, Nil,
          NPorts,     \* the VM's ports, in NIC order
          Home,       \* the node the VM is on at first
          Moves,      \* migrations: [src, dst, online]
          HARows,     \* names of the HA rows, [uid]
          Noisy,      \* ports whose agent reports them bound
          Starting,   \* nodes on which PVE may ask for an ordinary or incoming start
          Expiring,   \* migrations whose ExpiresAt may pass while they are open
          MaxFaults   \* failed calls and crashes explored

VARIABLES port,      \* the VM's ports in desired state
          ops,       \* Operation rows, by migration or HA service UID
          tokens,    \* idempotency keys of port updates: <<key, port, revision>>
          expired,   \* migrations past ExpiresAt
          down,      \* nodes that are offline and whose heartbeat is stale
          w,         \* the handler in flight on each manager
          issued, audits, deaths,  \* the HA manager's, which HAStart changes
          faults,
          overtaken  \* history: a row took the slot with a manifest its ports had left

Ports == 1..NPorts

\* Registered, in the cluster, with a fresh heartbeat and a healthy agent.
Ready(n) == n \notin down

Idle == [pc |-> "idle", op |-> Nil, phase |-> "none", pay |-> Nil, loaded |-> Nil,
         i |-> 0, bad |-> FALSE, q |-> Nil, fresh |-> TRUE]

MigrationInit ==
    /\ port = [p \in Ports |-> [node |-> Home, ch |-> {Home}, gen |-> 1, rev |-> 1, st |-> "bound"]]
    /\ ops = [id \in Moves \cup HARows |-> NoOperation]
    /\ tokens = {} /\ expired = {} /\ down = {} /\ faults = 0 /\ overtaken = FALSE
    /\ w = [n \in Nodes |-> Idle]
    /\ issued = [q \in {} |-> {}] /\ audits = {} /\ deaths = 0

-----------------------------------------------------------------------------
(* Where a port is, seen from the manifest [rev, gen] of a migration m.    *)

On(c, n, ch) == c.node = n /\ c.ch = ch

PreparedNode(m) == IF m.online THEN m.src ELSE m.dst
PreparedChassis(m) == IF m.online THEN {m.src, m.dst} ELSE {m.dst}

AtSource(m, c, t) == On(c, m.src, {m.src}) /\ c.gen = t.gen /\ c.rev >= t.rev

AtPrepared(m, c, t) == /\ On(c, PreparedNode(m), PreparedChassis(m))
                       /\ c.gen = t.gen + 1 /\ c.rev >= t.rev + 1

FinalFloor(m, t, n) == IF ~m.online /\ n = m.dst THEN t.rev + 1 ELSE t.rev + 2

AtFinal(m, c, t, n) == /\ On(c, n, {n})
                       /\ c.gen = t.gen + 1 /\ c.rev >= FinalFloor(m, t, n)

BackAtSource(m, c, t) == AtSource(m, c, t) \/ AtFinal(m, c, t, m.src)

-----------------------------------------------------------------------------
(* Steps of a handler.                                                     *)

Goto(n, place) == [w[n] EXCEPT !.pc = place]

\* Only the handler of n moves.
Step(n, h) == w' = [w EXCEPT ![n] = h]

\* ... and it writes row id, which another handler may have read before.
StepWriting(n, id, h) ==
    w' = [k \in Nodes |-> IF k = n THEN h
                          ELSE IF w[k].op = id /\ w[k].q # Nil THEN [w[k] EXCEPT !.fresh = FALSE]
                          ELSE w[k]]

NextPort(n, place) == [w[n] EXCEPT !.pc = place, !.i = @ + 1]

Load(n, place) == [w[n] EXCEPT !.pc = place, !.loaded = port, !.i = 1]

\* recordComputeClaimError writes the row only under the handler's claim.
StepRecording(n) ==
    IF Running(ops[w[n].op], "migration") /\ ops[w[n].op].phase = w[n].phase
    THEN StepWriting(n, w[n].op, Idle) ELSE Step(n, Idle)

ha == <<issued, audits, deaths>>

rest == <<expired, down, faults, overtaken, ha>>

\* assertMigrationOperationOwner
MigrationOwner(n) == OwnedAs(ops[w[n].op], "migration", w[n].phase, w[n].pay)

\* Store.Update of port p at revision rev: a repeated key writes nothing, a
\* moved revision or a key used at another revision fails.
Replayed(p, rev, key) == <<key, p, rev>> \in tokens

Applies(p, rev, key) == port[p].rev = rev /\ \A t \in tokens : ~(t[1] = key /\ t[2] = p)

Rebind(p, rev, key, node, ch, gen) ==
    IF Replayed(p, rev, key) THEN UNCHANGED <<port, tokens>>
    ELSE /\ port' = [port EXCEPT ![p] = [node |-> node, ch |-> ch, gen |-> gen,
                                         rev |-> rev + 1, st |-> "binding"]]
         /\ tokens' = tokens \cup {<<key, p, rev>>}

-----------------------------------------------------------------------------
(* Begin: list the ports, create the row, move every port, mark prepared.  *)

newMigrationPayload ==
    [ports |-> [p \in Ports |-> [rev |-> port[p].rev, gen |-> port[p].gen]], rec |-> Nil]

\* Mutant of BeginRequest: an interrupted compensation is not taken up again.
BeginRequestNoResume(n, m) ==
    /\ w[n].pc = "idle" /\ Ready(n) /\ m.src = n
    /\ \/ /\ ~Exists(ops[m]) /\ Ready(m.dst)
          /\ \A p \in Ports : On(port[p], n, {n})
          /\ Step(n, [Idle EXCEPT !.pc = "create", !.op = m, !.phase = "preparing",
                                  !.pay = newMigrationPayload])
       \/ /\ Running(ops[m], "migration")
          /\ ops[m].phase \in {"preparing", "prepared"} /\ m \notin expired
          /\ Step(n, [Idle EXCEPT !.pc = "pload", !.op = m, !.phase = ops[m].phase,
                                  !.pay = ops[m].pay])
    /\ UNCHANGED <<port, ops, tokens, rest>>

BeginRequest(n, m) ==
    /\ w[n].pc = "idle" /\ Ready(n) /\ m.src = n
    /\ \/ /\ ~Exists(ops[m]) /\ Ready(m.dst)
          /\ \A p \in Ports : On(port[p], n, {n})
          /\ Step(n, [Idle EXCEPT !.pc = "create", !.op = m, !.phase = "preparing",
                                  !.pay = newMigrationPayload])
       \/ /\ Running(ops[m], "migration")
          /\ \/ ops[m].phase = "compensating" /\ ops[m].pay.rec = Nil
             \/ ops[m].phase \in {"preparing", "prepared"} /\ m \notin expired
          /\ Step(n, [Idle EXCEPT !.pc = IF ops[m].phase = "compensating" THEN "pclaim" ELSE "pload",
                                  !.op = m, !.phase = ops[m].phase, !.pay = ops[m].pay])
    /\ UNCHANGED <<port, ops, tokens, rest>>

\* The ports listed before may have been moved by a transaction that ended
\* in between: the slot is free again and the row is created all the same.
BeginCreate(n) ==
    LET m == w[n].op IN
    /\ w[n].pc = "create"
    /\ IF SlotFree(ops) /\ ~Exists(ops[m])
       THEN /\ ops' = [ops EXCEPT ![m] = createComputeOperation("migration", "preparing", w[n].pay)]
            /\ overtaken' = (overtaken \/ \E p \in Ports : ~AtSource(m, port[p], w[n].pay.ports[p]))
            /\ StepWriting(n, m, Goto(n, "pload"))
       ELSE Step(n, Idle) /\ UNCHANGED <<ops, overtaken>>
    /\ UNCHANGED <<port, tokens, expired, down, faults, ha>>

PrepareLoad(n) ==
    /\ w[n].pc = "pload"
    /\ Step(n, Load(n, "prepare"))
    /\ UNCHANGED <<port, ops, tokens, rest>>

PreparePort(n) ==
    LET m == w[n].op  p == w[n].i IN
    /\ w[n].pc = "prepare" /\ p <= NPorts
    /\ Step(n, CASE ~MigrationOwner(n) -> Goto(n, "pclaim")
                 [] AtPrepared(m, w[n].loaded[p], w[n].pay.ports[p]) -> NextPort(n, "prepare")
                 [] AtSource(m, w[n].loaded[p], w[n].pay.ports[p]) -> Goto(n, "pwrite")
                 [] OTHER -> Goto(n, "pclaim"))
    /\ UNCHANGED <<port, ops, tokens, rest>>

PrepareWrite(n) ==
    LET m == w[n].op  p == w[n].i  rev == w[n].loaded[p].rev  key == <<"prepare", m>> IN
    /\ w[n].pc = "pwrite"
    /\ IF Replayed(p, rev, key) \/ Applies(p, rev, key)
       THEN /\ Rebind(p, rev, key, PreparedNode(m), PreparedChassis(m), w[n].pay.ports[p].gen + 1)
            /\ Step(n, NextPort(n, "prepare"))
       ELSE Step(n, Goto(n, "pclaim")) /\ UNCHANGED <<port, tokens>>
    /\ UNCHANGED <<ops, rest>>

markMigrationPrepared(n) ==
    LET m == w[n].op IN
    /\ w[n].pc = "prepare" /\ w[n].i > NPorts
    /\ IF Claimable(ops[m], "migration", {"preparing"}, "prepared")
       THEN /\ ops' = [ops EXCEPT ![m] = claimComputeOperation(@, "prepared")]
            /\ StepWriting(n, m, Idle)
       ELSE Step(n, Idle) /\ UNCHANGED ops
    /\ UNCHANGED <<port, tokens, rest>>

-----------------------------------------------------------------------------
(* A failed prepare: claim the compensation, bring every port back, end.   *)

failMigrationPrepare(n) ==
    LET m == w[n].op IN
    /\ w[n].pc = "pclaim"
    /\ IF Claimable(ops[m], "migration", {"preparing", "prepared"}, "compensating")
       THEN /\ ops' = [ops EXCEPT ![m] = claimComputeOperation(@, "compensating")]
            /\ StepWriting(n, m, [w[n] EXCEPT !.pc = "compensate", !.phase = "compensating", !.i = 1])
       ELSE Step(n, Idle) /\ UNCHANGED ops
    /\ UNCHANGED <<port, tokens, rest>>

CompensateOwner(n) ==
    /\ w[n].pc = "compensate" /\ w[n].i <= NPorts
    /\ Step(n, IF MigrationOwner(n) THEN Goto(n, "cport")
               ELSE [w[n] EXCEPT !.bad = TRUE, !.i = NPorts + 1])
    /\ UNCHANGED <<port, ops, tokens, rest>>

\* The port is read anew, so its revision holds when the update applies.
CompensatePort(n) ==
    LET m == w[n].op  p == w[n].i  t == w[n].pay.ports[p]  key == <<"compensate", m>>
        back == BackAtSource(m, port[p], t)
        write == AtPrepared(m, port[p], t) /\ Applies(p, port[p].rev, key) IN
    /\ w[n].pc = "cport"
    /\ IF ~back /\ write THEN Rebind(p, port[p].rev, key, m.src, {m.src}, port[p].gen)
       ELSE UNCHANGED <<port, tokens>>
    /\ Step(n, [NextPort(n, "compensate") EXCEPT !.bad = @ \/ ~(back \/ write)])
    /\ UNCHANGED <<ops, rest>>

CompensateEnd(n) ==
    LET m == w[n].op IN
    /\ w[n].pc = "compensate" /\ w[n].i > NPorts /\ w[n].q = Nil
    /\ IF ~w[n].bad /\ Terminalizable(ops[m], "migration", "compensating", "compensated", "failed")
       THEN ops' = [ops EXCEPT ![m] = terminalizeClaimedComputeOperation(@, "compensated", "failed")]
       ELSE UNCHANGED ops
    /\ StepRecording(n)
    /\ UNCHANGED <<port, tokens, rest>>

-----------------------------------------------------------------------------
(* Finalize and abort: claim the direction, move every port, end.          *)

\* Mutant of FinishRequest: a migration that is still preparing is finished.
FinishRequestEarly(n, m, abort) ==
    LET claim == IF abort THEN "aborting" ELSE "committing" IN
    /\ w[n].pc = "idle" /\ Ready(n) /\ m.src = n
    /\ Claimable(ops[m], "migration", {"preparing", "prepared"}, claim)
    /\ ops' = [ops EXCEPT ![m] = claimComputeOperation(@, claim)]
    /\ StepWriting(n, m, [Idle EXCEPT !.pc = "fload", !.op = m, !.phase = claim, !.pay = ops[m].pay])
    /\ UNCHANGED <<port, tokens, rest>>

FinishRequest(n, m, abort) ==
    LET claim == IF abort THEN "aborting" ELSE "committing" IN
    /\ w[n].pc = "idle" /\ Ready(n) /\ m.src = n
    /\ Claimable(ops[m], "migration", {"prepared"}, claim)
    /\ ops' = [ops EXCEPT ![m] = claimComputeOperation(@, claim)]
    /\ StepWriting(n, m, [Idle EXCEPT !.pc = "fload", !.op = m, !.phase = claim, !.pay = ops[m].pay])
    /\ UNCHANGED <<port, tokens, rest>>

FinishLoad(n) ==
    /\ w[n].pc = "fload"
    /\ Step(n, Load(n, "finish"))
    /\ UNCHANGED <<port, ops, tokens, rest>>

FinishTo(n) == IF w[n].phase = "aborting" THEN w[n].op.src ELSE w[n].op.dst

\* Mutant of FinishPort: an abort leaves prepared ports as they are.
FinishPortLenient(n) ==
    LET m == w[n].op  p == w[n].i  c == w[n].loaded[p]  t == w[n].pay.ports[p] IN
    /\ w[n].pc = "finish" /\ p <= NPorts
    /\ Step(n, CASE ~MigrationOwner(n) -> Goto(n, "ferror")
                 [] AtFinal(m, c, t, FinishTo(n)) -> NextPort(n, "finish")
                 [] AtPrepared(m, c, t) /\ w[n].phase = "committing" -> Goto(n, "fwrite")
                 [] OTHER -> NextPort(n, "finish"))
    /\ UNCHANGED <<port, ops, tokens, rest>>

FinishPort(n) ==
    LET m == w[n].op  p == w[n].i  c == w[n].loaded[p]  t == w[n].pay.ports[p] IN
    /\ w[n].pc = "finish" /\ p <= NPorts
    /\ Step(n, CASE ~MigrationOwner(n) -> Goto(n, "ferror")
                 [] AtFinal(m, c, t, FinishTo(n)) -> NextPort(n, "finish")
                 [] AtPrepared(m, c, t) -> Goto(n, "fwrite")
                 [] OTHER -> Goto(n, "ferror"))
    /\ UNCHANGED <<port, ops, tokens, rest>>

FinishWrite(n) ==
    LET m == w[n].op  p == w[n].i  c == w[n].loaded[p]
        key == <<IF w[n].phase = "aborting" THEN "abort" ELSE "finalize", m>> IN
    /\ w[n].pc = "fwrite"
    /\ IF Replayed(p, c.rev, key) \/ Applies(p, c.rev, key)
       THEN /\ Rebind(p, c.rev, key, FinishTo(n), {FinishTo(n)}, c.gen)
            /\ Step(n, NextPort(n, "finish"))
       ELSE Step(n, Goto(n, "ferror")) /\ UNCHANGED <<port, tokens>>
    /\ UNCHANGED <<ops, rest>>

FinishEnd(n) ==
    LET m == w[n].op
        terminal == IF w[n].phase = "aborting" THEN "aborted" ELSE "finalized" IN
    /\ w[n].pc = "finish" /\ w[n].i > NPorts /\ w[n].q = Nil
    /\ IF Terminalizable(ops[m], "migration", w[n].phase, terminal, "succeeded")
       THEN ops' = [ops EXCEPT ![m] = terminalizeClaimedComputeOperation(@, terminal, "succeeded")]
       ELSE UNCHANGED ops
    /\ StepRecording(n)
    /\ UNCHANGED <<port, tokens, rest>>

\* recordComputeClaimError: a new revision of the row and nothing else.
FinishError(n) ==
    /\ w[n].pc = "ferror"
    /\ StepRecording(n)
    /\ UNCHANGED <<port, ops, tokens, rest>>

-----------------------------------------------------------------------------
(* Starts: an ordinary one, and the target's of an online migration.       *)

StartRequest(n, kind) ==
    /\ w[n].pc = "idle" /\ n \in Starting \ down
    /\ Step(n, [Idle EXCEPT !.pc = "fence", !.phase = kind, !.loaded = port, !.i = 1])
    /\ UNCHANGED <<port, ops, tokens, rest>>

\* Mutant of fenceOrdinaryStartOnComputeLifecycle: running transactions are
\* not looked at.
StartUnfenced(n) == \A p \in Ports : w[n].loaded[p].ch = {n}

fenceOrdinaryStartOnComputeLifecycle(n) ==
    /\ \A id \in DOMAIN ops : ~(Active(ops[id]) /\ ops[id].status = "running")
    /\ \A p \in Ports : w[n].loaded[p].ch = {n}

authorizeMigrationTargetStart(n) ==
    \E m \in Moves : /\ Running(ops[m], "migration") /\ ops[m].phase = "prepared"
                     /\ m.online /\ m.dst = n /\ m \notin expired
                     /\ \A p \in Ports : AtPrepared(m, w[n].loaded[p], ops[m].pay.ports[p])

StartFence(n) ==
    /\ w[n].pc = "fence"
    /\ Step(n, IF IF w[n].phase = "start" THEN fenceOrdinaryStartOnComputeLifecycle(n)
                                          ELSE authorizeMigrationTargetStart(n)
               THEN Goto(n, "sport") ELSE Idle)
    /\ UNCHANGED <<port, ops, tokens, rest>>

\* Each port is realized, read again and must still ask for this chassis.
StartPort(n) ==
    /\ w[n].pc = "sport"
    /\ Step(n, IF n \in port[w[n].i].ch /\ w[n].i < NPorts THEN NextPort(n, "sport") ELSE Idle)
    /\ UNCHANGED <<port, ops, tokens, rest>>

-----------------------------------------------------------------------------
(* What happens around the handlers.                                       *)

\* The agent reports a port bound: a new revision at the same place.
ReportBound(p) ==
    /\ p \in Noisy /\ port[p].st = "binding"
    /\ port' = [port EXCEPT ![p].st = "bound", ![p].rev = @ + 1]
    /\ UNCHANGED <<ops, tokens, w, rest>>

Expire(m) ==
    /\ m \in Expiring \ expired
    /\ Running(ops[m], "migration") /\ ops[m].phase \in {"preparing", "prepared"}
    /\ expired' = expired \cup {m}
    /\ UNCHANGED <<port, ops, tokens, w, down, faults, overtaken, ha>>

\* A store call, or the realization of the port before, fails: each
\* handler's own way out.
Failed(n) ==
    LET pc == w[n].pc IN
    CASE pc \in {"pload", "prepare", "pwrite"} -> {Goto(n, "pclaim")}
      [] pc = "compensate" -> {[w[n] EXCEPT !.bad = TRUE], [w[n] EXCEPT !.bad = TRUE, !.i = NPorts + 1]}
      [] pc = "cport" -> {[NextPort(n, "compensate") EXCEPT !.bad = TRUE]}
      [] pc \in {"fload", "finish", "fwrite"} -> {Goto(n, "ferror")}
      [] pc \in {"aload", "apply", "awrite"} -> {Goto(n, "aerror")}
      [] OTHER -> {Idle}

CallFails(n) ==
    /\ w[n].pc # "idle" /\ faults < MaxFaults
    /\ faults' = faults + 1
    /\ \E h \in Failed(n) : Step(n, h)
    /\ UNCHANGED <<port, ops, tokens, expired, down, overtaken, ha>>

\* The manager restarts: the handler is gone.
Crash(n) ==
    /\ w[n].pc # "idle" /\ faults < MaxFaults
    /\ faults' = faults + 1
    /\ Step(n, Idle)
    /\ UNCHANGED <<port, ops, tokens, expired, down, overtaken, ha>>

MigrationStep(n) ==
    \/ \E m \in Moves : BeginRequest(n, m) \/ \E abort \in BOOLEAN : FinishRequest(n, m, abort)
    \/ BeginCreate(n) \/ PrepareLoad(n) \/ PreparePort(n) \/ PrepareWrite(n)
    \/ markMigrationPrepared(n)
    \/ failMigrationPrepare(n) \/ CompensateOwner(n) \/ CompensatePort(n) \/ CompensateEnd(n)
    \/ FinishLoad(n) \/ FinishPort(n) \/ FinishWrite(n) \/ FinishEnd(n) \/ FinishError(n)
    \/ \E kind \in {"start", "incoming"} : StartRequest(n, kind)
    \/ StartFence(n) \/ StartPort(n)
    \/ CallFails(n) \/ Crash(n)

MigrationNext ==
    \/ \E n \in Nodes : MigrationStep(n)
    \/ \E p \in Ports : ReportBound(p)
    \/ \E m \in Moves : Expire(m)
==============================================================================
