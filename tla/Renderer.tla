------------------------------ MODULE Renderer ------------------------------
(* Managers that render resources side by side into one Northbound          *)
(* database, with no transaction over the desired state and the rows: an    *)
(* API manager renders what it just wrote or deletes, and a forced pass     *)
(* (ReconcileAll) renders everything in dependency order.  The claims and   *)
(* leases of a single resource are in Reconcile; here a delete only waits   *)
(* for the other workers on its resource.                                   *)
(*                                                                          *)
(* A worker's step is one of its calls' reads, or one of its ovn-nbctl      *)
(* transactions.                                                            *)
EXTENDS RenderCalls

CONSTANTS Managers, Auditor, MaxFaults

VARIABLES wk,     \* the workers: the managers' requests and the pass
          left,   \* the edits users have yet to make: [id, x], x Nil to delete
          pass,   \* the forced pass: its state, queue, errors, whether it is undisturbed
          moved,  \* history: ports whose network was changed
          ready,  \* history: resources at the revision marked reconciled
          spoilt, \* history: keys whose rows were not PVN's alone when it started
          faults  \* lost calls and crashes so far

vars == <<want, ovn, wk, left, pass, moved, ready, spoilt, faults>>

Workers == Managers \cup {Auditor}

Idle == [mode |-> "idle", cur |-> Nil, todo |-> <<>>, plan |-> Nil, again |-> FALSE,
         at |-> Nil, kept |-> {}, bad |-> FALSE]

Busy(m) == wk[m].mode # "idle"

\* Render of a live resource, Delete of a tombstone.
Start(x) ==
    IF x.st = "live" THEN [Idle EXCEPT !.mode = "render", !.cur = x, !.todo = Render(x)]
    ELSE [Idle EXCEPT !.mode = "delete", !.cur = x, !.todo = Delete(x)]

Failed(w) == [w EXCEPT !.todo = <<>>, !.plan = Nil, !.again = FALSE, !.bad = TRUE]

Done(w, p) == [w EXCEPT !.todo = p.more \o Tail(@), !.plan = Nil, !.again = FALSE,
                        !.at = p.at, !.kept = p.kept]

\* A call whose transaction returned an error.
Unwritten(w) == IF w.plan.retry /\ ~w.again THEN [w EXCEPT !.plan = Nil, !.again = TRUE] ELSE Failed(w)

\* Another worker holds the resource: FenceReconciles.
Held(id, m) == \E o \in Workers \ {m} : Busy(o) /\ wk[o].cur.id = id

-----------------------------------------------------------------------------
(* The API.                                                                *)

Edited(e) ==
    LET old == want[e.id]
        rev == IF old = Nil THEN 1 ELSE old.rev + 1
    IN IF e.x = Nil THEN [old EXCEPT !.st = "deleting", !.rev = rev] ELSE [e.x EXCEPT !.rev = rev]

Deletable(id) ==
    /\ want[id] # Nil /\ want[id].st = "live" /\ ~lastSegment(want, want[id])
    /\ \A o \in DOMAIN want : want[o] # Nil => id \notin References(want[o])

Edit(m, e) ==
    LET x == Edited(e) IN
    /\ ~Busy(m) /\ e \in left
    /\ e.x = Nil => Deletable(e.id)
    /\ e.x # Nil /\ want[e.id] # Nil => want[e.id].st = "live"
    /\ want' = [want EXCEPT ![e.id] = x]
    /\ Valid(want')
    /\ left' = left \ {e}
    /\ wk' = [wk EXCEPT ![m] = IF x.st = "deleting" /\ Held(e.id, m) THEN Idle ELSE Start(x)]
    /\ moved' = IF want[e.id] # Nil /\ x.kind = "port" /\ x.net # want[e.id].net THEN moved \cup {e.id} ELSE moved
    /\ pass' = [pass EXCEPT !.calm = FALSE]
    /\ UNCHANGED <<ovn, ready, spoilt, faults>>

-----------------------------------------------------------------------------
(* A worker.                                                               *)

Read(m) ==
    LET w == wk[m]
        p == Prepare(w, Head(w.todo))
    IN /\ w.todo # <<>> /\ w.plan = Nil
       /\ wk' = [wk EXCEPT ![m] = IF p = Refused THEN Failed(w)
                                  ELSE IF p.args = <<>> THEN Done(w, p) ELSE [w EXCEPT !.plan = p]]
       /\ UNCHANGED <<want, ovn, left, pass, moved, ready, spoilt, faults>>

Write(m) ==
    LET w == wk[m]
        d == Run(ovn, w.plan.args)
    IN /\ w.plan # Nil
       /\ wk' = [wk EXCEPT ![m] = IF d = Refused THEN Unwritten(w) ELSE Done(w, w.plan)]
       /\ ovn' = IF d = Refused THEN ovn ELSE d
       /\ UNCHANGED <<want, left, pass, moved, ready, spoilt, faults>>

\* The transaction's result is lost: it was carried out, or it was not.
Lost(m) ==
    LET w == wk[m]
        d == Run(ovn, w.plan.args)
    IN /\ faults < MaxFaults /\ w.plan # Nil
       /\ wk' = [wk EXCEPT ![m] = Unwritten(w)]
       /\ ovn' \in {ovn, IF d = Refused THEN ovn ELSE d}
       /\ pass' = [pass EXCEPT !.calm = FALSE]
       /\ faults' = faults + 1
       /\ UNCHANGED <<want, left, moved, ready, spoilt>>

Crash(m) ==
    /\ faults < MaxFaults /\ Busy(m)
    /\ wk' = [wk EXCEPT ![m] = Idle]
    /\ pass' = [pass EXCEPT !.st = IF m = Auditor THEN "none" ELSE @, !.calm = FALSE]
    /\ faults' = faults + 1
    /\ UNCHANGED <<want, ovn, left, moved, ready, spoilt>>

\* MarkReconciled, and the pass's share of the error.
Mark(w) == IF w.bad THEN ready ELSE ready \cup {At(w.cur)}

\* Mutant of Reload: the worker does not look at the desired state again.
NoReload(m) ==
    /\ wk[m].mode = "render" /\ wk[m].todo = <<>>
    /\ wk' = [wk EXCEPT ![m] = Idle]
    /\ ready' = Mark(wk[m])
    /\ pass' = [pass EXCEPT !.errs = @ \/ (m = Auditor /\ wk[m].bad)]
    /\ UNCHANGED <<want, ovn, left, moved, spoilt, faults>>

\* renderUntilStable: look at the desired state again; clean up what is no
\* longer desired, render what changed.
Reload(m) ==
    LET w == wk[m]
        now == want[w.cur.id]
        gone == now = Nil \/ now.st = "deleting"
        done == ~gone /\ now.rev = w.cur.rev
    IN /\ w.mode = "render" /\ w.todo = <<>>
       /\ wk' = [wk EXCEPT ![m] = IF done THEN Idle
                                  ELSE IF gone THEN [Idle EXCEPT !.mode = "cleanup", !.cur = w.cur, !.todo = Delete(w.cur)]
                                  ELSE Start(now)]
       /\ ready' = IF done THEN Mark(w) ELSE ready
       /\ pass' = [pass EXCEPT !.errs = @ \/ (m = Auditor /\ done /\ w.bad)]
       /\ UNCHANGED <<want, ovn, left, moved, spoilt, faults>>

\* The rows are gone: a delete purges its tombstone, unless it was replaced.
Erased(m) ==
    LET w == wk[m]
        id == w.cur.id
        purge == w.mode = "delete" /\ ~w.bad /\ want[id] # Nil /\ want[id].rev = w.cur.rev
    IN /\ w.mode \in {"delete", "cleanup"} /\ w.todo = <<>>
       /\ want' = IF purge THEN [want EXCEPT ![id] = Nil] ELSE want
       /\ wk' = [wk EXCEPT ![m] = Idle]
       /\ pass' = [pass EXCEPT !.errs = @ \/ (m = Auditor /\ w.bad)]
       /\ UNCHANGED <<ovn, left, moved, ready, spoilt, faults>>

-----------------------------------------------------------------------------
(* The forced pass.                                                        *)

InOrder(w) == FlattenSeq([k \in DOMAIN dependencyOrder |-> SetToSeq(Of(w, dependencyOrder[k]))])

PassStart ==
    /\ pass.st # "run"
    /\ pass' = [st |-> "run", queue |-> InOrder(want), errs |-> FALSE, calm |-> \A m \in Managers : ~Busy(m)]
    /\ UNCHANGED <<want, ovn, wk, left, moved, ready, spoilt, faults>>

\* A resource that is gone is an error; a tombstone someone holds is passed.
PassNext ==
    LET id == Head(pass.queue)
        x == want[id]
    IN /\ pass.st = "run" /\ pass.queue # <<>> /\ ~Busy(Auditor)
       /\ wk' = IF x = Nil \/ (x.st = "deleting" /\ Held(id, Auditor)) THEN wk
                ELSE [wk EXCEPT ![Auditor] = Start(x)]
       /\ pass' = [pass EXCEPT !.queue = Tail(@), !.errs = @ \/ x = Nil]
       /\ UNCHANGED <<want, ovn, left, moved, ready, spoilt, faults>>

PassEnd ==
    /\ pass.st = "run" /\ pass.queue = <<>> /\ ~Busy(Auditor)
    /\ pass' = [pass EXCEPT !.st = "done"]
    /\ UNCHANGED <<want, ovn, wk, left, moved, ready, spoilt, faults>>

WorkerStep(m) == Read(m) \/ Write(m) \/ Reload(m) \/ Erased(m)

Next ==
    \/ \E m \in Managers, e \in left : Edit(m, e)
    \/ \E m \in Workers : WorkerStep(m) \/ Lost(m) \/ Crash(m)
    \/ PassStart \/ PassNext \/ PassEnd

-----------------------------------------------------------------------------
(* Properties.                                                             *)

\* Tables whose rows are only written after a lookup of their ownership.
Guarded == {"LS", "LR", "PG", "DHCP", "ACL", "port", "default", "fip"}

Expected == {x.key : x \in buildManagedAuditPlan(want)}

Contested == {key \in Expected :
    /\ key[1] \in Guarded
    /\ \/ Cardinality(Owned(ovn, key)) > 1
       \/ key[1] \in Named /\ Owned(ovn, key) # NamedRows(ovn, key)}

\* What an operator has to settle before a pass can succeed.
Unsettled ==
    \/ spoilt # {}
    \/ \E n \in LiveOf(want, "network") : want[n].provider # Nil /\ defaultProviderSegment(want[n].provider) = Refused
    \/ enabledGatewayChassis = {} /\ \E r \in LiveOf(want, "router") : want[r].ext # Nil

\* What the audit does not look at: router port networks and gateway chassis.
GatewaysMatch ==
    \A r \in LiveOf(want, "router") : want[r].ext # Nil =>
        \A u \in NamedRows(ovn, <<"gwlrp", r>>) :
            ovn.row[u].chassis = enabledGatewayChassis /\ ovn.row[u].opts = want[r].ip

InterfacesMatch ==
    \A i \in LiveOf(want, "iface") : \A u \in NamedRows(ovn, <<"lrp", i>>) : ovn.row[u].opts = want[i].subnet

\* A forced pass (reconcileAll with freshness 0) that nothing disturbed and
\* that reports no error leaves exactly the rows and references that the audit
\* of pvnctl reconcile-ovn works out from the desired state, whatever
\* interleaved renders, lost calls and crashes left before it; it reports an
\* error only for what an operator has to settle.  A port whose network was
\* changed is the exception: it stays on its old switch.
PassRealizes ==
    pass.st = "done" /\ pass.calm =>
        IF pass.errs THEN Unsettled
        ELSE /\ AuditManagedGraph(want, ovn) \subseteq {<<"port", p>> : p \in moved}
             /\ GatewaysMatch /\ InterfacesMatch

\* The row a resource is known by; Nil for those that may have none.
OwnRow(x) ==
    CASE x.kind = "network" -> <<"LS", x.id>>
      [] x.kind = "subnet" /\ x.dhcp -> <<"DHCP", x.id>>
      [] x.kind = "group" -> <<"PG", x.id>>
      [] x.kind = "rule" -> <<"ACL", x.id>>
      [] x.kind = "router" -> <<"LR", x.id>>
      [] x.kind = "iface" -> <<"lrp", x.id>>
      [] x.kind = "port" -> <<"port", x.id>>
      [] x.kind = "fip" /\ x.port # Nil -> <<"fip", x.id>>
      [] OTHER -> Nil

\* A resource whose present revision was marked reconciled has its row, and
\* the row is of that revision, once the managers are done: the manager of an
\* older revision that writes last looks again (renderUntilStable) and writes
\* the newer one over its own.  Without crashes and lost answers.
RowOfReady ==
    faults = 0 /\ (\A m \in Workers : ~Busy(m)) =>
        \A id \in DOMAIN want :
            Is(want, id) /\ want[id].st = "live" /\ At(want[id]) \in ready /\ OwnRow(want[id]) # Nil =>
                \E u \in Owned(ovn, OwnRow(want[id])) : Head(ovn.row[u].rev) = At(want[id])

=============================================================================
