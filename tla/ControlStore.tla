---------------------------- MODULE ControlStore ----------------------------
(***************************************************************************)
(* The PVN_Control desired-state store as one reconciled resource sees it: *)
(* the metadata of that resource and the durable operations that target it *)
(* (internal/controlstore/memory.go; internal/ovsdbstore/store.go commits  *)
(* the same transitions).  Every operator below is one store call, and a   *)
(* store call is one atomic step.                                          *)
(*                                                                         *)
(* Data abstraction.                                                       *)
(*   - An operation is unique per (target, target revision), so ops is     *)
(*     indexed by the target revision.                                     *)
(*   - An operation's own revision is only ever compared for equality (the *)
(*     CAS of a claim, a renewal or a completion).  seen[w] is the set of  *)
(*     operations whose stored revision is still the one caller w last     *)
(*     read or wrote.                                                      *)
(*   - A lease time is only ever compared with a cutoff: live says that    *)
(*     the last claim or renewal is younger than the lease.                *)
(***************************************************************************)
EXTENDS Naturals, FiniteSets

CONSTANTS Workers,  \* concurrent reconcile and delete workflows, over all managers
          Nobody,   \* the lease owner of an operation nobody is running
          MaxRev,   \* bound on the desired revisions a resource goes through
          MaxLives  \* how often the same resource ID is created

ASSUME StoreAssumption == /\ Nobody \notin Workers
                          /\ MaxRev \in Nat \ {0}
                          /\ MaxLives \in Nat

VARIABLES res,   \* the resource's metadata: state, revision, applied revision
          lives, \* how often it was created
          ops,   \* the durable operation of each target revision
          seen   \* per caller, the operations it knows at their stored revision

storeVars == <<res, lives, ops, seen>>

Revs == 1..MaxRev

Meta(state, rev, applied) == [state |-> state, rev |-> rev, applied |-> applied]

Absent == Meta("absent", 0, 0)

NoOp == [act |-> "none", status |-> "none", owner |-> Nobody, live |-> FALSE]

Resource == [state : {"absent", "pending", "ready", "error", "deleting"},
             rev : 0..MaxRev, applied : 0..MaxRev]

Operation == [act : {"none", "reconcile", "delete"},
              status : {"none", "queued", "running", "succeeded", "failed"},
              owner : Workers \cup {Nobody}, live : BOOLEAN]

StoreTypeOK == /\ res \in Resource
               /\ lives \in Nat
               /\ ops \in [Revs -> Operation]
               /\ seen \in [Workers -> SUBSET (0..MaxRev)]

StoreInit == /\ res = Absent
             /\ lives = 0
             /\ ops = [k \in Revs |-> NoOp]
             /\ seen = [w \in Workers |-> {}]

-----------------------------------------------------------------------------
(* Desired state.                                                          *)

\* Create: revision 1, nothing applied.
Create == /\ res.state = "absent" /\ lives < MaxLives
          /\ res' = Meta("pending", 1, 0)
          /\ lives' = lives + 1
          /\ UNCHANGED <<ops, seen>>

\* Update with the current revision: any stored state, a tombstone included,
\* becomes the next pending revision.
Update == /\ res.state # "absent" /\ res.rev < MaxRev
          /\ res' = Meta("pending", res.rev + 1, res.applied)
          /\ UNCHANGED <<lives, ops, seen>>

\* Mutant of BeginDelete: the tombstone keeps the revision of what it deletes.
TombstoneInPlace == /\ res.state # "absent" /\ res.rev < MaxRev
                    /\ res' = Meta("deleting", res.rev, res.applied)
                    /\ UNCHANGED <<lives, ops, seen>>

\* BeginDelete with the current revision: the tombstone is a new revision.
BeginDelete == /\ res.state # "absent" /\ res.rev < MaxRev
               /\ res' = Meta("deleting", res.rev + 1, res.applied)
               /\ UNCHANGED <<lives, ops, seen>>

\* Purge removes exactly the tombstone it was asked for, and never while an
\* operation on the target is running.
PurgeAllowed(r) == /\ res.rev = r
                   /\ res.state \in {"deleting", "error"}
                   /\ \A k \in Revs : ops[k].status # "running"

MarkAllowed(r) == res.state # "absent" /\ r <= res.rev

\* Mutant of Marked: the outcome of an older revision is the outcome of this one.
MarkedWhateverRevision(r, ok) ==
  Meta(IF ok THEN "ready" ELSE "error", res.rev, IF ok /\ r > res.applied THEN r ELSE res.applied)

\* MarkReconciled: an older revision can raise the applied revision but never
\* touches the state of a newer one.
Marked(r, ok) ==
  Meta(IF r = res.rev THEN (IF ok THEN "ready" ELSE "error") ELSE res.state,
       res.rev,
       IF ok /\ r > res.applied THEN r ELSE res.applied)

-----------------------------------------------------------------------------
(* Durable operations.                                                     *)

\* w stores new[k] as operation k, for every k in the domain of new: their
\* revisions move on, so whatever anyone else had read of them is out of date.
\* A write whose result no caller goes on using is Nobody's.
Write(w, new) ==
  /\ ops' = [k \in Revs |-> IF k \in DOMAIN new THEN new[k] ELSE ops[k]]
  /\ seen' = [v \in Workers |-> IF v = w THEN seen[v] \cup DOMAIN new
                                         ELSE seen[v] \ DOMAIN new]

\* w reads operation k, or its Create of k is answered by the replay token.
Read(w, k) == /\ seen' = [seen EXCEPT ![w] = @ \cup {k}]
              /\ UNCHANGED ops

Superseded(k) == res.state = "absent" \/ res.rev > k

\* The claimable test: exact for a claim, weaker for a renewal.
OperationTargetClaimable(k, exact) ==
  /\ res.state # "absent"
  /\ CASE ops[k].act = "reconcile" -> exact => /\ res.state # "deleting"
                                               /\ res.rev = k
       [] ops[k].act = "delete" -> /\ res.rev = k
                                   /\ res.state \in {"deleting", "error"}
       [] OTHER -> FALSE

LeaseIsLive(k) == ops[k].status = "running" /\ ops[k].live

\* Operation k's next record: its action never changes.
Stored(k, status, owner, live) ==
  [act |-> ops[k].act, status |-> status, owner |-> owner, live |-> live]

Queue(w, k, act) ==
  Write(w, [j \in {k} |-> [act |-> act, status |-> "queued", owner |-> Nobody, live |-> FALSE]])

\* Mutant of ClaimAllowed: the target is not looked at.
ClaimAnyTarget(w, k, act) == k \in seen[w] /\ ops[k].act = act /\ ~LeaseIsLive(k)

\* Mutant of ClaimAllowed: an operation that once ran is not run again.
ClaimQueuedOnly(w, k, act) == /\ k \in seen[w]
                              /\ ops[k].act = act /\ ops[k].status = "queued"
                              /\ OperationTargetClaimable(k, TRUE)

ClaimAllowed(w, k, act) == /\ k \in seen[w]
                           /\ ops[k].act = act
                           /\ ~LeaseIsLive(k)
                           /\ OperationTargetClaimable(k, TRUE)

Claim(w, k) == Write(w, [j \in {k} |-> Stored(j, "running", w, TRUE)])

\* w's claim on k is still the stored one: revision and lease owner match.
HoldsClaim(w, k) == /\ k \in seen[w]
                    /\ ops[k].status = "running"
                    /\ ops[k].owner = w

RenewAllowed(w, k) == HoldsClaim(w, k) /\ OperationTargetClaimable(k, FALSE)

Renew(w, k) == Write(w, [j \in {k} |-> Stored(j, "running", w, TRUE)])

Ended(k, status) == Stored(k, status, Nobody, FALSE)

\* The owner's terminal Update.
Finish(k, ok) == Write(Nobody, [j \in {k} |-> Ended(j, IF ok THEN "succeeded" ELSE "failed")])

\* Mutant of ActiveReconciles: only the tombstone's own revision is looked at.
ActiveAtTombstone == {k \in Revs : k = res.rev /\ ops[k].act = "reconcile" /\ LeaseIsLive(k)}

\* Mutant of ExpiredReconciles: the lease time is not looked at.
EveryReconcile == {k \in Revs : ops[k].act = "reconcile" /\ ops[k].status = "running"}

\* FenceReconciles: abandoned reconcile claims on the target fail; a live one
\* is reported.
ActiveReconciles == {k \in Revs : ops[k].act = "reconcile" /\ LeaseIsLive(k)}

ExpiredReconciles == {k \in Revs : /\ ops[k].act = "reconcile"
                                   /\ ops[k].status = "running"
                                   /\ ~ops[k].live}

FenceReconciles == Write(Nobody, [j \in ExpiredReconciles |-> Ended(j, "failed")])

\* RecoverExpiredOperations: abandoned claims of either action and queued
\* reconciles of superseded revisions become terminal failures.
Recoverable == {k \in Revs : \/ ops[k].status = "running" /\ ~ops[k].live
                             \/ /\ ops[k].act = "reconcile"
                                /\ ops[k].status = "queued"
                                /\ Superseded(k)}

RecoverExpiredOperations ==
  /\ Recoverable # {}
  /\ Write(Nobody, [j \in Recoverable |-> Ended(j, "failed")])
  /\ UNCHANGED <<res, lives>>

\* PruneOperations: terminal reconciles of superseded revisions go, together
\* with their replay tokens; which of them are old enough is left open.
Prunable == {k \in Revs : /\ ops[k].act = "reconcile"
                          /\ ops[k].status \in {"succeeded", "failed"}
                          /\ Superseded(k)}

PruneOperations ==
  /\ \E K \in (SUBSET Prunable) \ {{}} : Write(Nobody, [j \in K |-> NoOp])
  /\ UNCHANGED <<res, lives>>
=============================================================================
