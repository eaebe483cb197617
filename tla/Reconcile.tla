------------------------------ MODULE Reconcile ------------------------------
(***************************************************************************)
(* The reconcile controller (internal/reconcile/reconcile.go): every       *)
(* manager runs it against the same desired state and the same OVN         *)
(* Northbound database, and there is no transaction over the two.  A       *)
(* worker is one workflow in flight (a reconcileAttempt or a Delete); each *)
(* of its steps is one store call or one renderer call, and steps of       *)
(* different workers interleave freely.  The per-resource mutex of a       *)
(* manager only removes interleavings, so it is left out.                  *)
(*                                                                         *)
(* ovn is what the Northbound database holds for the resource: 0 for no    *)
(* rows, else the desired revision last rendered.  The renderer does not   *)
(* compare revisions: the last writer wins.                                *)
(***************************************************************************)
EXTENDS ControlStore

CONSTANTS MaxPasses, \* render passes before a moving target is given up (8 in the code)
          MaxFaults  \* bound on crashes, failed calls and stalls past the lease

ASSUME ReconcileAssumption == MaxPasses \in Nat \ {0} /\ MaxFaults \in Nat

VARIABLES ovn,       \* the realized revision
          pc,        \* where each worker is
          mode,      \* how its attempt was started: plain, audit or forced
          target,    \* the revision its operation is for
          desired,   \* the revision it renders next
          snap,      \* it is an audit that found the resource ready
          recovered, \* its fence failed an abandoned reconcile
          good,      \* no error in its work so far
          pass,      \* its render pass
          faults,    \* faults so far
          rendered,  \* history: revisions some Render call succeeded on
          late       \* history: revisions a Render wrote after its worker had lost its claim

local == <<mode, target, desired, snap, recovered, good, pass>>
history == <<rendered, late>>
vars == <<storeVars, ovn, pc, local, faults, history>>

Writing == {"render", "reload", "mark", "confirm", "cleanup", "limit", "erase", "complete"}
PCs == {"idle", "retry", "create", "remark", "claim", "wait", "accept",
        "fence", "dcreate", "dclaim", "purge"} \cup Writing

WorkersTypeOK == /\ pc \in [Workers -> PCs]
                 /\ mode \in [Workers -> {"plain", "audit", "forced"}]
                 /\ target \in [Workers -> 0..MaxRev]
                 /\ desired \in [Workers -> 0..MaxRev]
                 /\ snap \in [Workers -> BOOLEAN]
                 /\ recovered \in [Workers -> BOOLEAN]
                 /\ good \in [Workers -> BOOLEAN]
                 /\ pass \in [Workers -> 1..MaxPasses]

\* Store, workers, Northbound rows and history have the shapes the code gives them.
TypeOK == /\ StoreTypeOK /\ WorkersTypeOK
          /\ ovn \in 0..MaxRev
          /\ faults \in Nat
          /\ rendered \in SUBSET (0..MaxRev)
          /\ late \in SUBSET (0..MaxRev)

Init == /\ StoreInit
        /\ ovn = 0
        /\ pc = [w \in Workers |-> "idle"]
        /\ mode = [w \in Workers |-> "plain"]
        /\ target = [w \in Workers |-> 0]
        /\ desired = [w \in Workers |-> 0]
        /\ snap = [w \in Workers |-> FALSE]
        /\ recovered = [w \in Workers |-> FALSE]
        /\ good = [w \in Workers |-> TRUE]
        /\ pass = [w \in Workers |-> 1]
        /\ faults = 0
        /\ rendered = {}
        /\ late = {}

-----------------------------------------------------------------------------
\* w goes on at l.
Goto(w, l) == pc' = [pc EXCEPT ![w] = l]

\* w's workflow returns: nothing it knew survives.
Return(w) == /\ Goto(w, "idle")
             /\ mode' = [mode EXCEPT ![w] = "plain"]
             /\ target' = [target EXCEPT ![w] = 0]
             /\ desired' = [desired EXCEPT ![w] = 0]
             /\ snap' = [snap EXCEPT ![w] = FALSE]
             /\ recovered' = [recovered EXCEPT ![w] = FALSE]
             /\ good' = [good EXCEPT ![w] = TRUE]
             /\ pass' = [pass EXCEPT ![w] = 1]

Forget(w) == seen' = [seen EXCEPT ![w] = {}]

ReturnOnly(w) == /\ Return(w) /\ Forget(w)
                 /\ UNCHANGED <<res, lives, ops, ovn, faults, history>>

Fault == faults < MaxFaults /\ faults' = faults + 1

-----------------------------------------------------------------------------
(* The environment: the API's writes of desired state, time, and the store *)
(* housekeeping at the start and the end of every periodic pass.           *)

UserCreate == /\ Create
              /\ rendered' = {}
              /\ UNCHANGED <<ovn, pc, local, faults, late>>

UserUpdate == Update /\ UNCHANGED <<ovn, pc, local, faults, history>>

\* The API's DELETE: persist the tombstone, then run the delete workflow on it.
\* (A replayed DELETE runs the workflow on the tombstone it stored before: that
\* is a worker that rests at fence while the resource moves on.)
UserDelete(w) == /\ pc[w] = "idle"
                 /\ BeginDelete
                 /\ Goto(w, "fence")
                 /\ target' = [target EXCEPT ![w] = res.rev + 1]
                 /\ UNCHANGED <<ovn, mode, desired, snap, recovered, good, pass, faults, history>>

Recover == RecoverExpiredOperations /\ UNCHANGED <<ovn, pc, local, faults, history>>

Prune == PruneOperations /\ UNCHANGED <<ovn, pc, local, faults, history>>

\* w is still doing the work it claimed operation k for.
AtWork(w, k) == pc[w] \in Writing /\ target[w] = k /\ HoldsClaim(w, k)

RunOut(k) == /\ LeaseIsLive(k)
             /\ ops' = [ops EXCEPT ![k] = Stored(k, "running", ops[k].owner, FALSE)]
             /\ UNCHANGED <<res, lives, seen, ovn, pc, local, history>>

\* The lease of an abandoned claim runs out.
Expire(k) == RunOut(k) /\ (\A w \in Workers : ~AtWork(w, k)) /\ UNCHANGED faults

\* Its owner is at work but stalled for longer than the lease.
Stall(k) == RunOut(k) /\ (\E w \in Workers : AtWork(w, k)) /\ Fault

-----------------------------------------------------------------------------
(* reconcileAttempt up to the claim.                                       *)

\* Get: a tombstone is handed to the delete workflow (a forced attempt
\* refuses it); a plain attempt stops at a ready resource.
Attempt(w, m) ==
  LET ready == res.state = "ready" /\ res.applied >= res.rev IN
  IF \/ res.state = "absent"
     \/ res.state = "deleting" /\ m = "forced"
     \/ ready /\ m = "plain"
  THEN ReturnOnly(w)
  ELSE /\ Goto(w, IF res.state = "deleting" THEN "fence" ELSE "create")
       /\ mode' = [mode EXCEPT ![w] = m]
       /\ target' = [target EXCEPT ![w] = res.rev]
       /\ snap' = [snap EXCEPT ![w] = ready /\ m = "audit"]
       /\ UNCHANGED <<storeVars, ovn, desired, recovered, good, pass, faults, history>>

Get(w, m) == pc[w] = "idle" /\ Attempt(w, m)

Retry(w) == pc[w] = "retry" /\ Attempt(w, "forced")

\* Create the reconcile operation of the target revision, or take the one its
\* idempotency key replays.  A delete operation at the same target revision
\* violates the unique index.
CreateReconcile(w) ==
  /\ pc[w] = "create"
  /\ LET k == target[w] IN
     \/ /\ ops[k].status = "none"
        /\ Queue(w, k, "reconcile")
        /\ Goto(w, "claim")
        /\ UNCHANGED <<res, lives, ovn, local, faults, history>>
     \/ /\ ops[k].act = "reconcile"
        /\ Read(w, k)
        /\ Goto(w, IF ops[k].status = "succeeded" /\ mode[w] = "plain" THEN "remark" ELSE "claim")
        /\ UNCHANGED <<res, lives, ovn, local, faults, history>>
     \/ /\ ops[k].act = "delete"
        /\ ReturnOnly(w)

\* An audit stops when the revision it found ready was audited recently.
SkipFresh(w) == /\ pc[w] = "create"
                /\ snap[w]
                /\ ops[target[w]].act = "reconcile" /\ ops[target[w]].status = "succeeded"
                /\ ReturnOnly(w)

\* The operation already succeeded: a plain attempt records that and renders
\* nothing.
Remark(w) == /\ pc[w] = "remark"
             /\ res' = IF MarkAllowed(target[w]) THEN Marked(target[w], TRUE) ELSE res
             /\ Return(w) /\ Forget(w)
             /\ UNCHANGED <<lives, ops, ovn, faults, history>>

\* ClaimReconcile.  Whoever is refused leaves the work to the winner; a forced
\* attempt that met a live lease waits for it.  From the claim on, how the
\* attempt was started no longer matters.
ClaimReconcile(w) ==
  /\ pc[w] = "claim"
  /\ LET k == target[w] IN
     \/ /\ ClaimAllowed(w, k, "reconcile")
        /\ Claim(w, k)
        /\ Goto(w, "render")
        /\ desired' = [desired EXCEPT ![w] = k]
        /\ mode' = [mode EXCEPT ![w] = "plain"]
        /\ snap' = [snap EXCEPT ![w] = FALSE]
        /\ UNCHANGED <<res, lives, ovn, target, recovered, good, pass, faults, history>>
     \/ /\ mode[w] = "forced" /\ k \in seen[w] /\ LeaseIsLive(k)
        /\ Goto(w, "wait")
        /\ UNCHANGED <<storeVars, ovn, local, faults, history>>
     \/ /\ ~ClaimAllowed(w, k, "reconcile")
        /\ ~(mode[w] = "forced" /\ k \in seen[w] /\ LeaseIsLive(k))
        /\ ReturnOnly(w)

\* waitForForcedClaim: follow the operation that won.
Wait(w) ==
  /\ pc[w] = "wait"
  /\ LET op == ops[target[w]] IN
     \/ /\ op.act # "reconcile"
        /\ ReturnOnly(w)
     \/ /\ op.act = "reconcile" /\ ~LeaseIsLive(target[w])
        /\ Goto(w, IF op.status = "succeeded" THEN "accept" ELSE "retry")
        /\ UNCHANGED <<storeVars, ovn, local, faults, history>>

\* The winner counts only if the same revision is durably ready now.
Accept(w) ==
  /\ pc[w] = "accept"
  /\ \/ /\ \/ res.state = "absent"
           \/ res.state = "ready" /\ res.rev = target[w] /\ res.applied = target[w]
        /\ ReturnOnly(w)
     \/ /\ res.state # "absent"
        /\ ~(res.state = "ready" /\ res.rev = target[w] /\ res.applied = target[w])
        /\ Goto(w, "retry")
        /\ UNCHANGED <<storeVars, ovn, local, faults, history>>

-----------------------------------------------------------------------------
(* renderUntilStable, under the claim and its heartbeat.                   *)

\* The work of w ended well or badly: all that is left is the outcome.
Conclude(w, ok) == /\ Goto(w, "complete")
                   /\ good' = [good EXCEPT ![w] = ok]
                   /\ desired' = [desired EXCEPT ![w] = 0]
                   /\ pass' = [pass EXCEPT ![w] = 1]

\* A renderer call leaves rows r behind.  A failed call may have taken effect
\* before its answer was lost.
RendererCall(r, ok) == \/ ok /\ ovn' = r /\ UNCHANGED faults
                       \/ ~ok /\ ovn' \in {ovn, r} /\ Fault

Render(w) == \E ok \in BOOLEAN :
  /\ pc[w] = "render"
  /\ RendererCall(desired[w], ok)
  /\ rendered' = IF ok THEN rendered \cup {desired[w]} ELSE rendered
  /\ late' = IF HoldsClaim(w, target[w]) THEN late ELSE late \cup {desired[w]}
  /\ Goto(w, "reload")
  /\ good' = [good EXCEPT ![w] = ok]
  /\ UNCHANGED <<storeVars, mode, target, desired, snap, recovered, pass>>

\* A newer revision won: one more pass, or the limit.
NextPass(w) == /\ desired' = [desired EXCEPT ![w] = res.rev]
               /\ IF pass[w] < MaxPasses
                  THEN Goto(w, "render") /\ pass' = [pass EXCEPT ![w] = @ + 1]
                  ELSE Goto(w, "limit") /\ UNCHANGED pass

\* Mutant of Gone: a tombstone is reconciled like any other revision.
GoneWhenAbsent == res.state = "absent"

\* Get after a render, and again after the mark.
Gone == res.state \in {"absent", "deleting"}

\* The resource is gone or has moved on: clean up or follow it.  The outcome of
\* the render that lost the race is dropped.
Overtaken(w) ==
  /\ \/ Gone /\ Goto(w, "cleanup") /\ UNCHANGED <<desired, pass>>
     \/ ~Gone /\ res.rev # desired[w] /\ NextPass(w)
  /\ good' = [good EXCEPT ![w] = TRUE]

Current(w) == ~Gone /\ res.rev = desired[w]

Reload(w) == /\ pc[w] = "reload"
             /\ \/ Overtaken(w)
                \/ Current(w) /\ Goto(w, "mark") /\ UNCHANGED <<desired, pass, good>>
             /\ UNCHANGED <<storeVars, ovn, mode, target, snap, recovered, faults, history>>

Confirm(w) == /\ pc[w] = "confirm"
              /\ Overtaken(w) \/ (Current(w) /\ Conclude(w, TRUE))
              /\ UNCHANGED <<storeVars, ovn, mode, target, snap, recovered, faults, history>>

\* MarkReconciled with the outcome of the render.
Mark(w) ==
  /\ pc[w] = "mark"
  /\ \/ /\ MarkAllowed(desired[w])
        /\ res' = Marked(desired[w], good[w])
        /\ IF good[w] THEN Goto(w, "confirm") /\ UNCHANGED <<good, desired, pass>>
                      ELSE Conclude(w, FALSE)
     \/ /\ ~MarkAllowed(desired[w])
        /\ Conclude(w, FALSE)
        /\ UNCHANGED res
  /\ UNCHANGED <<lives, ops, seen, ovn, mode, target, snap, recovered, faults, history>>

\* The revision the worker ended on, which it did not render, is marked failed.
Limit(w) == /\ pc[w] = "limit"
            /\ res' = IF MarkAllowed(desired[w]) THEN Marked(desired[w], FALSE) ELSE res
            /\ Conclude(w, FALSE)
            /\ UNCHANGED <<lives, ops, seen, ovn, mode, target, snap, recovered, faults, history>>

\* renderer.Delete: after a render that lost the race against a delete, and as
\* the work of the delete workflow itself.
Erase(w) == \E ok \in BOOLEAN :
  /\ pc[w] \in {"cleanup", "erase"}
  /\ RendererCall(0, ok)
  /\ Conclude(w, ok)
  /\ UNCHANGED <<storeVars, mode, target, snap, recovered, history>>

\* completeOperation: refused unless the claim is still this worker's.  The
\* caller of a successful delete goes on to purge.
Complete(w) ==
  /\ pc[w] = "complete"
  /\ LET k == target[w] IN
     \/ /\ HoldsClaim(w, k)
        /\ Finish(k, good[w])
        /\ IF ops[k].act = "delete" /\ good[w]
           THEN Goto(w, "purge") /\ UNCHANGED local
           ELSE Return(w)
        /\ UNCHANGED <<res, lives, ovn, faults, history>>
     \/ /\ ~HoldsClaim(w, k)
        /\ ReturnOnly(w)

-----------------------------------------------------------------------------
(* Controller.Delete and the purge that follows it.                        *)

\* FenceReconciles: a live reconcile keeps the tombstone waiting.
Fence(w) ==
  /\ pc[w] = "fence"
  /\ FenceReconciles
  /\ IF ActiveReconciles # {}
     THEN Return(w)
     ELSE /\ Goto(w, "dcreate")
          /\ recovered' = [recovered EXCEPT ![w] = ExpiredReconciles # {}]
          /\ UNCHANGED <<mode, target, desired, snap, good, pass>>
  /\ UNCHANGED <<res, lives, ovn, faults, history>>

\* Create the delete operation of the tombstone, or take the one its key
\* replays; a replayed success is not repeated unless the fence found an
\* abandoned reconcile.
CreateDelete(w) ==
  /\ pc[w] = "dcreate"
  /\ LET k == target[w] IN
     \/ /\ ops[k].status = "none"
        /\ Queue(w, k, "delete")
        /\ Goto(w, "dclaim")
        /\ UNCHANGED <<res, lives, ovn, local, faults, history>>
     \/ /\ ops[k].act = "delete"
        /\ Read(w, k)
        /\ Goto(w, IF ops[k].status = "succeeded" /\ ~recovered[w] THEN "purge" ELSE "dclaim")
        /\ UNCHANGED <<res, lives, ovn, local, faults, history>>
     \/ /\ ops[k].act = "reconcile"
        /\ ReturnOnly(w)

ClaimDelete(w) ==
  /\ pc[w] = "dclaim"
  /\ LET k == target[w] IN
     \/ /\ ClaimAllowed(w, k, "delete")
        /\ Claim(w, k)
        /\ Goto(w, "erase")
        /\ UNCHANGED <<res, lives, ovn, local, faults, history>>
     \/ /\ ~ClaimAllowed(w, k, "delete")
        /\ ReturnOnly(w)

Purge(w) == /\ pc[w] = "purge"
            /\ res' = IF PurgeAllowed(target[w]) THEN Absent ELSE res
            /\ Return(w) /\ Forget(w)
            /\ UNCHANGED <<lives, ops, ovn, faults, history>>

-----------------------------------------------------------------------------
(* The heartbeat, and what can go wrong at any point.                      *)

HeartbeatRenew(w) == /\ pc[w] \in Writing
                     /\ RenewAllowed(w, target[w])
                     /\ Renew(w, target[w])
                     /\ UNCHANGED <<res, lives, ovn, pc, local, faults, history>>

\* A refused renewal cancels the work: the worker returns without completing
\* the operation and without the cleanup that was still ahead.
HeartbeatLost(w) == /\ pc[w] \in Writing
                    /\ ~RenewAllowed(w, target[w])
                    /\ ReturnOnly(w)

\* A store call in the render loop fails: the operation completes as failed.
StoreError(w) == /\ pc[w] \in {"reload", "mark", "confirm", "limit"}
                 /\ Conclude(w, FALSE)
                 /\ Fault
                 /\ UNCHANGED <<storeVars, ovn, mode, target, snap, recovered, history>>

\* The manager dies, or the call w is in returns an error that ends the
\* attempt: whatever it stored so far stays.
Crash(w) == /\ pc[w] # "idle"
            /\ Fault
            /\ Return(w) /\ Forget(w)
            /\ UNCHANGED <<res, lives, ops, ovn, history>>

-----------------------------------------------------------------------------
AttemptStep(w) == \/ CreateReconcile(w) \/ SkipFresh(w) \/ Remark(w) \/ ClaimReconcile(w)
                  \/ Wait(w) \/ Accept(w) \/ Retry(w)

WriterStep(w) == \/ Render(w) \/ Reload(w) \/ Mark(w) \/ Confirm(w) \/ Limit(w)
                 \/ Erase(w) \/ Complete(w)

DeleteStep(w) == Fence(w) \/ CreateDelete(w) \/ ClaimDelete(w) \/ Purge(w)

WorkerStep(w) == AttemptStep(w) \/ WriterStep(w) \/ DeleteStep(w)

Modes == {"plain", "audit", "forced"}

Next == \/ UserCreate \/ UserUpdate
        \/ Recover \/ Prune
        \/ \E k \in Revs : Expire(k) \/ Stall(k)
        \/ \E w \in Workers : \/ UserDelete(w)
                              \/ \E m \in Modes : Get(w, m)
                              \/ WorkerStep(w)
                              \/ HeartbeatRenew(w) \/ HeartbeatLost(w)
                              \/ StoreError(w) \/ Crash(w)

Spec == Init /\ [][Next]_vars

-----------------------------------------------------------------------------
(* Fairness.  Every manager runs a periodic pass, which starts with        *)
(* RecoverExpiredOperations and ends up in reconcileAttempt for every      *)
(* resource; a workflow that is neither crashed nor cancelled goes on; an  *)
(* abandoned lease runs out with time; and the freshness window an audit   *)
(* skips in closes, so some audit is not skipped.                          *)

Fairness == /\ WF_vars(Recover)
            /\ \A k \in Revs : WF_vars(Expire(k))
            /\ \A w \in Workers : /\ WF_vars(WorkerStep(w))
                                   /\ WF_vars(Get(w, "audit"))
                                   /\ SF_vars(CreateReconcile(w))

FairSpec == Spec /\ Fairness

-----------------------------------------------------------------------------
(* Safety.                                                                 *)

\* FenceReconciles, ClaimReconcile and ClaimDelete are three transactions, yet
\* once the delete of the current tombstone was claimed no reconcile of the
\* resource holds or can get a claim.
TombstoneFenced ==
  (/\ res.state = "deleting"
   /\ ops[res.rev].act = "delete"
   /\ ops[res.rev].status \in {"running", "succeeded"})
  => \A k \in Revs : ~(ops[k].act = "reconcile" /\ ops[k].status = "running")

\* Purged desired state leaves no rows in OVN, whatever crashed in between,
\* unless a Render wrote after its worker had lost its lease.
PurgedLeavesNoRows == res.state = "absent" /\ late = {} => ovn = 0

\* A resource reads as ready only if some Render of exactly its desired revision
\* succeeded, whichever worker and operation recorded it.
ReadyWasRendered == res.state = "ready" => res.applied = res.rev /\ res.rev \in rendered

-----------------------------------------------------------------------------
(* The inductive invariant behind the safety properties, for a resource ID *)
(* that is not created twice.                                              *)

Present == res.state # "absent"

Reconciling == {"render", "reload", "mark", "confirm", "cleanup", "limit"}

NoReconcileRuns == \A k \in Revs : ~(ops[k].act = "reconcile" /\ ops[k].status = "running")

\* Before the resource exists nothing else does, and revisions to come have no
\* operations yet.
Unborn == lives = 0 => /\ res = Absent /\ ovn = 0
                       /\ pc = [w \in Workers |-> "idle"]
                       /\ ops = [k \in Revs |-> NoOp]

FutureIsEmpty == Present => /\ res.rev \in Revs
                            /\ \A k \in Revs : k > res.rev => ops[k] = NoOp

\* An operation without a status has no action.
OpShape == \A k \in Revs : ops[k].status = "none" <=> ops[k].act = "none"

\* What a worker knows of the resource stays true of that revision: it works on
\* past or present revisions; only a delete workflow is on a tombstone.
Working(w) ==
  /\ pc[w] # "idle" => target[w] \in Revs /\ (Present => target[w] <= res.rev)
  /\ pc[w] \in Reconciling \ {"cleanup"}
     => /\ desired[w] \in Revs /\ target[w] <= desired[w]
        /\ Present => desired[w] <= res.rev
        /\ Present /\ desired[w] = res.rev => res.state # "deleting"
  /\ pc[w] = "cleanup" /\ Present => target[w] < res.rev
  /\ pc[w] \in {"retry", "create", "remark", "claim", "wait", "accept"}
     => (Present /\ target[w] = res.rev => res.state # "deleting")
  /\ pc[w] \in {"fence", "dcreate", "dclaim", "erase", "purge"}
     => (Present /\ target[w] = res.rev => res.state = "deleting")

\* While the revision a writer last stored is the current one, it holds the claim
\* it works under.
Claimed(w) ==
  pc[w] \in Writing /\ target[w] \in seen[w]
  => /\ ops[target[w]].status = "running" /\ ops[target[w]].owner = w
     /\ pc[w] \in Reconciling => ops[target[w]].act = "reconcile"
     /\ pc[w] = "erase" => ops[target[w]].act = "delete"

\* Only a tombstone has a delete operation, and from its fence on no reconcile
\* runs.
Fenced ==
  /\ Present /\ ops[res.rev].act = "delete" => res.state = "deleting" /\ NoReconcileRuns
  /\ res.state = "deleting" =>
       \A w \in Workers : pc[w] \in {"dcreate", "dclaim", "purge"} /\ target[w] = res.rev
                          => NoReconcileRuns

\* ... and from its successful erase on, no rows are left.
Erased ==
  late = {} =>
    /\ res.state = "absent" => ovn = 0 /\ NoReconcileRuns
    /\ res.state = "deleting" =>
         /\ ops[res.rev].act = "delete" /\ ops[res.rev].status = "succeeded" => ovn = 0
         /\ \A w \in Workers :
              target[w] = res.rev =>
                /\ pc[w] = "purge" => ovn = 0
                /\ /\ pc[w] = "complete" /\ good[w] /\ target[w] \in seen[w]
                   /\ ops[target[w]].act = "delete"
                   => ovn = 0

\* Whatever is about to be recorded as rendered was rendered.
Recorded ==
  /\ res.state = "ready" => res.applied = res.rev /\ res.rev \in rendered
  /\ res.applied <= res.rev
  /\ Present /\ ops[res.rev].act = "reconcile" /\ ops[res.rev].status = "succeeded"
     => res.rev \in rendered
  /\ \A w \in Workers :
       /\ pc[w] \in {"reload", "mark"} /\ good[w] => desired[w] \in rendered
       /\ pc[w] = "confirm" => desired[w] \in rendered
       /\ Present /\ target[w] = res.rev =>
            /\ pc[w] = "remark" => target[w] \in rendered
            /\ /\ pc[w] = "complete" /\ good[w] /\ target[w] \in seen[w]
               /\ ops[target[w]].act = "reconcile"
               => target[w] \in rendered

\* All of it: no step of any worker, of the user or of a fault leaves it.
IInv == /\ Unborn /\ FutureIsEmpty /\ OpShape
        /\ \A w \in Workers : Working(w) /\ Claimed(w)
        /\ Fenced /\ Erased /\ Recorded

-----------------------------------------------------------------------------
(* What comments in the code say, which these runs compare with the code.  *)

Quiet == \A w \in Workers : pc[w] = "idle"

\* "Idempotent cleanup prevents a persistent orphan": when every workflow has
\* returned, a purged resource has no rows in OVN.
NoPersistentOrphan == Quiet /\ res.state = "absent" => ovn = 0

\* "Delete removes the rendered form of a tombstone. The caller purges desired
\* state only after this method succeeds.": without any fault, no rows are left.
DeleteRemovesRows == Quiet /\ res.state = "absent" => ovn = 0

-----------------------------------------------------------------------------
(* Steps.                                                                  *)

\* A live lease ends only when its own worker completes the operation: no claim,
\* fence, recovery or late completion of another takes it away.
LiveLeaseIsKept ==
  [][\A k \in Revs :
       LeaseIsLive(k) /\ ~(ops'[k].status = "running" /\ ops'[k].owner = ops[k].owner)
       => \E w \in Workers : /\ w = ops[k].owner
                             /\ pc[w] = "complete" /\ target[w] = k
                             /\ pc'[w] # "complete"]_vars

\* A tombstone stays one until it is purged or the user writes a new revision:
\* no late MarkReconciled makes it ready or failed.
TombstoneStays == [][res.state = "deleting" /\ res'.rev = res.rev => res'.state = "deleting"]_vars

-----------------------------------------------------------------------------
(* Liveness.                                                               *)

\* Every tombstone is purged in the end, or its user revived it.
TombstonePurged == res.state = "deleting" ~> res.state # "deleting"

\* Once the user and the faults stop, the managers bring OVN to the desired
\* revision and keep it there, whatever was left half done.
EventuallyRealized ==
  <>[](res.state = "absent" \/ (res.state = "ready" /\ ovn = res.rev))
=============================================================================
