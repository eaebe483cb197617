--------------------------- MODULE ReconcileProofs ---------------------------
(***************************************************************************)
(* The safety of Reconcile, from the lemmas of ReconcileSteps on what one  *)
(* step can do: each remaining conjunct of IInv is kept; the theorems.     *)
(***************************************************************************)
EXTENDS ReconcileSteps

-----------------------------------------------------------------------------
(* The conjuncts of IInv about claims, one by one.                         *)

\* While v only watches, it knows of no operation that moved.
LEMMA ClaimedSame ==
  ASSUME TypeOK, TypeOK', IInv, NEW v \in Workers, Working(v), Claimed(v), Same(v), Knows(v)
  PROVE  Claimed(v)'
<1> SUFFICES ASSUME pc[v] \in Writing, target[v] \in seen'[v] PROVE Claimed(v)'
  BY Zenon DEF Same, Claimed
<1>1. target[v] \in Revs
  BY Zenon DEF Working, Writing
<1> QED BY Zenon, <1>1 DEF Same, Knows, Claimed

\* The worker that moves holds the claim it works under, or knows it does not.
LEMMA ClaimedActor ==
  ASSUME TypeOK, IInv, NEW w \in Workers, Move(w)
  PROVE  Claimed(w)'
<1> USE DEF TypeOK, local, storeVars
<1>1. ASSUME pc'[w] \notin Writing PROVE Claimed(w)'
  BY Zenon, <1>1 DEF Claimed
<1>2. CASE Return(w)
  BY Zenon, <1>1, <1>2, ReturnFrame DEF Writing
<1>3. Claimed(w) /\ Working(w)
  BY Zenon DEF IInv
<1>4. ASSUME NEW l, Goto(w, l), l \notin Writing PROVE Claimed(w)'
  BY Zenon, <1>1, <1>4 DEF Goto, WorkersTypeOK
<1>5. ASSUME UNCHANGED <<ops, seen, target>>, pc[w] \in Writing, pc'[w] \in Writing,
             pc'[w] = "complete" \/ (pc[w] \in Reconciling /\ pc'[w] \in Reconciling)
      PROVE  Claimed(w)'
  BY Zenon, <1>3, <1>5 DEF Claimed, Reconciling
<1>6. CASE UserDelete(w)
  BY Zenon, <1>4, <1>6 DEF UserDelete, Writing
<1>7. ASSUME NEW m, Attempt(w, m) PROVE Claimed(w)'
  BY Zenon, <1>2, <1>4, <1>7 DEF Attempt, ReturnOnly, Writing
<1>8. CASE CreateReconcile(w) \/ Wait(w) \/ Accept(w) \/ CreateDelete(w) \/ Fence(w)
  BY Zenon, <1>2, <1>4, <1>8 DEF CreateReconcile, Wait, Accept, CreateDelete, Fence, ReturnOnly, Writing
<1>9. ASSUME Claim(w, target[w]) \/ Renew(w, target[w]), pc[w] # "idle", UNCHANGED target,
             \/ pc'[w] \in Reconciling /\ ops[target[w]].act = "reconcile"
             \/ pc'[w] = "erase" /\ ops[target[w]].act = "delete"
             \/ pc'[w] = "complete"
      PROVE  Claimed(w)'
  <2>1. target[w] \in Revs
    BY Zenon, <1>3, <1>9 DEF Working
  <2>2. ops'[target[w]] = Stored(target[w], "running", w, TRUE)
    <3>1. Puts(w, target[w], Stored(target[w], "running", w, TRUE))
      BY Zenon, <1>9, ClaimPuts
    <3> QED BY Zenon, <2>1, <3>1 DEF Puts
  <2> QED BY SMTT(60), <1>9, <2>2 DEF Claimed, Stored, Reconciling
<1>10. CASE ClaimReconcile(w)
  <2>1. CASE Claim(w, target[w]) /\ Goto(w, "render") /\ ClaimAllowed(w, target[w], "reconcile") /\ UNCHANGED target
    BY Zenon, <1>9, <1>10, <2>1 DEF ClaimReconcile, ClaimAllowed, Goto, WorkersTypeOK, Reconciling
  <2> QED BY Zenon, <1>2, <1>4, <1>10, <2>1 DEF ClaimReconcile, ReturnOnly, Writing
<1>11. CASE ClaimDelete(w)
  <2>1. CASE Claim(w, target[w]) /\ Goto(w, "erase") /\ ClaimAllowed(w, target[w], "delete") /\ UNCHANGED target
    BY Zenon, <1>9, <1>11, <2>1 DEF ClaimDelete, ClaimAllowed, Goto, WorkersTypeOK
  <2> QED BY Zenon, <1>2, <1>11, <2>1 DEF ClaimDelete, ReturnOnly
<1>12. CASE SkipFresh(w) \/ HeartbeatLost(w) \/ Remark(w) \/ Purge(w) \/ Crash(w)
  BY Zenon, <1>2, <1>12 DEF SkipFresh, HeartbeatLost, Remark, Purge, Crash, ReturnOnly
<1>13. ASSUME NEW ok, Conclude(w, ok), pc[w] \in Writing, UNCHANGED <<ops, seen, target>> PROVE Claimed(w)'
  BY Zenon, <1>5, <1>13, ConcludeFrame DEF Writing
<1>14. ASSUME Overtaken(w), pc[w] \in {"reload", "confirm"}, UNCHANGED <<ops, seen, target>> PROVE Claimed(w)'
  <2>1. pc'[w] \in {"cleanup", "render", "limit"}
    BY Zenon, <1>14 DEF Overtaken, NextPass, Goto, WorkersTypeOK
  <2> QED BY Zenon, <1>5, <1>14, <2>1 DEF Writing, Reconciling
<1>15. CASE Render(w)
  BY Zenon, <1>5, <1>15 DEF Render, Goto, WorkersTypeOK, Writing, Reconciling
<1>16. CASE Reload(w)
  <2>1. CASE Overtaken(w)
    BY Zenon, <1>14, <1>16, <2>1 DEF Reload
  <2>2. CASE ~Overtaken(w)
    BY Zenon, <1>5, <1>16, <2>2 DEF Reload, Goto, WorkersTypeOK, Writing, Reconciling
  <2> QED BY Zenon, <2>1, <2>2
<1>17. CASE Confirm(w)
  BY Zenon, <1>13, <1>14, <1>17 DEF Confirm, Writing
<1>18. CASE Mark(w)
  <2>1. CASE Conclude(w, FALSE)
    BY Zenon, <1>13, <1>18, <2>1 DEF Mark, Writing
  <2>2. CASE ~Conclude(w, FALSE)
    BY Zenon, <1>5, <1>18, <2>2 DEF Mark, Goto, WorkersTypeOK, Writing, Reconciling
  <2> QED BY Zenon, <2>1, <2>2
<1>19. CASE Limit(w) \/ Erase(w) \/ StoreError(w)
  BY Zenon, <1>13, <1>19 DEF Limit, Erase, StoreError, Writing
<1>20. CASE Complete(w)
  BY Zenon, <1>2, <1>4, <1>20 DEF Complete, ReturnOnly, Writing
<1>21. CASE HeartbeatRenew(w)
  <2>1. /\ pc[w] \in Writing /\ target[w] \in seen[w] /\ Renew(w, target[w]) /\ UNCHANGED <<pc, target>>
    BY Zenon, <1>21 DEF HeartbeatRenew, RenewAllowed, HoldsClaim
  <2> QED BY Zenon, <1>3, <1>9, <2>1 DEF Claimed, Writing, Reconciling
<1> QED
  BY Zenon, <1>6, <1>7, <1>8, <1>10, <1>11, <1>12, <1>15, <1>16, <1>17, <1>18, <1>19, <1>20, <1>21
  DEF Move, WorkerStep, AttemptStep, WriterStep, DeleteStep, Get, Retry

\* Claimed is kept by every step.
LEMMA ClaimedStep ==
  ASSUME TypeOK, IInv, [Next]_vars, NEW v \in Workers
  PROVE  Claimed(v)'
<1>1. CASE Same(v) /\ Knows(v)
  BY Zenon, <1>1, TypeStep, ClaimedSame DEF IInv
<1>2. CASE ~(Same(v) /\ Knows(v))
  <2>1. Move(v)
    BY Zenon, <1>2, StepOf, MoveFrame, EnvironmentFrame
  <2> QED BY Zenon, <2>1, ClaimedActor
<1> QED BY Zenon, <1>1, <1>2

\* No reconcile starts on a tombstone or on a purged resource.
LEMMA NoReconcileStarts ==
  ASSUME TypeOK, IInv, [Next]_vars, NoReconcileRuns, res.state \in {"absent", "deleting"}
  PROVE  NoReconcileRuns'
  BY Zenon, OpsStep DEF IInv, OpRule, Running, NoReconcileRuns

\* While no reconcile runs, a Render is one without its claim.
LEMMA NoRowsAppear ==
  ASSUME TypeOK, IInv, [Next]_vars, NoReconcileRuns, ovn = 0, late' = {}
  PROVE  ovn' = 0
<1>1. ASSUME NEW w \in Workers, Render(w), HoldsClaim(w, target[w]) PROVE FALSE
  <2>1. pc[w] = "render" /\ target[w] \in seen[w] /\ target[w] \in Revs
    BY Zenon, <1>1 DEF Render, HoldsClaim, IInv, Working
  <2> QED BY Zenon, <2>1 DEF IInv, Claimed, Writing, Reconciling, NoReconcileRuns
<1> QED BY Zenon, <1>1, RowsStep

-----------------------------------------------------------------------------
(* Where a worker comes from when it gets to the end of its work.          *)

\* Where w can have come from.
Origins(w) ==
  /\ pc'[w] \in {"dcreate", "dclaim", "purge"} =>
       /\ target'[w] = target[w] /\ UNCHANGED res
       /\ \/ pc[w] \in {"dcreate", "dclaim"}
          \/ Fence(w) /\ ActiveReconciles = {}
          \/ pc[w] = "complete" /\ ops[target[w]].act = "delete"
  /\ pc'[w] = "purge" =>
       /\ UNCHANGED ovn
       /\ ops[target[w]].act = "delete"
       /\ \/ ops[target[w]].status = "succeeded"
          \/ pc[w] = "complete" /\ good[w] /\ target[w] \in seen[w]
  /\ pc'[w] = "complete" /\ good'[w] =>
       /\ target'[w] = target[w] /\ UNCHANGED <<res, ops, seen, rendered>>
       /\ \/ pc[w] = "confirm" /\ Current(w)
          \/ pc[w] \in {"cleanup", "erase"} /\ ovn' = 0
  /\ pc'[w] \in {"reload", "mark"} /\ good'[w] =>
       /\ desired'[w] = desired[w]
       /\ desired[w] \in rendered' \/ (pc[w] = "reload" /\ good[w] /\ UNCHANGED rendered)
  /\ pc'[w] = "confirm" =>
       pc[w] = "mark" /\ good[w] /\ desired'[w] = desired[w] /\ UNCHANGED rendered
  /\ pc'[w] = "remark" =>
       /\ target'[w] = target[w] /\ UNCHANGED <<res, rendered>>
       /\ ops[target[w]].act = "reconcile" /\ ops[target[w]].status = "succeeded"

\* A heartbeat changes nothing its own worker relies on.
LEMMA Renewal ==
  ASSUME TypeOK, NEW w \in Workers, HeartbeatRenew(w)
  PROVE  Same(w) /\ Knows(w)
<1>1. Puts(w, target[w], Stored(target[w], "running", w, TRUE))
  BY Zenon, ClaimPuts DEF HeartbeatRenew
<1>2. HoldsClaim(w, target[w])
  BY Zenon DEF HeartbeatRenew, RenewAllowed
<1> QED BY Zenon, <1>1, <1>2 DEF HeartbeatRenew, local, Same, Puts, Stored, HoldsClaim, Knows

\* Every step of w but a heartbeat comes from where Origins says.
LEMMA OriginsStep ==
  ASSUME TypeOK, NEW w \in Workers, Move(w), ~HeartbeatRenew(w)
  PROVE  Origins(w)
<1> USE DEF TypeOK, local, storeVars, history
<1> DEFINE Early == {"idle", "retry", "create", "claim", "wait", "accept", "fence",
                     "render", "cleanup", "limit", "erase"}
<1>1. ASSUME pc'[w] \in Early PROVE Origins(w)
  BY Zenon, <1>1 DEF Origins
<1>2. CASE Return(w)
  BY Zenon, <1>1, <1>2, ReturnFrame
<1>3. ASSUME NEW l \in Early, Goto(w, l) PROVE Origins(w)
  BY Zenon, <1>1, <1>3 DEF Goto, WorkersTypeOK
<1>4. CASE Conclude(w, FALSE) /\ UNCHANGED target
  BY Zenon, <1>4, ConcludeFrame DEF Origins
<1>5. CASE UserDelete(w)
  BY Zenon, <1>3, <1>5 DEF UserDelete
<1>6. ASSUME NEW m, Attempt(w, m) PROVE Origins(w)
  BY Zenon, <1>2, <1>3, <1>6 DEF Attempt, ReturnOnly
<1>7. CASE CreateReconcile(w)
  <2>1. CASE pc'[w] = "remark"
    BY Zenon, <1>7, <2>1 DEF CreateReconcile, ReturnOnly, Return, Goto, WorkersTypeOK, Origins
  <2>2. CASE pc'[w] # "remark"
    BY Zenon, <1>1, <1>2, <1>7, <2>2 DEF CreateReconcile, ReturnOnly, Goto, WorkersTypeOK
  <2> QED BY Zenon, <2>1, <2>2
<1>8. CASE ClaimReconcile(w) \/ Wait(w) \/ Accept(w)
  BY Zenon, <1>2, <1>3, <1>8 DEF ClaimReconcile, Wait, Accept, ReturnOnly
<1>9. CASE SkipFresh(w) \/ HeartbeatLost(w) \/ Remark(w) \/ Purge(w) \/ Crash(w)
  BY Zenon, <1>2, <1>9 DEF SkipFresh, HeartbeatLost, Remark, Purge, Crash, ReturnOnly
<1>10. CASE Render(w)
  BY Zenon, <1>10 DEF Render, Goto, WorkersTypeOK, Origins
<1>11. ASSUME Overtaken(w) PROVE Origins(w)
  BY Zenon, <1>3, <1>11 DEF Overtaken, NextPass
<1>12. CASE Reload(w)
  <2>1. CASE ~Overtaken(w)
    BY Zenon, <1>12, <2>1 DEF Reload, Goto, WorkersTypeOK, Origins
  <2> QED BY Zenon, <1>11, <2>1
<1>13. CASE Confirm(w)
  <2>1. CASE ~Overtaken(w)
    BY Zenon, <1>13, <2>1, ConcludeFrame DEF Confirm, Origins
  <2> QED BY Zenon, <1>11, <2>1
<1>14. CASE Mark(w)
  <2>1. CASE ~Conclude(w, FALSE)
    BY Zenon, <1>14, <2>1 DEF Mark, Goto, WorkersTypeOK, Origins
  <2> QED BY Zenon, <1>4, <1>14, <2>1 DEF Mark
<1>15. CASE Limit(w) \/ StoreError(w)
  BY Zenon, <1>4, <1>15 DEF Limit, StoreError
<1>16. CASE Erase(w)
  <2>1. PICK ok \in BOOLEAN : RendererCall(0, ok) /\ Conclude(w, ok)
    BY Zenon, <1>16 DEF Erase
  <2>2. ok => ovn' = 0
    BY Zenon, <2>1 DEF RendererCall
  <2>3. pc'[w] = "complete" /\ good'[w] = ok
    BY Zenon, <1>16, <2>1, ConcludeFrame DEF Erase
  <2> QED BY Zenon, <1>16, <2>2, <2>3 DEF Erase, Origins
<1>17. CASE Complete(w)
  <2>1. CASE ~Return(w)
    BY SMTT(60), <1>17, <2>1, GotoFrame DEF Complete, ReturnOnly, HoldsClaim, Origins
  <2> QED BY Zenon, <1>2, <2>1
<1>18. CASE Fence(w)
  <2>1. CASE ~Return(w)
    BY <1>18, <2>1, GotoFrame DEF Fence, Origins
  <2> QED BY Zenon, <1>2, <2>1
<1>19. CASE CreateDelete(w)
  <2>1. CASE ~Return(w)
    BY SMTT(60), <1>19, <2>1, GotoFrame DEF CreateDelete, ReturnOnly, Origins
  <2> QED BY Zenon, <1>2, <2>1
<1>20. CASE ClaimDelete(w)
  BY Zenon, <1>2, <1>3, <1>20 DEF ClaimDelete, ReturnOnly
<1> QED
  BY Zenon, <1>5, <1>6, <1>7, <1>8, <1>9, <1>10, <1>12, <1>13, <1>14, <1>15, <1>16, <1>17, <1>18, <1>19, <1>20
  DEF Move, WorkerStep, AttemptStep, WriterStep, DeleteStep, Get, Retry

\* Every worker either watches, with what it knows unchanged, or is the one that moves.
LEMMA WatchesOrMoves ==
  ASSUME TypeOK, [Next]_vars, NEW v \in Workers
  PROVE  (Same(v) /\ Knows(v)) \/ Origins(v)
  BY Zenon, StepOf, MoveFrame, EnvironmentFrame, Renewal, OriginsStep

\* A resource is a tombstone because it was one, or because of a user's delete.
LEMMA ResDeleting ==
  ASSUME TypeOK, IInv, [Next]_vars, ~UserCreate, res'.state = "deleting"
  PROVE  \/ res.state = "deleting" /\ res'.rev = res.rev
         \/ \E w \in Workers : UserDelete(w)
<1>1. ASSUME NEW r \in 0..MaxRev, NEW ok \in BOOLEAN, Marks(r, ok)
      PROVE  res.state = "deleting" /\ res'.rev = res.rev
  BY Zenon, <1>1 DEF Marks, Marked, Meta
<1>2. res' # Absent /\ ~UserUpdate
  BY DEF Absent, UserUpdate, Update, Meta
<1> QED BY Zenon, <1>1, <1>2, ResStep

\* A resource disappears only by an allowed purge.
LEMMA ResAbsent ==
  ASSUME TypeOK, IInv, [Next]_vars, ~UserCreate, res'.state = "absent", res.state # "absent"
  PROVE  \E w \in Workers : Purge(w) /\ PurgeAllowed(target[w])
<1>1. ASSUME NEW r \in 0..MaxRev, NEW ok \in BOOLEAN, Marks(r, ok) PROVE FALSE
  BY Zenon, <1>1 DEF Marks, Marked, Meta
<1>2. ~UserUpdate /\ \A w \in Workers : ~UserDelete(w)
  BY DEF UserUpdate, Update, UserDelete, BeginDelete, Meta
<1> QED BY Zenon, <1>1, <1>2, ResStep

-----------------------------------------------------------------------------
\* A new tombstone has no operation yet, and nobody is past its fence.
LEMMA FreshTombstone ==
  ASSUME TypeOK, IInv, NEW w \in Workers, UserDelete(w)
  PROVE  /\ ops' = ops /\ res'.rev \in Revs /\ ops[res'.rev] = NoOp
         /\ \A v \in Workers : target'[v] = res'.rev => pc'[v] \in {"idle", "fence"}
<1>1. Present /\ res.rev < MaxRev /\ res'.rev = res.rev + 1 /\ ops' = ops /\ res.rev \in Revs
  BY Zenon DEF UserDelete, BeginDelete, Present, Meta, IInv, FutureIsEmpty
<1>2. res'.rev \in Revs /\ ops[res'.rev] = NoOp
  BY <1>1, StoreAssumption DEF IInv, FutureIsEmpty, Revs
<1>3. ASSUME NEW v \in Workers, target'[v] = res'.rev PROVE pc'[v] \in {"idle", "fence"}
  <2>1. CASE v = w
    BY Zenon, <2>1 DEF UserDelete, Goto, TypeOK, WorkersTypeOK
  <2>2. CASE v # w
    <3>1. Same(v)
      BY Zenon, <2>2, MoveFrame DEF Move
    <3> QED BY SMTT(60), <1>1, <1>3, <3>1 DEF IInv, Working, Same, Revs
  <2> QED BY Zenon, <2>1, <2>2
<1> QED BY Zenon, <1>1, <1>2, <1>3

\* The fence leaves no reconcile running when it lets the delete go on.
LEMMA FenceStops ==
  ASSUME TypeOK, NEW w \in Workers, Fence(w), ActiveReconciles = {}
  PROVE  NoReconcileRuns'
<1>1. Fails(ExpiredReconciles)
  BY Zenon, WriteFailed DEF Fence, FenceReconciles
<1>2. \A k \in Revs : Running(k) => k \in ExpiredReconciles
  BY Zenon DEF Running, ActiveReconciles, ExpiredReconciles, LeaseIsLive, TypeOK, StoreTypeOK, Operation
<1> QED BY Zenon, <1>1, <1>2 DEF Fails, Running, Stored, NoReconcileRuns

\* Fenced is kept by every step after the Create.
LEMMA FencedStep ==
  ASSUME TypeOK, IInv, [Next]_vars, ~UserCreate
  PROVE  Fenced'
<1>1. CASE \E w \in Workers : UserDelete(w)
  BY <1>1, FreshTombstone DEF Fenced, NoOp
<1>2. CASE ~\E w \in Workers : UserDelete(w)
  <2>1. ASSUME Present', ops'[res'.rev].act = "delete"
        PROVE  res'.state = "deleting" /\ NoReconcileRuns'
    <3>1. Present /\ res.rev \in Revs /\ res'.rev \in Revs /\ res.rev <= res'.rev
      BY Zenon, <2>1, ResKeeps, FutureStep DEF Keeps, IInv, FutureIsEmpty
    <3>2. OpRule(res'.rev)
      BY Zenon, <3>1, OpsStep DEF IInv
    <3>3. res'.rev = res.rev
      <4>1. CASE res'.rev > res.rev
        <5>1. ops[res'.rev] = NoOp
          BY Zenon, <3>1, <4>1 DEF IInv, FutureIsEmpty
        <5>2. \A w \in Workers : pc[w] # "idle" => target[w] # res'.rev
          BY <3>1, <4>1 DEF IInv, Working, Revs
        <5> QED BY <2>1, <3>2, <5>1, <5>2 DEF OpRule, NoOp
      <4> QED BY <3>1, <4>1 DEF Revs
    <3>4. res.state = "deleting" /\ NoReconcileRuns
      <4>1. CASE ops[res.rev].act = "delete"
        BY Zenon, <3>1, <4>1 DEF IInv, Fenced
      <4>2. CASE ops[res.rev].act # "delete"
        <5>1. PICK w \in Workers : pc[w] = "dcreate" /\ target[w] = res.rev
          BY Zenon, <2>1, <3>2, <3>3, <4>2 DEF OpRule
        <5>2. res.state = "deleting"
          BY Zenon, <3>1, <5>1 DEF IInv, Working
        <5> QED BY Zenon, <5>1, <5>2 DEF IInv, Fenced
      <4> QED BY Zenon, <4>1, <4>2
    <3> QED BY Zenon, <2>1, <3>3, <3>4, NoReconcileStarts, ResKeeps DEF Keeps
  <2>2. ASSUME res'.state = "deleting", NEW v \in Workers,
               pc'[v] \in {"dcreate", "dclaim", "purge"}, target'[v] = res'.rev
        PROVE  NoReconcileRuns'
    <3>1. res.state = "deleting" /\ res'.rev = res.rev
      BY Zenon, <1>2, <2>2, ResDeleting
    <3>2. CASE Same(v)
      BY Zenon, <2>2, <3>1, <3>2, NoReconcileStarts DEF IInv, Fenced, Same
    <3>3. CASE Origins(v)
      <4>1. CASE Fence(v) /\ ActiveReconciles = {}
        BY Zenon, <4>1, FenceStops
      <4>2. CASE pc[v] \in {"dcreate", "dclaim"} /\ target[v] = res.rev
        BY Zenon, <3>1, <4>2, NoReconcileStarts DEF IInv, Fenced
      <4>3. CASE ops[target[v]].act = "delete" /\ target[v] = res.rev
        BY Zenon, <3>1, <4>3, NoReconcileStarts DEF IInv, Fenced, Present
      <4> QED BY Zenon, <2>2, <3>1, <3>3, <4>1, <4>2, <4>3 DEF Origins
    <3> QED BY Zenon, <3>2, <3>3, WatchesOrMoves
  <2> QED BY Zenon, <2>1, <2>2 DEF Fenced
<1> QED BY Zenon, <1>1, <1>2

\* Erased is kept by every step after the Create.
LEMMA ErasedStep ==
  ASSUME TypeOK, IInv, [Next]_vars, ~UserCreate
  PROVE  Erased'
<1> SUFFICES ASSUME late' = {} PROVE Erased'
  BY Zenon DEF Erased
<1>0. late = {}
  BY Zenon, RowsStep
<1>1. ASSUME res'.state = "absent" PROVE ovn' = 0 /\ NoReconcileRuns'
  <2>1. CASE res.state = "absent"
    BY Zenon, <1>0, <2>1, NoReconcileStarts, NoRowsAppear DEF IInv, Erased
  <2>2. CASE res.state # "absent"
    <3>1. PICK w \in Workers : Purge(w) /\ PurgeAllowed(target[w])
      BY Zenon, <1>1, <2>2, ResAbsent
    <3>2. pc[w] = "purge" /\ target[w] = res.rev /\ UNCHANGED <<ovn, ops>>
      BY Zenon, <3>1 DEF Purge, PurgeAllowed
    <3>3. res.state = "deleting"
      BY Zenon, <2>2, <3>2 DEF IInv, Working, Present
    <3>4. ovn = 0
      BY Zenon, <1>0, <3>2, <3>3 DEF IInv, Erased
    <3> QED BY Zenon, <3>1, <3>2, <3>4 DEF PurgeAllowed, NoReconcileRuns
  <2> QED BY Zenon, <2>1, <2>2
<1>2. CASE \E w \in Workers : UserDelete(w)
  <2>1. res'.state = "deleting"
    BY <1>2 DEF UserDelete, BeginDelete, Meta
  <2> QED BY <1>2, <2>1, FreshTombstone DEF Erased, NoOp
<1>3. ASSUME res'.state = "deleting", ~\E w \in Workers : UserDelete(w) PROVE Erased'
  <2>1. res.state = "deleting" /\ res'.rev = res.rev /\ res.rev \in Revs
    BY Zenon, <1>3, ResDeleting DEF IInv, FutureIsEmpty, Present
  <2>2. ASSUME NoReconcileRuns, ovn = 0 PROVE ovn' = 0
    BY Zenon, <2>2, NoRowsAppear
  <2>3. ASSUME ops[res.rev].act = "delete", ovn = 0 PROVE ovn' = 0
    BY Zenon, <2>1, <2>2, <2>3 DEF IInv, Fenced, Present
  <2>4. ASSUME ops'[res.rev].act = "delete", ops'[res.rev].status = "succeeded" PROVE ovn' = 0
    <3>1. OpRule(res.rev)
      BY Zenon, <2>1, OpsStep DEF IInv
    <3>2. ops[res.rev].act = "delete"
      BY Zenon, <2>4, <3>1 DEF OpRule
    <3>3. CASE ops[res.rev].status = "succeeded"
      BY Zenon, <1>0, <2>1, <2>3, <3>2, <3>3 DEF IInv, Erased
    <3>4. ASSUME NEW w \in Workers, Succeeds(w, res.rev) PROVE ovn' = 0
      BY Zenon, <1>0, <2>1, <3>2, <3>4 DEF Succeeds, HoldsClaim, IInv, Erased
    <3> QED BY Zenon, <2>4, <3>1, <3>3, <3>4 DEF OpRule
  <2>5. ASSUME NEW v \in Workers, target'[v] = res.rev, pc'[v] = "purge" PROVE ovn' = 0
    <3>1. CASE Same(v)
      BY Zenon, <1>0, <2>1, <2>2, <2>5, <3>1 DEF IInv, Erased, Fenced, Same
    <3>2. CASE Origins(v)
      <4>1. target[v] = res.rev /\ UNCHANGED ovn /\ ops[res.rev].act = "delete"
        BY Zenon, <2>5, <3>2 DEF Origins
      <4> QED BY Zenon, <1>0, <2>1, <2>5, <3>2, <4>1 DEF Origins, IInv, Erased
    <3> QED BY Zenon, <3>1, <3>2, WatchesOrMoves
  <2>6. ASSUME NEW v \in Workers, target'[v] = res.rev, pc'[v] = "complete", good'[v],
               target'[v] \in seen'[v], ops'[target'[v]].act = "delete"
        PROVE  ovn' = 0
    <3>1. CASE Same(v) /\ Knows(v)
      <4>1. /\ pc[v] = "complete" /\ good[v] /\ target[v] = res.rev
            /\ target[v] \in seen[v] /\ ops[target[v]].act = "delete"
        BY Zenon, <2>1, <2>6, <3>1 DEF Same, Knows
      <4> QED BY Zenon, <1>0, <2>1, <2>3, <4>1 DEF IInv, Erased
    <3>2. CASE Origins(v)
      BY Zenon, <2>1, <2>6, <3>2 DEF Origins, Current, Gone
    <3> QED BY Zenon, <3>1, <3>2, WatchesOrMoves
  <2> QED BY Zenon, <1>3, <2>1, <2>4, <2>5, <2>6 DEF Erased
<1>4. CASE res'.state \notin {"absent", "deleting"}
  BY Zenon, <1>4 DEF Erased
<1> QED BY Zenon, <1>1, <1>2, <1>3, <1>4 DEF Erased

\* Recorded is kept by every step after the Create.
LEMMA RecordedStep ==
  ASSUME TypeOK, IInv, [Next]_vars, ~UserCreate
  PROVE  Recorded'
<1>0. rendered \subseteq rendered' /\ Recorded
  BY Zenon, RowsStep DEF IInv
<1>1. /\ res'.state = "ready" => res'.applied = res'.rev /\ res'.rev \in rendered'
      /\ res'.applied <= res'.rev
  <2> USE DEF TypeOK, StoreTypeOK, Resource
  <2>1. CASE UNCHANGED res
    BY Zenon, <1>0, <2>1 DEF Recorded
  <2>2. CASE UserUpdate \/ \E w \in Workers : UserDelete(w)
    BY <1>0, <2>2 DEF UserUpdate, Update, UserDelete, BeginDelete, Meta, Recorded
  <2>3. CASE res' = Absent
    BY <2>3 DEF Absent, Meta
  <2>4. ASSUME NEW r \in 0..MaxRev, NEW ok \in BOOLEAN, Marks(r, ok)
        PROVE  /\ res'.state = "ready" => res'.applied = res'.rev /\ res'.rev \in rendered'
               /\ res'.applied <= res'.rev
    <3>1. /\ res'.rev = res.rev
          /\ res'.state = IF r = res.rev THEN (IF ok THEN "ready" ELSE "error") ELSE res.state
          /\ res'.applied = IF ok /\ r > res.applied THEN r ELSE res.applied
      BY Zenon, <2>4 DEF Marks, Marked, Meta
    <3> QED BY <1>0, <2>4, <3>1 DEF Marks, Recorded
  <2> QED BY Zenon, <2>1, <2>2, <2>3, <2>4, ResStep
<1>2. ASSUME Present', ops'[res'.rev].act = "reconcile", ops'[res'.rev].status = "succeeded"
      PROVE  res'.rev \in rendered'
  <2>1. Present /\ res.rev \in Revs /\ res'.rev \in Revs /\ res.rev <= res'.rev
    BY Zenon, <1>2, ResKeeps, FutureStep DEF Keeps, IInv, FutureIsEmpty
  <2>2. OpRule(res'.rev)
    BY Zenon, <2>1, OpsStep DEF IInv
  <2>3. res'.rev = res.rev
    <3>1. CASE res'.rev > res.rev
      <4>1. ops[res'.rev] = NoOp
        BY Zenon, <2>1, <3>1 DEF IInv, FutureIsEmpty
      <4> QED BY SMTT(60), <1>2, <2>2, <4>1 DEF OpRule, NoOp
    <3> QED BY <2>1, <3>1 DEF Revs
  <2>4. ops[res.rev].act = "reconcile"
    BY Zenon, <1>2, <2>2, <2>3 DEF OpRule
  <2>5. CASE ops[res.rev].status = "succeeded"
    BY Zenon, <1>0, <2>1, <2>3, <2>4, <2>5 DEF Recorded
  <2>6. ASSUME NEW w \in Workers, Succeeds(w, res.rev) PROVE res.rev \in rendered'
    BY Zenon, <1>0, <2>1, <2>4, <2>6 DEF Succeeds, HoldsClaim, Recorded
  <2> QED BY Zenon, <1>2, <2>2, <2>3, <2>5, <2>6 DEF OpRule
<1>3. ASSUME NEW v \in Workers PROVE
       /\ pc'[v] \in {"reload", "mark"} /\ good'[v] => desired'[v] \in rendered'
       /\ pc'[v] = "confirm" => desired'[v] \in rendered'
  BY Zenon, <1>0, WatchesOrMoves DEF Same, Origins, Recorded
<1>4. ASSUME NEW v \in Workers, Present', target'[v] = res'.rev, pc'[v] = "remark"
      PROVE  target'[v] \in rendered'
  <2>1. Present /\ res.rev \in Revs /\ res.rev <= res'.rev /\ res'.rev \in Revs
    BY Zenon, <1>4, ResKeeps, FutureStep DEF Keeps, IInv, FutureIsEmpty
  <2>2. CASE Same(v)
    <3>1. pc[v] = "remark" /\ target[v] = res.rev
      BY SMTT(60), <1>4, <2>1, <2>2 DEF Same, IInv, Working, Revs
    <3> QED BY Zenon, <1>0, <1>4, <2>1, <2>2, <3>1 DEF Recorded, Same
  <2>3. CASE Origins(v)
    BY Zenon, <1>0, <1>4, <2>1, <2>3 DEF Origins, Recorded
  <2> QED BY Zenon, <2>2, <2>3, WatchesOrMoves
<1>5. ASSUME NEW v \in Workers, Present', target'[v] = res'.rev, pc'[v] = "complete", good'[v],
             target'[v] \in seen'[v], ops'[target'[v]].act = "reconcile"
      PROVE  target'[v] \in rendered'
  <2>1. Present /\ res.rev \in Revs /\ res.rev <= res'.rev /\ res'.rev \in Revs
    BY Zenon, <1>5, ResKeeps, FutureStep DEF Keeps, IInv, FutureIsEmpty
  <2>2. CASE Same(v) /\ Knows(v)
    <3>1. /\ pc[v] = "complete" /\ target[v] = res.rev /\ target[v] = res'.rev /\ good[v]
      BY SMTT(60), <1>5, <2>1, <2>2 DEF Same, IInv, Working, Revs
    <3>2. target[v] \in seen[v] /\ ops[target[v]].act = "reconcile"
      BY Zenon, <1>5, <2>1, <2>2, <3>1 DEF Same, Knows
    <3> QED BY Zenon, <1>0, <1>5, <2>1, <3>1, <3>2 DEF Recorded
  <2>3. CASE Origins(v)
    <3>1. /\ target'[v] = target[v] /\ UNCHANGED <<res, ops, seen, rendered>>
          /\ \/ pc[v] = "confirm" /\ Current(v)
             \/ pc[v] \in {"cleanup", "erase"}
      BY Zenon, <1>5, <2>3 DEF Origins
    <3>2. CASE pc[v] = "confirm" /\ Current(v)
      BY Zenon, <1>0, <1>5, <3>1, <3>2 DEF Current, Recorded
    <3>3. CASE pc[v] = "cleanup"
      BY SMTT(60), <1>5, <2>1, <3>1, <3>3 DEF IInv, Working, Revs
    <3>4. CASE pc[v] = "erase"
      BY Zenon, <1>5, <3>1, <3>4 DEF IInv, Claimed, Writing
    <3> QED BY Zenon, <3>1, <3>2, <3>3, <3>4
  <2> QED BY Zenon, <2>2, <2>3, WatchesOrMoves
<1> QED BY Zenon, <1>1, <1>2, <1>3, <1>4, <1>5 DEF Recorded

\* Before the first Create only idle polls happen.
LEMMA UnbornStep ==
  ASSUME TypeOK, IInv, [Next]_vars
  PROVE  Unborn'
<1> SUFFICES ASSUME lives' = 0 PROVE Unborn'
  BY Zenon DEF Unborn
<1>1. ~UserCreate
  BY DEF UserCreate, Create, TypeOK, StoreTypeOK
<1>2. lives = 0
  <2>1. ASSUME NEW w \in Workers, Move(w) PROVE UNCHANGED lives
    <3>1. ASSUME NEW m, Attempt(w, m) PROVE UNCHANGED lives
      BY Zenon, <3>1 DEF Attempt, ReturnOnly, storeVars
    <3>2. ASSUME \/ CreateReconcile(w) \/ CreateDelete(w) \/ ClaimReconcile(w) \/ ClaimDelete(w)
                 \/ SkipFresh(w) \/ Wait(w) \/ Accept(w) \/ HeartbeatLost(w) \/ Complete(w)
          PROVE  UNCHANGED lives
      BY Zenon, <3>2 DEF CreateReconcile, CreateDelete, ClaimReconcile, ClaimDelete, SkipFresh, Wait, Accept,
                  HeartbeatLost, Complete, ReturnOnly, storeVars
    <3>3. ASSUME \/ Reload(w) \/ Confirm(w) \/ StoreError(w) \/ Mark(w) \/ Limit(w) \/ Remark(w) \/ Purge(w)
                 \/ Render(w) \/ Erase(w) \/ Fence(w) \/ HeartbeatRenew(w) \/ Crash(w) \/ UserDelete(w)
          PROVE  UNCHANGED lives
      BY Zenon, <3>3 DEF Reload, Confirm, StoreError, Mark, Limit, Remark, Purge, Render, Erase, Fence,
                  HeartbeatRenew, Crash, UserDelete, BeginDelete, storeVars
    <3> QED
      BY Zenon, <2>1, <3>1, <3>2, <3>3 DEF Move, WorkerStep, AttemptStep, WriterStep, DeleteStep, Get, Retry
  <2>2. ASSUME Environment PROVE UNCHANGED lives
    BY Zenon, <1>1, <2>2 DEF Environment, UserUpdate, Update, Recover, RecoverExpiredOperations, Prune, PruneOperations,
                      Expire, Stall, RunOut, vars, storeVars
  <2> QED BY Zenon, <2>1, <2>2, StepOf
<1>3. /\ res = Absent /\ ovn = 0 /\ pc = [w \in Workers |-> "idle"] /\ ops = [k \in Revs |-> NoOp]
  BY Zenon, <1>2 DEF IInv, Unborn
<1>4. ASSUME NEW w \in Workers, Move(w) PROVE Unborn'
  <2>1. pc[w] = "idle" /\ res.state = "absent"
    BY Zenon, <1>3 DEF Absent, Meta
  <2>2. \E m \in Modes : Get(w, m)
    BY Zenon, <1>4, <2>1
    DEF Move, UserDelete, BeginDelete, WorkerStep, AttemptStep, WriterStep, DeleteStep, Retry, CreateReconcile,
        SkipFresh, Remark, ClaimReconcile, Wait, Accept, Render, Reload, Mark, Confirm, Limit, Erase, Complete,
        Fence, CreateDelete, ClaimDelete, Purge, HeartbeatRenew, HeartbeatLost, StoreError, Crash, Writing
  <2>3. ReturnOnly(w)
    BY Zenon, <2>1, <2>2 DEF Get, Attempt
  <2>4. pc' = pc
    BY Zenon, <1>3, <2>3 DEF ReturnOnly, Return, Goto
  <2> QED BY Zenon, <1>3, <2>3, <2>4 DEF ReturnOnly, Unborn
<1>5. ASSUME Environment PROVE Unborn'
  <2>1. \A k \in Revs : ops[k].status = "none"
    BY Zenon, <1>3 DEF NoOp
  <2>2. ~UserUpdate /\ ~Recover /\ ~Prune /\ \A k \in Revs : ~Expire(k) /\ ~Stall(k)
    BY Zenon, <1>3, <2>1 DEF UserUpdate, Update, Absent, Meta, Recover, RecoverExpiredOperations, Recoverable, Prune,
                      PruneOperations, Prunable, Expire, Stall, RunOut, LeaseIsLive
  <2>3. UNCHANGED vars
    BY Zenon, <1>1, <1>5, <2>2 DEF Environment
  <2> QED BY Zenon, <1>3, <2>3 DEF vars, storeVars, Unborn
<1> QED BY Zenon, <1>4, <1>5, StepOf

\* The one Create of the resource's ID finds nothing of it.
LEMMA CreateStep ==
  ASSUME MaxLives <= 1, TypeOK, IInv, UserCreate
  PROVE  IInv'
<1>1. lives = 0 /\ lives' = 1 /\ res' = Meta("pending", 1, 0)
  BY StoreAssumption DEF UserCreate, Create, TypeOK, StoreTypeOK
<1>2. /\ pc' = [w \in Workers |-> "idle"] /\ ops' = [k \in Revs |-> NoOp]
  BY Zenon, <1>1 DEF IInv, Unborn, UserCreate, Create
<1>3. 1 \in Revs
  BY StoreAssumption DEF Revs
<1>4. /\ res'.state = "pending" /\ res'.rev = 1 /\ res'.applied = 0
      /\ \A w \in Workers : pc'[w] = "idle"
      /\ \A k \in Revs : ops'[k] = NoOp
  BY Zenon, <1>1, <1>2 DEF Meta
<1>5. Unborn' /\ FutureIsEmpty' /\ OpShape'
  <2>1. Unborn'
    BY <1>1 DEF Unborn
  <2>2. FutureIsEmpty'
    BY Zenon, <1>3, <1>4 DEF FutureIsEmpty
  <2>3. OpShape'
    BY <1>4 DEF OpShape, NoOp
  <2> QED BY Zenon, <2>1, <2>2, <2>3
<1>6. \A w \in Workers : Working(w)' /\ Claimed(w)'
  BY Zenon, <1>4, WorkingIdle DEF Claimed, Writing
<1>7. Fenced' /\ Erased' /\ Recorded'
  BY SMTT(60), <1>3, <1>4 DEF Fenced, Erased, Recorded, NoOp
<1> QED BY Zenon, <1>5, <1>6, <1>7 DEF IInv

-----------------------------------------------------------------------------
\* For a resource ID that is created at most once, IInv holds in every reachable
\* state of any number of concurrent workflows, revisions, passes and faults.
THEOREM Inductive == ASSUME MaxLives <= 1 PROVE Spec => []IInv
<1>1. Init => IInv
  <2> SUFFICES ASSUME Init PROVE IInv
    OBVIOUS
  <2>1. /\ res = Absent /\ res.state = "absent" /\ res.rev = 0 /\ res.applied = 0 /\ ovn = 0
        /\ pc = [w \in Workers |-> "idle"] /\ \A w \in Workers : pc[w] = "idle"
        /\ ops = [k \in Revs |-> NoOp] /\ \A k \in Revs : ops[k] = NoOp
    BY Zenon DEF Init, StoreInit, Absent, Meta
  <2>2. Unborn /\ FutureIsEmpty /\ OpShape
    BY Zenon, <2>1 DEF Unborn, FutureIsEmpty, Present, OpShape, NoOp
  <2>3. \A w \in Workers : Working(w) /\ Claimed(w)
    BY Zenon, <2>1 DEF Working, Claimed, Writing, Reconciling
  <2>4. Fenced /\ Erased /\ Recorded
    BY <2>1 DEF Fenced, Erased, Recorded, Present, NoReconcileRuns, NoOp
  <2> QED BY Zenon, <2>2, <2>3, <2>4 DEF IInv
<1>2. TypeOK /\ IInv /\ [Next]_vars => IInv'
  <2> SUFFICES ASSUME TypeOK, IInv, [Next]_vars PROVE IInv'
    OBVIOUS
  <2>1. CASE UserCreate
    BY Zenon, <2>1, CreateStep
  <2>2. CASE ~UserCreate
    <3>1. Unborn' /\ FutureIsEmpty' /\ OpShape'
      BY Zenon, <2>2, UnbornStep, FutureStep, ShapeStep
    <3>2. \A w \in Workers : Working(w)' /\ Claimed(w)'
      BY Zenon, <2>2, WorkingStep, ClaimedStep
    <3>3. Fenced' /\ Erased' /\ Recorded'
      BY Zenon, <2>2, FencedStep, ErasedStep, RecordedStep
    <3> QED BY Zenon, <3>1, <3>2, <3>3 DEF IInv
  <2> QED BY Zenon, <2>1, <2>2
<1> QED BY <1>1, <1>2, TypeCorrect, PTL DEF Spec

\* The three transactions of a delete fence every reconcile of its resource.
THEOREM Fencing == ASSUME MaxLives <= 1 PROVE Spec => []TombstoneFenced
<1>1. IInv => TombstoneFenced
  BY Zenon DEF IInv, Fenced, TombstoneFenced, NoReconcileRuns, Present
<1> QED BY <1>1, Inductive, PTL

\* Purged desired state leaves rows only behind a Render that had lost its claim.
THEOREM NoRowsLeft == ASSUME MaxLives <= 1 PROVE Spec => []PurgedLeavesNoRows
<1>1. IInv => PurgedLeavesNoRows
  BY Zenon DEF IInv, Erased, PurgedLeavesNoRows
<1> QED BY <1>1, Inductive, PTL

\* Ready means rendered.
THEOREM ReadyIsRendered == ASSUME MaxLives <= 1 PROVE Spec => []ReadyWasRendered
<1>1. IInv => ReadyWasRendered
  BY Zenon DEF IInv, Recorded, ReadyWasRendered
<1> QED BY <1>1, Inductive, PTL

\* No late MarkReconciled touches a tombstone.
THEOREM TombstonesStay == ASSUME MaxLives <= 1 PROVE Spec => TombstoneStays
<1>1. TypeOK /\ IInv /\ [Next]_vars
      => [res.state = "deleting" /\ res'.rev = res.rev => res'.state = "deleting"]_vars
  <2> SUFFICES ASSUME TypeOK, IInv, [Next]_vars, res.state = "deleting", res'.rev = res.rev
               PROVE  res'.state = "deleting"
    OBVIOUS
  <2>1. ~UserCreate
    BY Zenon DEF UserCreate, Create
  <2>2. res.rev # 0
    BY DEF IInv, FutureIsEmpty, Present, Revs
  <2>3. Present' => res'.state = "deleting"
    BY Zenon, <2>1, ResKeeps DEF Keeps
  <2>4. res'.state = "absent" => res'.rev = 0
    BY <2>1, ResStep DEF Absent, Meta, UserUpdate, Update, UserDelete, BeginDelete, Marks, Marked
  <2> QED BY Zenon, <2>2, <2>3, <2>4 DEF Present
<1> QED BY <1>1, TypeCorrect, Inductive, PTL DEF Spec, TombstoneStays

\* Nobody but its owner ends a live lease, however often IDs are reused.
THEOREM LeasesKept == Spec => LiveLeaseIsKept
<1>1. Init => OpShape
  BY DEF Init, StoreInit, OpShape, NoOp
<1>2. TypeOK /\ OpShape /\ [Next]_vars => OpShape'
  BY Zenon, OpsStep DEF OpShape, OpRule
<1>3. TypeOK /\ OpShape /\ [Next]_vars
      => [\A k \in Revs :
            LeaseIsLive(k) /\ ~(ops'[k].status = "running" /\ ops'[k].owner = ops[k].owner)
            => \E w \in Workers : /\ w = ops[k].owner
                                  /\ pc[w] = "complete" /\ target[w] = k
                                  /\ pc'[w] # "complete"]_vars
  BY OpsStep DEF OpRule, Completes
<1> QED BY <1>1, <1>2, <1>3, TypeCorrect, PTL DEF Spec, LiveLeaseIsKept
=============================================================================
