---------------------------- MODULE ReconcileSteps ----------------------------
(***************************************************************************)
(* Type correctness of Reconcile, and lemmas on its safety, for every      *)
(* number of workers, revisions, passes and faults.  A step is one         *)
(* worker's or the environment's, and leaves the other workers as they are *)
(* (MoveFrame, EnvironmentFrame); OpsStep, ResStep and RowsStep say what   *)
(* it can do to an operation, to the resource and to its rows; FutureStep, *)
(* ShapeStep and WorkingStep keep the first conjuncts of IInv.             *)
(***************************************************************************)
EXTENDS Reconcile, TLAPS

\* A Write of operation records keeps the store's types.
LEMMA WriteType ==
  ASSUME StoreTypeOK, NEW w, NEW new, Write(w, new), DOMAIN new \subseteq 0..MaxRev,
         \A k \in Revs : k \in DOMAIN new => new[k] \in Operation
  PROVE  ops' \in [Revs -> Operation] /\ seen' \in [Workers -> SUBSET (0..MaxRev)]
  BY Zenon DEF StoreTypeOK, Write

\* Create of an operation keeps the store's types.
LEMMA QueueType ==
  ASSUME StoreTypeOK, NEW w, NEW k \in 0..MaxRev, NEW act \in {"reconcile", "delete"}, Queue(w, k, act)
  PROVE  ops' \in [Revs -> Operation] /\ seen' \in [Workers -> SUBSET (0..MaxRev)]
  <1> DEFINE new == [j \in {k} |-> [act |-> act, status |-> "queued", owner |-> Nobody, live |-> FALSE]]
  <1>1. \A j \in Revs : j \in DOMAIN new => new[j] \in Operation
    BY Zenon DEF Operation
  <1>2. Write(w, new) /\ DOMAIN new \subseteq 0..MaxRev
    BY Zenon DEF Queue
  <1> HIDE DEF new
  <1> QED BY Zenon, <1>1, <1>2, WriteType

\* An operation's next record is an operation.
LEMMA StoredType ==
  ASSUME StoreTypeOK, NEW k \in Revs, NEW o \in Workers \cup {Nobody}, NEW l \in BOOLEAN,
         NEW s \in {"none", "queued", "running", "succeeded", "failed"}
  PROVE  Stored(k, s, o, l) \in Operation
  BY Zenon DEF StoreTypeOK, Stored, Operation

\* A claim keeps the store's types.
LEMMA ClaimType ==
  ASSUME StoreTypeOK, NEW w \in Workers, NEW k \in 0..MaxRev, Claim(w, k)
  PROVE  ops' \in [Revs -> Operation] /\ seen' \in [Workers -> SUBSET (0..MaxRev)]
  <1> DEFINE new == [j \in {k} |-> Stored(j, "running", w, TRUE)]
  <1>1. \A j \in Revs : j \in DOMAIN new => new[j] \in Operation
    BY Zenon, StoredType DEF Ended
  <1>2. Write(w, new) /\ DOMAIN new \subseteq 0..MaxRev
    BY Zenon DEF Claim
  <1> HIDE DEF new
  <1> QED BY Zenon, <1>1, <1>2, WriteType

\* A renewal keeps the store's types.
LEMMA RenewType ==
  ASSUME StoreTypeOK, NEW w \in Workers, NEW k \in 0..MaxRev, Renew(w, k)
  PROVE  ops' \in [Revs -> Operation] /\ seen' \in [Workers -> SUBSET (0..MaxRev)]
  <1> DEFINE new == [j \in {k} |-> Stored(j, "running", w, TRUE)]
  <1>1. \A j \in Revs : j \in DOMAIN new => new[j] \in Operation
    BY Zenon, StoredType DEF Ended
  <1>2. Write(w, new) /\ DOMAIN new \subseteq 0..MaxRev
    BY Zenon DEF Renew
  <1> HIDE DEF new
  <1> QED BY Zenon, <1>1, <1>2, WriteType

\* A completion keeps the store's types.
LEMMA FinishType ==
  ASSUME StoreTypeOK, NEW k \in 0..MaxRev, NEW ok \in BOOLEAN, Finish(k, ok)
  PROVE  ops' \in [Revs -> Operation] /\ seen' \in [Workers -> SUBSET (0..MaxRev)]
  <1> DEFINE new == [j \in {k} |-> Ended(j, IF ok THEN "succeeded" ELSE "failed")]
  <1>1. \A j \in Revs : j \in DOMAIN new => new[j] \in Operation
    BY Zenon, StoredType DEF Ended
  <1>2. Write(Nobody, new) /\ DOMAIN new \subseteq 0..MaxRev
    BY Zenon DEF Finish
  <1> HIDE DEF new
  <1> QED BY Zenon, <1>1, <1>2, WriteType

\* FenceReconciles keeps the store's types.
LEMMA FenceType ==
  ASSUME StoreTypeOK, FenceReconciles
  PROVE  ops' \in [Revs -> Operation] /\ seen' \in [Workers -> SUBSET (0..MaxRev)]
  <1> DEFINE new == [j \in ExpiredReconciles |-> Ended(j, "failed")]
  <1>1. \A j \in Revs : j \in DOMAIN new => new[j] \in Operation
    BY Zenon, StoredType DEF Ended
  <1>2. Write(Nobody, new) /\ DOMAIN new \subseteq 0..MaxRev
    BY DEF FenceReconciles, ExpiredReconciles, Revs
  <1> HIDE DEF new
  <1> QED BY Zenon, <1>1, <1>2, WriteType

\* RecoverExpiredOperations keeps the store's types.
LEMMA RecoverType ==
  ASSUME StoreTypeOK, RecoverExpiredOperations
  PROVE  ops' \in [Revs -> Operation] /\ seen' \in [Workers -> SUBSET (0..MaxRev)]
  <1> DEFINE new == [j \in Recoverable |-> Ended(j, "failed")]
  <1>1. \A j \in Revs : j \in DOMAIN new => new[j] \in Operation
    BY Zenon, StoredType DEF Ended
  <1>2. Write(Nobody, new) /\ DOMAIN new \subseteq 0..MaxRev
    BY DEF RecoverExpiredOperations, Recoverable, Revs
  <1> HIDE DEF new
  <1> QED BY Zenon, <1>1, <1>2, WriteType

\* A read keeps the store's types.
LEMMA ReadType ==
  ASSUME StoreTypeOK, NEW w \in Workers, NEW k \in 0..MaxRev, Read(w, k)
  PROVE  ops' \in [Revs -> Operation] /\ seen' \in [Workers -> SUBSET (0..MaxRev)]
  BY Zenon DEF StoreTypeOK, Read

\* A return keeps the types of the workers' state.
LEMMA ReturnType == ASSUME WorkersTypeOK, NEW w \in Workers, Return(w) PROVE WorkersTypeOK'
  BY ReconcileAssumption, StoreAssumption DEF WorkersTypeOK, Return, Goto, PCs

\* A bare return keeps every type.
LEMMA ReturnOnlyType == ASSUME TypeOK, NEW w \in Workers, ReturnOnly(w) PROVE TypeOK'
  <1>1. WorkersTypeOK'
    BY Zenon, ReturnType DEF TypeOK, ReturnOnly
  <1>2. StoreTypeOK'
    BY Zenon DEF TypeOK, StoreTypeOK, ReturnOnly, Forget
  <1> QED BY Zenon, <1>1, <1>2 DEF TypeOK, ReturnOnly, history

\* A step inside a workflow goes to a place there is.
LEMMA GotoType ==
  ASSUME WorkersTypeOK, NEW w \in Workers, NEW l \in PCs, Goto(w, l) PROVE pc' \in [Workers -> PCs]
  BY Zenon DEF WorkersTypeOK, Goto

\* The end of the work keeps the types of the workers' state.
LEMMA ConcludeType ==
  ASSUME WorkersTypeOK, NEW w \in Workers, NEW ok \in BOOLEAN, Conclude(w, ok)
  PROVE  /\ pc' \in [Workers -> PCs] /\ good' \in [Workers -> BOOLEAN]
         /\ desired' \in [Workers -> 0..MaxRev] /\ pass' \in [Workers -> 1..MaxPasses]
  BY ReconcileAssumption, StoreAssumption DEF WorkersTypeOK, Conclude, Goto, PCs, Writing

\* Following a newer revision keeps the types of the workers' state.
LEMMA OvertakenType ==
  ASSUME TypeOK, NEW w \in Workers, Overtaken(w)
  PROVE  /\ pc' \in [Workers -> PCs] /\ good' \in [Workers -> BOOLEAN]
         /\ desired' \in [Workers -> 0..MaxRev] /\ pass' \in [Workers -> 1..MaxPasses]
  <1> USE StoreAssumption, ReconcileAssumption DEF TypeOK, WorkersTypeOK
  <1>1. pc' \in [Workers -> PCs]
    BY Zenon, GotoType DEF Overtaken, NextPass, PCs, Writing
  <1>2. desired' \in [Workers -> 0..MaxRev]
    BY Zenon DEF Overtaken, NextPass, StoreTypeOK, Resource
  <1>3. pass' \in [Workers -> 1..MaxPasses]
    BY DEF Overtaken, NextPass
  <1>4. good' \in [Workers -> BOOLEAN]
    BY Zenon DEF Overtaken
  <1> QED BY Zenon, <1>1, <1>2, <1>3, <1>4

\* A renderer call leaves rows of some revision, or none.
LEMMA RendererCallType ==
  ASSUME TypeOK, NEW r \in 0..MaxRev, NEW ok \in BOOLEAN, RendererCall(r, ok)
  PROVE  ovn' \in 0..MaxRev /\ faults' \in Nat
  BY DEF TypeOK, RendererCall, Fault

\* Every step keeps every type.
LEMMA TypeStep == TypeOK /\ [Next]_vars => TypeOK'
<1> SUFFICES ASSUME TypeOK, [Next]_vars PROVE TypeOK'
  OBVIOUS
<1> USE StoreAssumption, ReconcileAssumption
    DEF TypeOK, StoreTypeOK, WorkersTypeOK, Resource, Meta, storeVars, local, history
<1>1. CASE UserCreate
  BY <1>1 DEF UserCreate, Create
<1>2. CASE UserUpdate
  BY <1>2 DEF UserUpdate, Update
<1>3. ASSUME NEW w \in Workers, UserDelete(w) PROVE TypeOK'
  <2>1. StoreTypeOK' /\ target' \in [Workers -> 0..MaxRev]
    BY <1>3 DEF UserDelete, BeginDelete
  <2>2. pc' \in [Workers -> PCs]
    BY Zenon, <1>3, GotoType DEF UserDelete, PCs
  <2> QED BY Zenon, <1>3, <2>1, <2>2 DEF UserDelete
<1>4. CASE Recover
  <2>1. ops' \in [Revs -> Operation] /\ seen' \in [Workers -> SUBSET (0..MaxRev)]
    BY Zenon, <1>4, RecoverType DEF Recover
  <2> QED BY Zenon, <1>4, <2>1 DEF Recover, RecoverExpiredOperations
<1>5. CASE Prune
  <2>1. PICK K \in SUBSET Prunable : Write(Nobody, [j \in K |-> NoOp])
    BY Zenon, <1>5 DEF Prune, PruneOperations
  <2>2. ops' \in [Revs -> Operation] /\ seen' \in [Workers -> SUBSET (0..MaxRev)]
    <3> DEFINE new == [j \in K |-> NoOp]
    <3>1. DOMAIN new \subseteq 0..MaxRev /\ \A j \in Revs : j \in DOMAIN new => new[j] \in Operation
      BY DEF NoOp, Operation, Prunable, Revs
    <3>2. Write(Nobody, new)
      BY Zenon, <2>1
    <3> HIDE DEF new
    <3> QED BY Zenon, <3>1, <3>2, WriteType
  <2> QED BY Zenon, <1>5, <2>2 DEF Prune, PruneOperations
<1>6. ASSUME NEW k \in Revs, Expire(k) \/ Stall(k) PROVE TypeOK'
  <2>1. ops' \in [Revs -> Operation]
    <3>1. Stored(k, "running", ops[k].owner, FALSE) \in Operation
      BY Zenon, StoredType DEF Operation
    <3> QED BY Zenon, <1>6, <3>1 DEF Expire, Stall, RunOut
  <2>2. faults' \in Nat
    BY <1>6 DEF Expire, Stall, Fault
  <2> QED BY Zenon, <1>6, <2>1, <2>2 DEF Expire, Stall, RunOut
<1>7. ASSUME NEW w \in Workers, NEW m \in Modes, Attempt(w, m) PROVE TypeOK'
  <2>1. CASE ReturnOnly(w)
    BY Zenon, <2>1, ReturnOnlyType
  <2>2. CASE ~ReturnOnly(w)
    <3>1. pc' \in [Workers -> PCs]
      BY Zenon, <1>7, <2>2, GotoType DEF Attempt, PCs
    <3>2. mode' \in [Workers -> {"plain", "audit", "forced"}] /\ target' \in [Workers -> 0..MaxRev]
      BY <1>7, <2>2 DEF Attempt, Modes
    <3>3. snap' \in [Workers -> BOOLEAN]
      <4>1. PICK b \in BOOLEAN : snap' = [snap EXCEPT ![w] = b]
        BY <1>7, <2>2, Zenon DEF Attempt
      <4> QED BY Zenon, <4>1
    <3> QED BY Zenon, <1>7, <2>2, <3>1, <3>2, <3>3 DEF Attempt
  <2> QED BY Zenon, <2>1, <2>2
<1>8. ASSUME NEW w \in Workers, CreateReconcile(w) \/ CreateDelete(w) PROVE TypeOK'
  <2>1. CASE ReturnOnly(w)
    BY Zenon, <2>1, ReturnOnlyType
  <2>2. CASE ~ReturnOnly(w)
    <3>1. ops' \in [Revs -> Operation] /\ seen' \in [Workers -> SUBSET (0..MaxRev)]
      BY Zenon, <1>8, <2>2, QueueType, ReadType DEF CreateReconcile, CreateDelete
    <3>2. pc' \in [Workers -> PCs]
      BY Zenon, <1>8, <2>2, GotoType DEF CreateReconcile, CreateDelete, PCs
    <3> QED BY Zenon, <1>8, <2>2, <3>1, <3>2 DEF CreateReconcile, CreateDelete
  <2> QED BY Zenon, <2>1, <2>2
<1>9. ASSUME NEW w \in Workers, ClaimReconcile(w) \/ ClaimDelete(w) PROVE TypeOK'
  <2>1. CASE ReturnOnly(w)
    BY Zenon, <2>1, ReturnOnlyType
  <2>2. CASE ~ReturnOnly(w) /\ Claim(w, target[w])
    <3>1. ops' \in [Revs -> Operation] /\ seen' \in [Workers -> SUBSET (0..MaxRev)]
      BY Zenon, <2>2, ClaimType
    <3>2. pc' \in [Workers -> PCs]
      BY Zenon, <1>9, <2>2, GotoType DEF ClaimReconcile, ClaimDelete, PCs, Writing
    <3>3. CASE ClaimReconcile(w)
      <4>1. /\ desired' \in [Workers -> 0..MaxRev]
            /\ mode' \in [Workers -> {"plain", "audit", "forced"}]
        BY <2>2, <3>3 DEF ClaimReconcile
      <4>2. snap' \in [Workers -> BOOLEAN]
        BY Zenon, <2>2, <3>3 DEF ClaimReconcile
      <4>3. UNCHANGED <<res, lives, ovn, target, recovered, good, pass, faults, history>>
        BY Zenon, <2>2, <3>3 DEF ClaimReconcile
      <4> QED BY Zenon, <3>1, <3>2, <4>1, <4>2, <4>3
    <3>4. CASE ClaimDelete(w)
      BY Zenon, <2>2, <3>1, <3>2, <3>4 DEF ClaimDelete
    <3> QED BY Zenon, <1>9, <3>3, <3>4
  <2>3. CASE ~ReturnOnly(w) /\ ~Claim(w, target[w])
    BY Zenon, <1>9, <2>3, GotoType DEF ClaimReconcile, ClaimDelete, PCs
  <2> QED BY Zenon, <2>1, <2>2, <2>3
<1>10. ASSUME NEW w \in Workers, Wait(w) \/ Accept(w) PROVE TypeOK'
  <2>1. CASE ReturnOnly(w)
    BY Zenon, <2>1, ReturnOnlyType
  <2>2. CASE ~ReturnOnly(w)
    BY Zenon, <1>10, <2>2, GotoType DEF Wait, Accept, PCs
  <2> QED BY Zenon, <2>1, <2>2
<1>11. ASSUME NEW w \in Workers, SkipFresh(w) \/ HeartbeatLost(w) PROVE TypeOK'
  BY Zenon, <1>11, ReturnOnlyType DEF SkipFresh, HeartbeatLost
<1>12. ASSUME NEW w \in Workers, Remark(w) \/ Purge(w) \/ Crash(w) PROVE TypeOK'
  <2>1. WorkersTypeOK'
    BY Zenon, <1>12, ReturnType DEF Remark, Purge, Crash
  <2>2. StoreTypeOK'
    BY <1>12 DEF Remark, Purge, Crash, Forget, Marked, Absent
  <2>3. faults' \in Nat
    <3>1. CASE Crash(w)
      BY <3>1 DEF Crash, Fault
    <3>2. CASE Remark(w) \/ Purge(w)
      BY Zenon, <3>2 DEF Remark, Purge
    <3> QED BY Zenon, <1>12, <3>1, <3>2
  <2> QED BY Zenon, <1>12, <2>1, <2>2, <2>3 DEF Remark, Purge, Crash
<1>13. ASSUME NEW w \in Workers, Render(w) PROVE TypeOK'
  <2>1. PICK ok \in BOOLEAN : /\ RendererCall(desired[w], ok)
                              /\ good' = [good EXCEPT ![w] = ok]
                              /\ rendered' = IF ok THEN rendered \cup {desired[w]} ELSE rendered
    BY Zenon, <1>13 DEF Render
  <2>2. ovn' \in 0..MaxRev /\ faults' \in Nat
    BY <2>1, RendererCallType
  <2>3. pc' \in [Workers -> PCs]
    BY Zenon, <1>13, GotoType DEF Render, PCs, Writing
  <2>4. rendered' \in SUBSET (0..MaxRev) /\ late' \in SUBSET (0..MaxRev)
    <3>1. rendered' \subseteq rendered \cup {desired[w]}
      BY Zenon, <2>1
    <3>2. late' \subseteq late \cup {desired[w]}
      BY Zenon, <1>13 DEF Render
    <3> QED BY <3>1, <3>2
  <2> QED BY Zenon, <1>13, <2>1, <2>2, <2>3, <2>4 DEF Render
<1>14. ASSUME NEW w \in Workers, Reload(w) PROVE TypeOK'
  <2>1. CASE Overtaken(w)
    BY Zenon, <1>14, <2>1, OvertakenType DEF Reload
  <2>2. CASE ~Overtaken(w)
    BY Zenon, <1>14, <2>2, GotoType DEF Reload, PCs, Writing
  <2> QED BY Zenon, <2>1, <2>2
<1>15. ASSUME NEW w \in Workers, Confirm(w) PROVE TypeOK'
  <2>1. CASE Overtaken(w)
    BY Zenon, <1>15, <2>1, OvertakenType DEF Confirm
  <2>2. CASE ~Overtaken(w)
    BY Zenon, <1>15, <2>2, ConcludeType DEF Confirm
  <2> QED BY Zenon, <2>1, <2>2
<1>16. ASSUME NEW w \in Workers, Mark(w) \/ Limit(w) PROVE TypeOK'
  <2>1. res' \in Resource
    <3>1. \A r \in 0..MaxRev, ok \in BOOLEAN : Marked(r, ok) \in Resource
      BY Zenon DEF Marked
    <3>2. res' = res \/ \E r \in 0..MaxRev, ok \in BOOLEAN : res' = Marked(r, ok)
      BY Zenon, <1>16 DEF Mark, Limit
    <3> HIDE DEF Resource
    <3> QED BY <3>1, <3>2
  <2>2. CASE Conclude(w, FALSE)
    BY Zenon, <1>16, <2>1, <2>2, ConcludeType DEF Mark, Limit
  <2>3. CASE ~Conclude(w, FALSE)
    BY Zenon, <1>16, <2>1, <2>3, GotoType DEF Mark, Limit, PCs, Writing
  <2> QED BY Zenon, <2>2, <2>3
<1>17. ASSUME NEW w \in Workers, Erase(w) PROVE TypeOK'
  <2>1. PICK ok \in BOOLEAN : RendererCall(0, ok) /\ Conclude(w, ok)
    BY Zenon, <1>17 DEF Erase
  <2>2. ovn' \in 0..MaxRev /\ faults' \in Nat
    BY <2>1, RendererCallType
  <2> QED BY <1>17, <2>1, <2>2, ConcludeType DEF Erase
<1>18. ASSUME NEW w \in Workers, Complete(w) PROVE TypeOK'
  <2>1. CASE ReturnOnly(w)
    BY Zenon, <2>1, ReturnOnlyType
  <2>2. CASE ~ReturnOnly(w)
    <3>1. ops' \in [Revs -> Operation] /\ seen' \in [Workers -> SUBSET (0..MaxRev)]
      <4>1. Finish(target[w], good[w])
        BY Zenon, <1>18, <2>2 DEF Complete
      <4> QED BY <4>1, FinishType
    <3>2. WorkersTypeOK'
      <4>1. CASE Return(w)
        BY Zenon, <4>1, ReturnType
      <4>2. CASE ~Return(w)
        BY Zenon, <1>18, <2>2, <4>2, GotoType DEF Complete, PCs
      <4> QED BY Zenon, <4>1, <4>2
    <3> QED BY Zenon, <1>18, <2>2, <3>1, <3>2 DEF Complete
  <2> QED BY Zenon, <2>1, <2>2
<1>19. ASSUME NEW w \in Workers, Fence(w) PROVE TypeOK'
  <2>1. ops' \in [Revs -> Operation] /\ seen' \in [Workers -> SUBSET (0..MaxRev)]
    BY Zenon, <1>19, FenceType DEF Fence
  <2>2. WorkersTypeOK'
    <3>1. CASE Return(w)
      BY Zenon, <3>1, ReturnType
    <3>2. CASE ~Return(w)
      BY Zenon, <1>19, <3>2, GotoType DEF Fence, PCs
    <3> QED BY Zenon, <3>1, <3>2
  <2> QED BY Zenon, <1>19, <2>1, <2>2 DEF Fence
<1>20. ASSUME NEW w \in Workers, HeartbeatRenew(w) PROVE TypeOK'
  <2>1. ops' \in [Revs -> Operation] /\ seen' \in [Workers -> SUBSET (0..MaxRev)]
    BY Zenon, <1>20, RenewType DEF HeartbeatRenew
  <2> QED BY Zenon, <1>20, <2>1 DEF HeartbeatRenew
<1>21. ASSUME NEW w \in Workers, StoreError(w) PROVE TypeOK'
  <2>1. faults' \in Nat
    BY <1>21 DEF StoreError, Fault
  <2> QED BY Zenon, <1>21, <2>1, ConcludeType DEF StoreError
<1>22. CASE UNCHANGED vars
  BY Zenon, <1>22 DEF vars
<1> QED
  BY ZenonT(60), <1>1, <1>2, <1>3, <1>4, <1>5, <1>6, <1>7, <1>8, <1>9, <1>10, <1>11, <1>12, <1>13, <1>14,
     <1>15, <1>16, <1>17, <1>18, <1>19, <1>20, <1>21, <1>22
  DEF Next, WorkerStep, AttemptStep, WriterStep, DeleteStep, Get, Retry, Modes

\* Store, workers, rows and history have the types TypeOK gives them in every
\* reachable state, for any workers and any bounds.
THEOREM TypeCorrect == Spec => []TypeOK
<1>1. Init => TypeOK
  BY StoreAssumption, ReconcileAssumption
  DEF Init, StoreInit, TypeOK, StoreTypeOK, WorkersTypeOK, Absent, Meta, NoOp, Resource, Operation, Revs, PCs
<1> QED
  BY <1>1, TypeStep, PTL DEF Spec

-----------------------------------------------------------------------------
(* What each store call does to the operations and to what workers know.   *)

Queued(act) == [act |-> act, status |-> "queued", owner |-> Nobody, live |-> FALSE]

\* Operation j becomes rec and only w still knows it; nothing else changes.
Puts(w, j, rec) == /\ ops' = [k \in Revs |-> IF k = j THEN rec ELSE ops[k]]
                   /\ \A v \in Workers : seen'[v] = IF v = w THEN seen[v] \cup {j} ELSE seen[v] \ {j}

\* A Write of one record puts it.
LEMMA WriteOne ==
  ASSUME NEW w, NEW j, NEW rec, Write(w, [i \in {j} |-> rec])
  PROVE  Puts(w, j, rec)
  BY Zenon DEF Write, Puts

\* The same for a record that keeps its operation's action.
LEMMA WriteStored ==
  ASSUME NEW w, NEW j, NEW s, NEW o, NEW l, Write(w, [i \in {j} |-> Stored(i, s, o, l)])
  PROVE  Puts(w, j, Stored(j, s, o, l))
  BY Zenon DEF Write, Puts

\* Create of an operation stores it as queued.
LEMMA QueuePuts ==
  ASSUME NEW w, NEW k, NEW act, Queue(w, k, act)
  PROVE  Puts(w, k, Queued(act))
  BY Zenon, WriteOne DEF Queue, Queued

\* A claim and a renewal store the caller as the owner of a live lease.
LEMMA ClaimPuts ==
  ASSUME NEW w, NEW k, Claim(w, k) \/ Renew(w, k)
  PROVE  Puts(w, k, Stored(k, "running", w, TRUE))
  BY Zenon, WriteStored DEF Claim, Renew

\* The terminal Update of completeOperation stores the outcome, with no owner.
LEMMA FinishPuts ==
  ASSUME NEW k, NEW ok \in BOOLEAN, Finish(k, ok)
  PROVE  Puts(Nobody, k, Stored(k, IF ok THEN "succeeded" ELSE "failed", Nobody, FALSE))
  BY Zenon, WriteStored DEF Finish, Ended

\* Operations K become terminal failures and nobody knows them any more.
Fails(K) == /\ ops' = [k \in Revs |-> IF k \in K THEN Stored(k, "failed", Nobody, FALSE) ELSE ops[k]]
            /\ \A v \in Workers : seen'[v] = seen[v] \ K

\* FenceReconciles and RecoverExpiredOperations fail what they selected.
LEMMA WriteFailed ==
  ASSUME NEW K, Write(Nobody, [j \in K |-> Ended(j, "failed")])
  PROVE  Fails(K)
  BY Zenon, StoreAssumption DEF Write, Fails, Ended

-----------------------------------------------------------------------------
(* What a step can do to one operation.                                    *)

Running(k) == ops[k].act = "reconcile" /\ ops[k].status = "running"

\* w holds the claim it is about to complete successfully.
Succeeds(w, k) == /\ pc[w] = "complete" /\ good[w] /\ target[w] = k /\ HoldsClaim(w, k)
                  /\ UNCHANGED <<res, ovn, rendered, late>>

\* The owner of operation k completes it.
Completes(w, k) == w = ops[k].owner /\ pc[w] = "complete" /\ target[w] = k /\ pc'[w] # "complete"

\* Only a worker on revision k brings operation k to life; only CreateDelete makes
\* it a delete; only ClaimReconcile, which refuses a tombstone, starts a
\* reconcile; only its owner's completion makes it succeed or ends its live lease.
OpRule(k) ==
  /\ ops[k] = NoOp /\ ops'[k] # NoOp => \E w \in Workers : pc[w] # "idle" /\ target[w] = k
  /\ ops'[k].status = "none" <=> ops'[k].act = "none"
  /\ ops'[k].act = "delete" /\ ops[k].act # "delete"
     => \E w \in Workers : pc[w] = "dcreate" /\ target[w] = k
  /\ ops'[k].act = "reconcile" /\ ops'[k].status = "running" /\ ~Running(k)
     => res.state \notin {"absent", "deleting"}
  /\ ops'[k].status = "succeeded"
     => /\ ops'[k].act = ops[k].act
        /\ ops[k].status = "succeeded" \/ \E w \in Workers : Succeeds(w, k)
  /\ LeaseIsLive(k) => \/ ops'[k].status = "running" /\ ops'[k].owner = ops[k].owner
                       \/ \E w \in Workers : Completes(w, k)

\* An operation nobody writes obeys the rule.
LEMMA OpSame == ASSUME OpShape, NEW k \in Revs, ops'[k] = ops[k] PROVE OpRule(k)
  BY Zenon DEF OpRule, OpShape, Running, LeaseIsLive

\* Every step obeys the rule on every operation.
LEMMA OpsStep ==
  ASSUME TypeOK, OpShape, [Next]_vars, NEW k \in Revs
  PROVE  OpRule(k)
<1> USE DEF OpShape, OpRule, Running, LeaseIsLive
<1>1. CASE UNCHANGED ops
  BY Zenon, <1>1, OpSame
<1>2. ASSUME NEW w \in Workers, NEW act \in {"reconcile", "delete"}, Queue(w, target[w], act),
             ops[target[w]].status = "none", pc[w] = IF act = "delete" THEN "dcreate" ELSE "create"
      PROVE  OpRule(k)
  <2>1. ops'[k] = IF k = target[w] THEN Queued(act) ELSE ops[k]
    BY <1>2, QueuePuts DEF Puts
  <2> QED BY <1>2, <2>1 DEF Queued
<1>3. ASSUME NEW w \in Workers, Claim(w, target[w]) \/ Renew(w, target[w]), pc[w] # "idle",
             \/ RenewAllowed(w, target[w])
             \/ ClaimAllowed(w, target[w], "delete")
             \/ ClaimAllowed(w, target[w], "reconcile")
      PROVE  OpRule(k)
  <2>1. ops'[k] = IF k = target[w] THEN Stored(target[w], "running", w, TRUE) ELSE ops[k]
    <3>1. Puts(w, target[w], Stored(target[w], "running", w, TRUE))
      BY Zenon, <1>3, ClaimPuts
    <3> QED BY Zenon, <3>1 DEF Puts
  <2>2. CASE k # target[w]
    BY Zenon, <2>1, <2>2, OpSame
  <2>3. CASE k = target[w]
    <3>1. ops[k].act # "none"
      BY Zenon, <1>3, <2>3 DEF RenewAllowed, HoldsClaim, ClaimAllowed
    <3>2. ~Running(k) /\ ops[k].act = "reconcile" => res.state \notin {"absent", "deleting"}
      BY Zenon, <1>3, <2>3 DEF RenewAllowed, HoldsClaim, ClaimAllowed, OperationTargetClaimable
    <3>3. LeaseIsLive(k) => ops[k].owner = w
      BY Zenon, <1>3, <2>3 DEF RenewAllowed, HoldsClaim, ClaimAllowed
    <3> QED BY <1>3, <2>1, <2>3, <3>1, <3>2, <3>3 DEF Stored
  <2> QED BY Zenon, <2>2, <2>3
<1>4. ASSUME NEW K \in SUBSET Revs, Fails(K), \A j \in K : ops[j].status # "none" /\ ~LeaseIsLive(j)
      PROVE  OpRule(k)
  <2>1. ops'[k] = IF k \in K THEN Stored(k, "failed", Nobody, FALSE) ELSE ops[k]
    BY Zenon, <1>4 DEF Fails
  <2> QED BY <1>4, <2>1 DEF Stored, NoOp
<1>5. CASE Recover
  <2>1. Fails(Recoverable)
    BY Zenon, <1>5, WriteFailed DEF Recover, RecoverExpiredOperations
  <2> QED BY Zenon, <1>4, <2>1 DEF Recoverable
<1>6. CASE Prune
  <2>1. PICK K \in SUBSET Prunable : Write(Nobody, [j \in K |-> NoOp])
    BY Zenon, <1>6 DEF Prune, PruneOperations
  <2>2. ops'[k] = IF k \in K THEN NoOp ELSE ops[k]
    BY Zenon, <2>1 DEF Write
  <2> QED BY <2>2 DEF NoOp, Prunable
<1>7. ASSUME NEW j \in Revs, RunOut(j) PROVE OpRule(k)
  <2>1. ops'[k] = IF k = j THEN Stored(k, "running", ops[k].owner, FALSE) ELSE ops[k]
    BY Zenon, <1>7 DEF RunOut, TypeOK, StoreTypeOK
  <2> QED BY <1>7, <2>1 DEF Stored, RunOut, LeaseIsLive, NoOp
<1>8. ASSUME NEW w \in Workers, CreateReconcile(w) PROVE OpRule(k)
  BY Zenon, <1>8, <1>1, <1>2 DEF CreateReconcile, Read, ReturnOnly
<1>9. ASSUME NEW w \in Workers, CreateDelete(w) PROVE OpRule(k)
  BY Zenon, <1>9, <1>1, <1>2 DEF CreateDelete, Read, ReturnOnly
<1>10. ASSUME NEW w \in Workers, ClaimReconcile(w) PROVE OpRule(k)
  BY Zenon, <1>10, <1>1, <1>3 DEF ClaimReconcile, ReturnOnly, storeVars
<1>11. ASSUME NEW w \in Workers, ClaimDelete(w) PROVE OpRule(k)
  BY Zenon, <1>11, <1>1, <1>3 DEF ClaimDelete, ReturnOnly
<1>12. ASSUME NEW w \in Workers, HeartbeatRenew(w) PROVE OpRule(k)
  BY Zenon, <1>12, <1>3 DEF HeartbeatRenew, Writing
<1>13. ASSUME NEW w \in Workers, Complete(w) PROVE OpRule(k)
  <2>1. CASE UNCHANGED ops
    BY Zenon, <2>1, <1>1
  <2>2. CASE ~UNCHANGED ops
    <3>1. /\ pc[w] = "complete" /\ HoldsClaim(w, target[w]) /\ Finish(target[w], good[w])
          /\ UNCHANGED <<res, ovn, rendered, late>>
      BY Zenon, <1>13, <2>2 DEF Complete, ReturnOnly, history
    <3>0. pc'[w] # "complete"
      BY Zenon, <1>13 DEF Complete, ReturnOnly, Return, Goto, TypeOK, WorkersTypeOK
    <3>2. good[w] \in BOOLEAN
      BY Zenon DEF TypeOK, WorkersTypeOK
    <3>3. ops'[k] = IF k = target[w]
                    THEN Stored(target[w], IF good[w] THEN "succeeded" ELSE "failed", Nobody, FALSE)
                    ELSE ops[k]
      <4>1. Puts(Nobody, target[w], Stored(target[w], IF good[w] THEN "succeeded" ELSE "failed", Nobody, FALSE))
        BY Zenon, <3>1, <3>2, FinishPuts
      <4> QED BY Zenon, <4>1 DEF Puts
    <3>4. CASE k # target[w]
      BY Zenon, <3>3, <3>4, OpSame
    <3>5. CASE k = target[w]
      BY <3>0, <3>1, <3>2, <3>3, <3>5 DEF Stored, HoldsClaim, Succeeds, Completes
    <3> QED BY Zenon, <3>4, <3>5
  <2> QED BY Zenon, <2>1, <2>2
<1>14. ASSUME NEW w \in Workers, Fence(w) PROVE OpRule(k)
  <2>1. Fails(ExpiredReconciles)
    BY Zenon, <1>14, WriteFailed DEF Fence, FenceReconciles
  <2> QED BY Zenon, <1>4, <2>1 DEF ExpiredReconciles
<1>15. ASSUME NEW w \in Workers, NEW m, Attempt(w, m) PROVE UNCHANGED ops
  BY Zenon, <1>15 DEF Attempt, ReturnOnly, storeVars
<1>16. ASSUME NEW w \in Workers,
              \/ SkipFresh(w) \/ Remark(w) \/ Wait(w) \/ Accept(w) \/ Purge(w)
              \/ HeartbeatLost(w) \/ Crash(w) \/ UserDelete(w)
       PROVE  UNCHANGED ops
  BY Zenon, <1>16 DEF SkipFresh, Remark, Wait, Accept, Purge, HeartbeatLost, Crash, UserDelete, BeginDelete,
               ReturnOnly, storeVars
<1>17. ASSUME NEW w \in Workers,
              \/ Render(w) \/ Reload(w) \/ Mark(w) \/ Confirm(w) \/ Limit(w) \/ Erase(w) \/ StoreError(w)
       PROVE  UNCHANGED ops
  BY Zenon, <1>17 DEF Render, Reload, Mark, Confirm, Limit, Erase, StoreError, storeVars
<1>18. ASSUME UserCreate \/ UserUpdate \/ UNCHANGED vars PROVE UNCHANGED ops
  BY Zenon, <1>18 DEF UserCreate, UserUpdate, Create, Update, vars, storeVars
<1> HIDE DEF OpShape, OpRule, Running, LeaseIsLive
<1> QED
  BY Zenon, <1>1, <1>5, <1>6, <1>7, <1>8, <1>9, <1>10, <1>11, <1>12, <1>13, <1>14, <1>15, <1>16, <1>17, <1>18
  DEF Next, WorkerStep, AttemptStep, WriterStep, DeleteStep, Get, Retry, Expire, Stall

-----------------------------------------------------------------------------
(* What a step of one worker leaves alone in the others.                   *)

Move(w) == \/ UserDelete(w) \/ (\E m \in Modes : Get(w, m)) \/ WorkerStep(w)
           \/ HeartbeatRenew(w) \/ HeartbeatLost(w) \/ StoreError(w) \/ Crash(w)

Environment == \/ UserCreate \/ UserUpdate \/ Recover \/ Prune
               \/ (\E k \in Revs : Expire(k) \/ Stall(k)) \/ UNCHANGED vars

Same(v) == pc'[v] = pc[v] /\ target'[v] = target[v] /\ desired'[v] = desired[v] /\ good'[v] = good[v]

\* What v still knows afterwards it knew before, and it did not change.
Knows(v) == \A k \in Revs : k \in seen'[v] =>
              /\ k \in seen[v]
              /\ ops'[k].act = ops[k].act /\ ops'[k].status = ops[k].status /\ ops'[k].owner = ops[k].owner

\* Every step is the environment's or one worker's.
LEMMA StepOf == [Next]_vars => Environment \/ \E w \in Workers : Move(w)
  BY Zenon DEF Next, Environment, Move

\* A workflow that returns touches no other workflow.
LEMMA ReturnFrame ==
  ASSUME WorkersTypeOK, NEW w \in Workers, Return(w)
  PROVE  pc'[w] = "idle" /\ \A v \in Workers \ {w} : Same(v)
  BY Zenon DEF WorkersTypeOK, Return, Goto, Same

\* Forgetting teaches nobody anything.
LEMMA ForgetFrame ==
  ASSUME StoreTypeOK, NEW w \in Workers, Forget(w), UNCHANGED ops
  PROVE  \A v \in Workers : Knows(v)
  BY Zenon DEF StoreTypeOK, Forget, Knows

\* A read teaches only its reader.
LEMMA ReadFrame ==
  ASSUME StoreTypeOK, NEW w \in Workers, NEW k, Read(w, k)
  PROVE  \A v \in Workers \ {w} : Knows(v)
  BY Zenon DEF StoreTypeOK, Read, Knows

\* A write takes the operation it moved from everybody but its writer.
LEMMA PutsFrame ==
  ASSUME NEW w, NEW k, NEW rec, Puts(w, k, rec)
  PROVE  \A v \in Workers \ {w} : Knows(v)
  BY Zenon DEF Puts, Knows

\* So does a fence or a recovery, from everybody.
LEMMA FailsFrame == ASSUME NEW K, Fails(K) PROVE \A v \in Workers : Knows(v)
  BY Zenon DEF Fails, Knows

\* A bare return touches no other workflow and no operation.
LEMMA ReturnOnlyFrame ==
  ASSUME TypeOK, NEW w \in Workers, ReturnOnly(w)
  PROVE  /\ pc'[w] = "idle" /\ \A v \in Workers \ {w} : Same(v)
         /\ \A v \in Workers : Knows(v)
  BY Zenon, ReturnFrame, ForgetFrame DEF TypeOK, ReturnOnly

\* The end of the work is the acting worker's alone.
LEMMA ConcludeFrame ==
  ASSUME WorkersTypeOK, NEW w \in Workers, NEW ok, Conclude(w, ok), UNCHANGED target
  PROVE  pc'[w] = "complete" /\ good'[w] = ok /\ \A v \in Workers \ {w} : Same(v)
  BY Zenon DEF WorkersTypeOK, Conclude, Goto, Same

\* So is following a newer revision.
LEMMA OvertakenFrame ==
  ASSUME WorkersTypeOK, NEW w \in Workers, Overtaken(w), UNCHANGED target
  PROVE  \A v \in Workers \ {w} : Same(v)
  BY Zenon DEF WorkersTypeOK, Overtaken, NextPass, Goto, Same

\* So is any other step inside a workflow.
LEMMA GotoFrame ==
  ASSUME WorkersTypeOK, NEW w \in Workers, NEW l, Goto(w, l), UNCHANGED <<target, desired, good>>
  PROVE  pc'[w] = l /\ \A v \in Workers \ {w} : Same(v)
  BY Zenon DEF WorkersTypeOK, Goto, Same

\* Where no operation is written, nobody loses or gains knowledge.
LEMMA NothingKnown == ASSUME UNCHANGED <<ops, seen>> PROVE \A v \in Workers : Knows(v)
  BY Zenon DEF Knows

\* User, housekeeping and time move no worker and teach it nothing.
LEMMA EnvironmentFrame ==
  ASSUME TypeOK, Environment
  PROVE  \A v \in Workers : Same(v) /\ Knows(v)
<1>1. CASE UserCreate \/ UserUpdate \/ UNCHANGED vars
  BY Zenon, <1>1, NothingKnown DEF UserCreate, UserUpdate, Create, Update, vars, storeVars, local, Same
<1>2. CASE Recover
  BY Zenon, <1>2, WriteFailed, FailsFrame DEF Recover, RecoverExpiredOperations, local, Same
<1>3. CASE Prune
  <2>1. PICK K \in SUBSET Prunable : Write(Nobody, [j \in K |-> NoOp])
    BY Zenon, <1>3 DEF Prune, PruneOperations
  <2>2. \A v \in Workers : Knows(v)
    BY Zenon, <2>1, StoreAssumption DEF Write, Knows
  <2> QED BY Zenon, <1>3, <2>2 DEF Prune, local, Same
<1>4. ASSUME NEW k \in Revs, RunOut(k) PROVE \A v \in Workers : Same(v) /\ Knows(v)
  BY Zenon, <1>4 DEF RunOut, Stored, LeaseIsLive, TypeOK, StoreTypeOK, local, Same, Knows
<1> QED BY Zenon, <1>1, <1>2, <1>3, <1>4 DEF Environment, Expire, Stall

\* A step of w leaves every other worker where it is and teaches it nothing.
LEMMA MoveFrame ==
  ASSUME TypeOK, NEW w \in Workers, Move(w)
  PROVE  \A v \in Workers \ {w} : Same(v) /\ Knows(v)
<1> DEFINE Frame == \A v \in Workers \ {w} : Same(v) /\ Knows(v)
<1> USE DEF TypeOK, local, storeVars
<1>1. CASE ReturnOnly(w)
  BY Zenon, <1>1, ReturnOnlyFrame
<1>2. ASSUME Return(w), Forget(w), UNCHANGED ops PROVE Frame
  BY Zenon, <1>2, ReturnFrame, ForgetFrame
<1>3. CASE UserDelete(w)
  BY Zenon, <1>3, NothingKnown DEF UserDelete, BeginDelete, WorkersTypeOK, Goto, Same
<1>4. ASSUME NEW m, Attempt(w, m) PROVE Frame
  BY Zenon, <1>4, <1>1, NothingKnown DEF Attempt, WorkersTypeOK, Goto, Same
<1>5. CASE CreateReconcile(w)
  BY <1>5, <1>1, QueuePuts, PutsFrame, ReadFrame, GotoFrame DEF CreateReconcile
<1>6. CASE CreateDelete(w)
  BY <1>6, <1>1, QueuePuts, PutsFrame, ReadFrame, GotoFrame DEF CreateDelete
<1>7. CASE ClaimReconcile(w)
  <2>1. CASE Claim(w, target[w])
    <3>1. \A v \in Workers \ {w} : Knows(v)
      BY Zenon, <2>1, ClaimPuts, PutsFrame
    <3> QED BY Zenon, <1>7, <1>1, <3>1 DEF ClaimReconcile, WorkersTypeOK, Goto, Same
  <2>2. CASE ~Claim(w, target[w])
    BY Zenon, <1>7, <1>1, <2>2, NothingKnown, GotoFrame DEF ClaimReconcile
  <2> QED BY Zenon, <2>1, <2>2
<1>8. CASE ClaimDelete(w)
  <2>1. CASE Claim(w, target[w])
    <3>1. \A v \in Workers \ {w} : Knows(v)
      BY Zenon, <2>1, ClaimPuts, PutsFrame
    <3> QED BY Zenon, <1>8, <1>1, <3>1, GotoFrame DEF ClaimDelete
  <2>2. CASE ~Claim(w, target[w])
    BY Zenon, <1>8, <1>1, <2>2 DEF ClaimDelete
  <2> QED BY Zenon, <2>1, <2>2
<1>9. CASE SkipFresh(w) \/ HeartbeatLost(w)
  BY Zenon, <1>9, <1>1 DEF SkipFresh, HeartbeatLost
<1>10. CASE Wait(w) \/ Accept(w)
  BY Zenon, <1>10, <1>1, NothingKnown, GotoFrame DEF Wait, Accept
<1>11. CASE Remark(w) \/ Purge(w) \/ Crash(w)
  BY Zenon, <1>11, <1>2 DEF Remark, Purge, Crash
<1>12. CASE Render(w)
  BY Zenon, <1>12, NothingKnown DEF Render, WorkersTypeOK, Goto, Same
<1>13. CASE Reload(w)
  BY Zenon, <1>13, NothingKnown, OvertakenFrame, GotoFrame DEF Reload
<1>14. CASE Confirm(w)
  BY Zenon, <1>14, NothingKnown, OvertakenFrame, ConcludeFrame DEF Confirm
<1>15. CASE Mark(w)
  BY Zenon, <1>15, NothingKnown, ConcludeFrame, GotoFrame DEF Mark
<1>16. CASE Limit(w) \/ Erase(w) \/ StoreError(w)
  BY Zenon, <1>16, NothingKnown, ConcludeFrame DEF Limit, Erase, StoreError
<1>17. CASE Complete(w)
  <2>1. CASE ReturnOnly(w)
    BY Zenon, <2>1, <1>1
  <2>2. CASE ~ReturnOnly(w)
    <3>1. Finish(target[w], good[w])
      BY Zenon, <1>17, <2>2 DEF Complete
    <3>2. \A v \in Workers : Knows(v)
      <4>1. good[w] \in BOOLEAN
        BY Zenon DEF WorkersTypeOK
      <4>2. \A v \in Workers \ {Nobody} : Knows(v)
        BY Zenon, <3>1, <4>1, FinishPuts, PutsFrame
      <4> QED BY Zenon, <4>2, StoreAssumption
    <3>3. Return(w) \/ (Goto(w, "purge") /\ UNCHANGED <<target, desired, good>>)
      BY Zenon, <1>17, <2>2 DEF Complete
    <3> QED BY Zenon, <3>2, <3>3, ReturnFrame, GotoFrame
  <2> QED BY Zenon, <2>1, <2>2
<1>18. CASE Fence(w)
  <2>1. \A v \in Workers : Knows(v)
    BY Zenon, <1>18, WriteFailed, FailsFrame DEF Fence, FenceReconciles
  <2> QED BY Zenon, <1>18, <2>1, ReturnFrame, GotoFrame DEF Fence
<1>19. CASE HeartbeatRenew(w)
  <2>1. \A v \in Workers \ {w} : Knows(v)
    BY Zenon, <1>19, ClaimPuts, PutsFrame DEF HeartbeatRenew
  <2> QED BY Zenon, <1>19, <2>1 DEF HeartbeatRenew, Same
<1> QED
  BY Zenon, <1>3, <1>4, <1>5, <1>6, <1>7, <1>8, <1>9, <1>10, <1>11, <1>12, <1>13, <1>14, <1>15, <1>16,
     <1>17, <1>18, <1>19
  DEF Move, WorkerStep, AttemptStep, WriterStep, DeleteStep, Get, Retry

-----------------------------------------------------------------------------
(* What a step can do to the resource and to its rows.                     *)

\* MarkReconciled of r, never the current revision of a tombstone, and ready only
\* for a revision that was rendered.
Marks(r, ok) == /\ Present /\ r <= res.rev
                /\ res' = Marked(r, ok)
                /\ r = res.rev => res.state # "deleting"
                /\ r = res.rev /\ ok => r \in rendered
                /\ UNCHANGED <<lives, ovn, rendered, late, ops>>

\* The resource changes by a user's write, a purge of its tombstone or a mark.
LEMMA ResStep ==
  ASSUME TypeOK, IInv, [Next]_vars
  PROVE  \/ UserCreate \/ UNCHANGED res \/ UserUpdate
         \/ (\E w \in Workers : UserDelete(w))
         \/ (\E w \in Workers : Purge(w) /\ PurgeAllowed(target[w]) /\ res' = Absent)
         \/ (\E r \in 0..MaxRev, ok \in BOOLEAN : Marks(r, ok))
<1> USE DEF TypeOK, WorkersTypeOK, history
<1>1. ASSUME NEW w \in Workers, Mark(w) \/ Limit(w) \/ Remark(w), ~UNCHANGED res
      PROVE  \E r \in 0..MaxRev, ok \in BOOLEAN : Marks(r, ok)
  <2>1. Working(w) /\ Recorded
    BY Zenon DEF IInv
  <2>2. CASE Mark(w)
    <3>1. Marks(desired[w], good[w])
      BY Zenon, <1>1, <2>1, <2>2 DEF Mark, MarkAllowed, Marks, Working, Recorded, Present, Reconciling
    <3> QED BY Zenon, <3>1
  <2>3. CASE Limit(w)
    <3>1. Marks(desired[w], FALSE)
      BY Zenon, <1>1, <2>1, <2>3 DEF Limit, MarkAllowed, Marks, Working, Present, Reconciling
    <3> QED BY Zenon, <3>1
  <2>4. CASE Remark(w)
    <3>1. Marks(target[w], TRUE)
      BY Zenon, <1>1, <2>1, <2>4 DEF Remark, MarkAllowed, Marks, Working, Recorded, Present
    <3> QED BY Zenon, <3>1
  <2> QED BY Zenon, <1>1, <2>2, <2>3, <2>4
<1>2. ASSUME NEW w \in Workers, Purge(w), ~UNCHANGED res PROVE PurgeAllowed(target[w]) /\ res' = Absent
  BY Zenon, <1>2 DEF Purge
<1>3. ASSUME NEW w \in Workers, NEW m, Attempt(w, m) PROVE UNCHANGED res
  BY Zenon, <1>3 DEF Attempt, ReturnOnly, storeVars
<1>4. ASSUME NEW w \in Workers,
             \/ CreateReconcile(w) \/ CreateDelete(w) \/ ClaimReconcile(w) \/ ClaimDelete(w)
             \/ SkipFresh(w) \/ Wait(w) \/ Accept(w) \/ HeartbeatLost(w) \/ Complete(w)
      PROVE  UNCHANGED res
  BY Zenon, <1>4 DEF CreateReconcile, CreateDelete, ClaimReconcile, ClaimDelete, SkipFresh, Wait, Accept,
              HeartbeatLost, Complete, ReturnOnly, storeVars
<1>5. ASSUME NEW w \in Workers,
             \/ Render(w) \/ Reload(w) \/ Confirm(w) \/ Erase(w) \/ StoreError(w)
             \/ Fence(w) \/ HeartbeatRenew(w) \/ Crash(w)
      PROVE  UNCHANGED res
  BY Zenon, <1>5 DEF Render, Reload, Confirm, Erase, StoreError, Fence, HeartbeatRenew, Crash, storeVars
<1>6. ASSUME \/ Recover \/ Prune \/ UNCHANGED vars \/ (\E k \in Revs : Expire(k) \/ Stall(k))
      PROVE  UNCHANGED res
  BY Zenon, <1>6 DEF Recover, RecoverExpiredOperations, Prune, PruneOperations, Expire, Stall, RunOut, vars, storeVars
<1> QED
  BY Zenon, <1>1, <1>2, <1>3, <1>4, <1>5, <1>6
  DEF Next, WorkerStep, AttemptStep, WriterStep, DeleteStep, Get, Retry

\* The resource's revision never goes back, and a revision is a tombstone from
\* its first step to its last, or never.
Keeps == /\ Present' => Present /\ res.rev <= res'.rev
         /\ Present' /\ res'.rev = res.rev => (res'.state = "deleting" <=> res.state = "deleting")

\* After its Create, every step keeps the resource's revisions in order.
LEMMA ResKeeps ==
  ASSUME TypeOK, IInv, [Next]_vars, ~UserCreate
  PROVE  Keeps
<1> USE DEF TypeOK, StoreTypeOK, Resource
<1>1. CASE UNCHANGED res
  BY <1>1 DEF Keeps, Present
<1>2. CASE UserUpdate \/ \E w \in Workers : UserDelete(w)
  BY <1>2 DEF Keeps, Present, UserUpdate, Update, UserDelete, BeginDelete, Meta
<1>3. CASE res' = Absent
  BY Zenon, <1>3 DEF Keeps, Present, Absent, Meta
<1>4. ASSUME NEW r \in 0..MaxRev, NEW ok \in BOOLEAN, Marks(r, ok) PROVE Keeps
  <2>1. res'.rev = res.rev /\ res'.state = IF r = res.rev THEN (IF ok THEN "ready" ELSE "error") ELSE res.state
    BY Zenon, <1>4 DEF Marks, Marked, Meta
  <2> QED BY <1>4, <2>1 DEF Keeps, Present, Marks
<1> QED BY Zenon, <1>1, <1>2, <1>3, <1>4, ResStep

\* Rows only appear by a Render; a Render without its claim is recorded as late.
LEMMA RowsStep ==
  ASSUME TypeOK, [Next]_vars
  PROVE  /\ late' = {} => late = {}
         /\ UserCreate \/ rendered \subseteq rendered'
         /\ \/ UNCHANGED ovn \/ ovn' = 0
            \/ \E w \in Workers : /\ Render(w)
                                  /\ late' = {} => HoldsClaim(w, target[w])
<1> USE DEF history, storeVars
<1>1. ASSUME NEW w \in Workers, Render(w)
      PROVE  /\ late' = {} => late = {} /\ HoldsClaim(w, target[w])
             /\ rendered \subseteq rendered'
  BY Zenon, <1>1 DEF Render
<1>2. ASSUME NEW w \in Workers, Erase(w)
      PROVE  UNCHANGED history /\ (UNCHANGED ovn \/ ovn' = 0)
  BY Zenon, <1>2 DEF Erase, RendererCall
<1>3. CASE UserCreate
  BY Zenon, <1>3 DEF UserCreate
<1>4. ASSUME NEW w \in Workers, NEW m, Attempt(w, m) PROVE UNCHANGED <<ovn, history>>
  BY Zenon, <1>4 DEF Attempt, ReturnOnly
<1>5. ASSUME NEW w \in Workers,
             \/ CreateReconcile(w) \/ CreateDelete(w) \/ ClaimReconcile(w) \/ ClaimDelete(w)
             \/ SkipFresh(w) \/ Wait(w) \/ Accept(w) \/ HeartbeatLost(w) \/ Complete(w)
      PROVE  UNCHANGED <<ovn, history>>
  BY Zenon, <1>5 DEF CreateReconcile, CreateDelete, ClaimReconcile, ClaimDelete, SkipFresh, Wait, Accept,
              HeartbeatLost, Complete, ReturnOnly
<1>6. ASSUME NEW w \in Workers,
             \/ Reload(w) \/ Confirm(w) \/ StoreError(w) \/ Mark(w) \/ Limit(w) \/ Remark(w) \/ Purge(w)
             \/ Fence(w) \/ HeartbeatRenew(w) \/ Crash(w) \/ UserDelete(w)
      PROVE  UNCHANGED <<ovn, history>>
  BY Zenon, <1>6 DEF Reload, Confirm, StoreError, Mark, Limit, Remark, Purge, Fence, HeartbeatRenew, Crash, UserDelete
<1>7. ASSUME \/ UserUpdate \/ Recover \/ Prune \/ UNCHANGED vars \/ (\E k \in Revs : Expire(k) \/ Stall(k))
      PROVE  UNCHANGED <<ovn, history>>
  BY Zenon, <1>7 DEF UserUpdate, Recover, Prune, Expire, Stall, RunOut, vars
<1> QED
  BY Zenon, <1>1, <1>2, <1>3, <1>4, <1>5, <1>6, <1>7
  DEF Next, WorkerStep, AttemptStep, WriterStep, DeleteStep, Get, Retry

-----------------------------------------------------------------------------
(* The conjuncts of IInv, one by one.                                      *)

\* No step gives a revision to come an operation.
LEMMA FutureStep ==
  ASSUME TypeOK, IInv, [Next]_vars, ~UserCreate
  PROVE  FutureIsEmpty'
<1>0. Present' => res'.rev \in Revs
  BY ResKeeps, TypeStep DEF IInv, FutureIsEmpty, Keeps, TypeOK, StoreTypeOK, Resource, Revs
<1> SUFFICES ASSUME Present', NEW k \in Revs, k > res'.rev PROVE ops'[k] = NoOp
  BY Zenon, <1>0 DEF FutureIsEmpty
<1>1. Present /\ k > res.rev /\ res.rev \in Nat /\ k \in Nat
  BY ResKeeps, TypeStep DEF Keeps, TypeOK, StoreTypeOK, Resource, Revs
<1>2. ops[k] = NoOp
  BY Zenon, <1>1 DEF IInv, FutureIsEmpty
<1>3. OpRule(k)
  BY Zenon, OpsStep DEF IInv
<1>4. \A w \in Workers : pc[w] # "idle" => target[w] <= res.rev /\ target[w] \in Nat
  BY <1>1 DEF IInv, Working, Revs
<1> QED BY <1>1, <1>2, <1>3, <1>4 DEF OpRule

\* No step breaks the shape of an operation.
LEMMA ShapeStep == ASSUME TypeOK, IInv, [Next]_vars PROVE OpShape'
  BY Zenon, OpsStep DEF IInv, OpShape, OpRule

\* The resource's current revision moves only between the ends of Keeps, so what
\* an idle or untouched worker knows stays true.
LEMMA WorkingSame ==
  ASSUME TypeOK, TypeOK', Keeps, NEW v \in Workers, Working(v), Same(v)
  PROVE  Working(v)'
  BY DEF TypeOK, StoreTypeOK, Resource, WorkersTypeOK, Keeps, Same, Working, Revs

\* An idle worker claims nothing about the resource.
LEMMA WorkingIdle == ASSUME NEW v \in Workers, pc'[v] = "idle" PROVE Working(v)'
  BY Zenon DEF Working, Reconciling

\* The worker that moves is still on a revision it may be on.
LEMMA WorkingActor ==
  ASSUME TypeOK, TypeOK', IInv, Keeps, NEW w \in Workers, Move(w)
  PROVE  Working(w)'
<1> USE DEF TypeOK, WorkersTypeOK, local, storeVars
<1>1. CASE Return(w)
  BY Zenon, <1>1, ReturnFrame, WorkingIdle
<1>2. Working(w) /\ (Present => res.rev \in Revs)
  BY Zenon DEF IInv, FutureIsEmpty
<1>3. CASE UserDelete(w)
  BY <1>3 DEF UserDelete, BeginDelete, Meta, Goto, Working, Reconciling, StoreTypeOK, Resource, Revs
<1>4. ASSUME NEW m, Attempt(w, m) PROVE Working(w)'
  BY <1>1, <1>2, <1>4 DEF Attempt, ReturnOnly, Goto, Working, Reconciling, Present, StoreTypeOK, Resource, Revs
<1>5. ASSUME NEW l, Goto(w, l), UNCHANGED <<res, target, desired>>,
             \/ /\ pc[w] \in {"create", "claim", "wait", "accept"}
                /\ l \in {"retry", "create", "remark", "claim", "wait", "accept"}
             \/ /\ pc[w] \in {"fence", "dcreate", "dclaim"}
                /\ l \in {"dcreate", "dclaim", "erase", "purge"}
             \/ pc[w] \in {"render", "reload"} /\ l \in {"reload", "mark"}
      PROVE  Working(w)'
  BY Zenon, <1>2, <1>5 DEF Goto, Working, Reconciling, Present
<1>6. CASE CreateReconcile(w) \/ Wait(w) \/ Accept(w)
  BY Zenon, <1>1, <1>5, <1>6 DEF CreateReconcile, Wait, Accept, ReturnOnly
<1>7. CASE CreateDelete(w) \/ ClaimDelete(w) \/ Fence(w)
  BY Zenon, <1>1, <1>5, <1>7 DEF CreateDelete, ClaimDelete, Fence, ReturnOnly
<1>8. CASE ClaimReconcile(w)
  <2>1. CASE desired' = [desired EXCEPT ![w] = target[w]] /\ Goto(w, "render") /\ UNCHANGED <<res, target>>
    BY <1>2, <1>8, <2>1 DEF ClaimReconcile, Goto, Working, Reconciling, Present, Revs
  <2> QED BY Zenon, <1>1, <1>5, <1>8, <2>1 DEF ClaimReconcile, ReturnOnly
<1>9. CASE SkipFresh(w) \/ HeartbeatLost(w) \/ Remark(w) \/ Purge(w) \/ Crash(w)
  BY Zenon, <1>1, <1>9 DEF SkipFresh, HeartbeatLost, Remark, Purge, Crash, ReturnOnly
<1>10. CASE Render(w)
  BY Zenon, <1>5, <1>10 DEF Render
<1>11. ASSUME Overtaken(w), pc[w] \in {"reload", "confirm"}, UNCHANGED <<res, target>> PROVE Working(w)'
  <2>1. CASE Gone
    BY <1>2, <1>11, <2>1 DEF Overtaken, Gone, Goto, Working, Reconciling, Present, StoreTypeOK, Resource, Revs
  <2>2. CASE ~Gone
    <3>1. /\ pc'[w] \in {"render", "limit"} /\ target'[w] = target[w] /\ desired'[w] = res.rev
      BY <1>11, <2>2 DEF Overtaken, NextPass, Goto
    <3> QED BY <1>2, <1>11, <2>2, <3>1 DEF Gone, Working, Reconciling, Present, StoreTypeOK, Resource, Revs
  <2> QED BY Zenon, <2>1, <2>2
<1>12. ASSUME pc[w] # "idle", pc'[w] = "complete", UNCHANGED target PROVE Working(w)'
  BY <1>2, <1>12 DEF Working, Reconciling, Keeps, StoreTypeOK, Resource, Revs
<1>13. CASE Reload(w)
  BY Zenon, <1>5, <1>11, <1>13 DEF Reload
<1>14. CASE Confirm(w)
  BY Zenon, <1>11, <1>12, <1>14, ConcludeFrame DEF Confirm
<1>15. CASE Mark(w)
  <2>1. CASE Goto(w, "confirm") /\ UNCHANGED <<target, desired>>
    BY SMTT(60), <1>2, <1>15, <2>1 DEF Mark, Goto, Working, Reconciling, Keeps, StoreTypeOK, Resource, Revs
  <2> QED BY Zenon, <1>12, <1>15, <2>1, ConcludeFrame DEF Mark
<1>16. CASE Limit(w) \/ Erase(w) \/ StoreError(w)
  BY Zenon, <1>12, <1>16, ConcludeFrame DEF Limit, Erase, StoreError
<1>17. CASE Complete(w)
  <2>1. CASE Return(w)
    BY Zenon, <1>1, <2>1
  <2>2. CASE ~Return(w)
    <3>1. /\ pc'[w] = "purge" /\ pc[w] = "complete" /\ ops[target[w]].act = "delete"
          /\ UNCHANGED <<res, target>>
      BY Zenon, <1>17, <2>2, GotoFrame DEF Complete, ReturnOnly
    <3> QED BY Zenon, <1>2, <3>1 DEF IInv, Fenced, Working, Reconciling, Present
  <2> QED BY Zenon, <2>1, <2>2
<1>18. CASE HeartbeatRenew(w)
  BY Zenon, <1>2, <1>18, WorkingSame DEF HeartbeatRenew, Same
<1> QED
  BY Zenon, <1>3, <1>4, <1>6, <1>7, <1>8, <1>9, <1>10, <1>13, <1>14, <1>15, <1>16, <1>17, <1>18
  DEF Move, WorkerStep, AttemptStep, WriterStep, DeleteStep, Get, Retry

\* Working is kept by every step after the Create.
LEMMA WorkingStep ==
  ASSUME TypeOK, IInv, [Next]_vars, ~UserCreate, NEW v \in Workers
  PROVE  Working(v)'
<1>1. TypeOK' /\ Keeps
  BY Zenon, TypeStep, ResKeeps
<1>2. CASE Same(v)
  BY Zenon, <1>1, <1>2, WorkingSame DEF IInv
<1>3. CASE ~Same(v)
  <2>1. Move(v)
    BY Zenon, <1>3, StepOf, MoveFrame, EnvironmentFrame
  <2> QED BY Zenon, <1>1, <2>1, WorkingActor
<1> QED BY Zenon, <1>2, <1>3

==============================================================================
