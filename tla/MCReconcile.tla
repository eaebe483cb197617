----------------------------- MODULE MCReconcile -----------------------------
(***************************************************************************)
(* Small instances of Reconcile.  A behaviour of MCSpec is one of two      *)
(* scenes: all workers and one fault on all but the last revision, or one  *)
(* worker that meets all revisions and can run out of passes.              *)
(***************************************************************************)
EXTENDS Reconcile

VARIABLE scene

Scenes == {[workers |-> Workers, revs |-> MaxRev - 1, faults |-> MaxFaults]}
            \cup {[workers |-> {CHOOSE w \in Workers : TRUE}, revs |-> MaxRev, faults |-> 0]}

MCInit == Init /\ scene \in Scenes

InScene == res'.rev <= scene.revs /\ faults' <= scene.faults /\ UNCHANGED scene

WorkerMoves(w) == \/ UserDelete(w) /\ InScene
                  \/ (\E m \in Modes : Get(w, m)) /\ InScene
                  \/ WorkerStep(w) /\ InScene
                  \/ HeartbeatRenew(w) /\ InScene
                  \/ HeartbeatLost(w) /\ InScene
                  \/ StoreError(w) /\ InScene
                  \/ Crash(w) /\ InScene

MCNext == \/ UserCreate /\ InScene
          \/ UserUpdate /\ InScene
          \/ Recover /\ InScene
          \/ Prune /\ InScene
          \/ (\E k \in Revs : Expire(k)) /\ InScene
          \/ (\E k \in Revs : Stall(k)) /\ InScene
          \/ \E w \in scene.workers : WorkerMoves(w)

\* Reconcile's Fairness for the workers of the scene.
MCFairness == /\ WF_vars(Recover)
              /\ \A k \in Revs : WF_vars(Expire(k))
              /\ \A w \in Workers : /\ WF_vars(w \in scene.workers /\ WorkerStep(w) /\ InScene)
                                     /\ WF_vars(w \in scene.workers /\ Get(w, "audit"))
                                     /\ SF_vars(w \in scene.workers /\ CreateReconcile(w))

MCSpec == MCInit /\ [][MCNext]_<<vars, scene>> /\ MCFairness
=============================================================================
