---------------------------- MODULE MCPortBinding ----------------------------
(***************************************************************************)
(* Small instances of PortBinding.  A behaviour plays one of four scenes:  *)
(* the port is attached, detached and attached again on either node; two   *)
(* clients race for it; handlers die while two requests and an operator's  *)
(* edits are under way on one node; or the node's scans fail and another   *)
(* controller claims its TAPs.  The scene is chosen once, over every node  *)
(* and request alike, so that both stay symmetric.                         *)
(***************************************************************************)
EXTENDS PortBinding, FiniteSets, TLC

VARIABLE scene

Scene(nodes, requests, gens, atOnce, faults) ==
  [nodes |-> nodes, requests |-> requests, gens |-> gens, atOnce |-> atOnce, faults |-> faults]

\* Reuse, race, failing handlers, failing host.  A port is created with
\* generation 1, so that only the first scene has it attached twice.
Scenes == {Scene(Nodes, Requests, MaxGen, 1, {})}
            \cup {Scene(Nodes, Requests \ {r}, MaxGen - 1, 2, {}) : r \in Requests}
            \cup {Scene({n}, Requests \ {r}, MaxGen - 1, 2, {"handlers", "edits"}) : n \in Nodes, r \in Requests}
            \cup {Scene({n}, Requests \ {r}, MaxGen - 1, 1, {"host", "edits"}) : n \in Nodes, r \in Requests}

MCInit == Init /\ scene \in Scenes

\* A client asks within the scene.
Sent(r) == /\ Cardinality({q \in scene.requests : body[q] # Nil /\ answer[q] = "none"}) < scene.atOnce
           /\ Send(r)
           /\ body'[r].act = "attach" => body'[r].node \in scene.nodes /\ body'[r].gen < scene.gens

RequestMoves(r) == \/ Sent(r) /\ UNCHANGED scene
                   \/ Load(r) /\ UNCHANGED scene
                   \/ BeginPortAction(r) /\ UNCHANGED scene
                   \/ Update(r) /\ UNCHANGED scene
                   \/ CompletePortAction(r) /\ UNCHANGED scene
                   \/ "handlers" \in scene.faults /\ Crash(r) /\ UNCHANGED scene

\* Without concurrent requests the VM runs on one node at a time.
Started(n) == /\ scene.atOnce = 1 => \A o \in Nodes : tap[o] = Nil
              /\ TapAppears(n)

NodeMoves(n) == \/ AgentStep(n) /\ UNCHANGED scene
                \/ "host" \in scene.faults /\ ScanFails(n) /\ UNCHANGED scene
                \/ Started(n) /\ UNCHANGED scene
                \/ TapGoes(n) /\ UNCHANGED scene
                \/ "host" \in scene.faults /\ OtherClaims(n) /\ UNCHANGED scene
                \/ OvnInstalls(n) /\ UNCHANGED scene
                \/ OvnReleases(n) /\ UNCHANGED scene

MCNext == \/ \E r \in scene.requests : RequestMoves(r)
          \/ \E n \in scene.nodes : NodeMoves(n)
          \/ (\E m \in reports : DeliverReport(m)) /\ UNCHANGED scene
          \/ "edits" \in scene.faults /\ EditPort /\ UNCHANGED scene
          \/ "edits" \in scene.faults /\ DeletePort /\ UNCHANGED scene
          \/ PurgePort /\ UNCHANGED scene
          \/ Realize /\ UNCHANGED scene

MCSpec == MCInit /\ [][MCNext]_<<vars, scene>>

\* For liveness: one node whose scans may fail, clients that do not crash.
LiveScene == Scene(Nodes, Requests, MaxGen, Cardinality(Requests), {"host", "edits"})

LiveNext == \/ \E r \in Requests : /\ \/ Send(r) \/ Load(r) \/ BeginPortAction(r)
                                       \/ Update(r) \/ CompletePortAction(r)
                                    /\ UNCHANGED scene
            \/ \E n \in Nodes : /\ \/ AgentStep(n) \/ ScanFails(n)
                                    \/ TapAppears(n) \/ TapGoes(n) \/ OvnInstalls(n) \/ OvnReleases(n)
                                 /\ UNCHANGED scene
            \/ (\E m \in reports : DeliverReport(m)) /\ UNCHANGED scene
            \/ (EditPort \/ DeletePort \/ PurgePort \/ Realize) /\ UNCHANGED scene

LiveInit == Init /\ scene = LiveScene

LiveSpec == LiveInit /\ [][LiveNext]_<<vars, scene>> /\ Fairness

NodeAndRequestSymmetry == Permutations(Nodes) \cup Permutations(Requests)
=============================================================================
