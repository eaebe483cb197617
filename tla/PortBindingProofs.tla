-------------------------- MODULE PortBindingProofs --------------------------
(***************************************************************************)
(* Proofs about PortBinding, for any nodes, requests and bounds: types,    *)
(* what the request handlers do to the port, how an attachment, a          *)
(* detachment and a report keep the invariant of the agents, and that      *)
(* every step of a node and its agent keeps it; the theorems.              *)
(***************************************************************************)
EXTENDS PortBinding, TLAPS

USE DEF Gens, portVars, resVars, agentVars, callVars

-----------------------------------------------------------------------------
(* Types.                                                                  *)

LEMMA TapTypes == /\ NewTap \in Tap
                  /\ Idle \in Scan
                  /\ Idle.call = "none" /\ Idle.gen = 0 /\ Idle.tap = NewTap
                  /\ NewTap.gen = 0 /\ NewTap.owner = "none"
                  /\ Failed \in Scan
                  /\ Failed.call = "failed" /\ Failed.gen = 0 /\ Failed.tap = NewTap
  BY BoundsAssumption DEF NewTap, Tap, Idle, Failed, Scan

LEMMA GoingTypes ==
  ASSUME NEW c \in {"none", "clear", "release", "unbound", "bind", "bound"}, NEW g \in 0..MaxGen
  PROVE  /\ Going(c, g) \in Scan
         /\ Going(c, g).call = c
         /\ Going(c, g).tap = NewTap
         /\ Going(c, g).gen \in {0, g}
         /\ c # "none" => Going(c, g).gen = g
  BY TapTypes DEF Going, Scan, Idle

LEMMA DecisionTypes ==
  ASSUME NEW n, NEW t
  PROVE  Decision(n, t) \in {"none", "clear", "release", "unbound", "bind", "bound"}
  BY DEF Decision, Unmanaged, Released, Attached

LEMMA InitType == Init => TypeOK
  <1> SUFFICES ASSUME Init PROVE TypeOK
    OBVIOUS
  <1> QED BY TapTypes, BoundsAssumption DEF Init, PortInit, TypeOK, Statuses

LEMMA RequestType ==
  ASSUME TypeOK, NEW r \in Requests, RequestStep(r)
  PROVE  TypeOK'
  <1>1. CASE Send(r)
    <2>1. \A n \in Nodes : generation < MaxGen => Request("attach", n) \in Body
      <3>1. generation < MaxGen => generation \in 1..(MaxGen - 1)
        BY BoundsAssumption DEF TypeOK
      <3>2. rev \in Nat
        BY DEF TypeOK
      <3> QED BY <3>1, <3>2 DEF Request, Body
    <2>2. Request("detach", Nil) \in Body
      <3>1. generation \in Gens /\ rev \in Nat
        BY DEF TypeOK
      <3> QED BY <3>1 DEF Request, Body
    <2>3. body' \in [Requests -> Body \cup {Nil}]
      BY <1>1, <2>1, <2>2 DEF Send, TypeOK
    <2> QED BY <1>1, <2>3, NodesAssumption DEF Send, TypeOK
  <1>2. CASE Load(r)
    BY <1>2 DEF Load, Refuse, TypeOK
  <1>3. CASE BeginPortAction(r)
    BY <1>3 DEF BeginPortAction, Refuse, Succeed, TypeOK
  <1>4. CASE Update(r)
    <2>1. CASE token[r] = image[r] /\ at' = [at EXCEPT ![r] = "complete"]
               /\ UNCHANGED <<portVars, resVars, token, answer, done>>
      BY <1>4, <2>1 DEF Update, TypeOK
    <2>2. CASE Refuse(r) /\ UNCHANGED <<portVars, resVars, token, done>>
      BY <1>4, <2>2 DEF Update, Refuse, TypeOK
    <2>3. CASE /\ Transition(body[r]) /\ Written
               /\ token' = [token EXCEPT ![r] = image[r]] /\ done' = done \cup {r}
               /\ at' = [at EXCEPT ![r] = "complete"] /\ UNCHANGED answer
      <3>1. body[r] \in Body
        BY <1>4 DEF Update, TypeOK
      <3>0. /\ body[r].act \in {"attach", "detach"}
            /\ body[r].act = "attach" => body[r].node \in Nodes /\ body[r].gen \in 1..(MaxGen - 1)
        BY <3>1 DEF Body
      <3>2. status' \in Statuses /\ generation' \in Gens /\ node' \in Nodes \cup {Nil}
        BY <2>3, <3>0, BoundsAssumption DEF Transition, Statuses, TypeOK
      <3> QED BY <1>4, <2>3, <3>2 DEF Update, Written, TypeOK
    <2> QED BY <1>4, <2>1, <2>2, <2>3 DEF Update
  <1>5. CASE CompletePortAction(r)
    BY <1>5 DEF CompletePortAction, Reconciled, Succeed, TypeOK
  <1>6. CASE Crash(r)
    BY <1>6 DEF Crash, TypeOK
  <1> QED BY <1>1, <1>2, <1>3, <1>4, <1>5, <1>6 DEF RequestStep

LEMMA AgentType ==
  ASSUME TypeOK, NEW n \in Nodes, AgentStep(n) \/ ScanFails(n)
  PROVE  TypeOK'
  <1>0. tap[n] # Nil => tap[n] \in Tap
    BY DEF TypeOK
  <1>00. scan[n] \in Scan /\ scan[n].gen \in 0..MaxGen /\ generation \in 0..MaxGen
    BY DEF TypeOK, Scan
  <1>1. CASE List(n)
    <2>1. [call |-> "resolve", tap |-> tap[n], gen |-> 0] \in Scan
      BY <1>0, <1>1, BoundsAssumption DEF List, Scan
    <2>2. witnessed' \subseteq Nodes \X (0..MaxGen)
      BY <1>0, <1>1 DEF List, Tap, TypeOK
    <2> QED BY <1>1, <2>1, <2>2 DEF List, TypeOK
  <1>2. CASE Resolve(n)
    <2>1. Going(Decision(n, scan[n].tap), generation) \in Scan
      BY <1>00, DecisionTypes, GoingTypes
    <2> QED BY <1>2, <2>1 DEF Resolve, TypeOK
  <1>3. CASE ClearManagedBinding(n)
    <2>1. tap[n] # Nil => [gen |-> 0, owner |-> "none", installed |-> tap[n].installed] \in Tap
      BY <1>0, BoundsAssumption DEF Tap
    <2>2. Going("unbound", scan[n].gen) \in Scan
      BY <1>00, GoingTypes
    <2> QED BY <1>3, <2>1, <2>2, TapTypes DEF ClearManagedBinding, TypeOK
  <1>4. CASE SetManagedBinding(n)
    <2>1. tap[n] # Nil => [gen |-> scan[n].gen, owner |-> "pvn", installed |-> tap[n].installed] \in Tap
      BY <1>0, <1>00 DEF Tap
    <2> QED BY <1>4, <2>1, TapTypes DEF SetManagedBinding, TypeOK
  <1>5. CASE ReportPort(n)
    BY <1>5, <1>00, TapTypes DEF ReportPort, Report, TypeOK
  <1>6. CASE ScanFails(n)
    BY <1>6, TapTypes DEF ScanFails, TypeOK
  <1> QED BY <1>1, <1>2, <1>3, <1>4, <1>5, <1>6 DEF AgentStep

LEMMA HostType ==
  ASSUME TypeOK, NEW n \in Nodes, HostStep(n)
  PROVE  TypeOK'
  <1>0. tap[n] # Nil => tap[n] \in Tap
    BY DEF TypeOK
  <1>1. CASE TapAppears(n)
    BY <1>1, TapTypes DEF TapAppears, TypeOK
  <1>2. CASE TapGoes(n)
    BY <1>2 DEF TapGoes, TypeOK
  <1>3. CASE OtherClaims(n)
    <2>1. [gen |-> 0, owner |-> "other", installed |-> tap[n].installed] \in Tap
      BY <1>0, <1>3, BoundsAssumption DEF OtherClaims, Tap
    <2> QED BY <1>3, <2>1 DEF OtherClaims, TypeOK
  <1>4. CASE OvnInstalls(n)
    <2>1. [gen |-> tap[n].gen, owner |-> "pvn", installed |-> "true"] \in Tap
      BY <1>0, <1>4 DEF OvnInstalls, Tap
    <2> QED BY <1>4, <2>1 DEF OvnInstalls, TypeOK
  <1>5. CASE OvnReleases(n)
    <2>1. [gen |-> 0, owner |-> tap[n].owner, installed |-> "false"] \in Tap
      BY <1>0, <1>5, BoundsAssumption DEF OvnReleases, Tap
    <2> QED BY <1>5, <2>1 DEF OvnReleases, TypeOK
  <1> QED BY <1>1, <1>2, <1>3, <1>4, <1>5 DEF HostStep

LEMMA OtherType ==
  ASSUME TypeOK,
         \/ \E m \in reports : DeliverReport(m)
         \/ EditPort \/ DeletePort \/ PurgePort \/ Realize
         \/ UNCHANGED vars
  PROVE  TypeOK'
  <1>1. ASSUME NEW m \in reports, DeliverReport(m) PROVE TypeOK'
    <2>1. /\ status' \in Statuses /\ generation' = generation /\ node' \in Nodes \cup {Nil}
          /\ rev' \in Nat /\ state' \in {"pending", "ready", "deleting", "absent"}
      BY <1>1 DEF DeliverReport, ReportBound, ReportUnbound, Reconciled, Statuses, TypeOK
    <2> QED BY <1>1, <2>1 DEF DeliverReport, TypeOK
  <1>2. CASE EditPort
    BY <1>2 DEF EditPort, TypeOK
  <1>3. CASE DeletePort
    BY <1>3 DEF DeletePort, TypeOK
  <1>4. CASE PurgePort
    BY <1>4 DEF PurgePort, TypeOK
  <1>5. CASE Realize
    BY <1>5 DEF Realize, TypeOK
  <1>6. CASE UNCHANGED vars
    BY <1>6 DEF vars, TypeOK
  <1> QED BY <1>1, <1>2, <1>3, <1>4, <1>5, <1>6

\* TypeOK holds in every state: the step, as one lemma.
LEMMA TypeStep == TypeOK /\ [Next]_vars => TypeOK'
  BY RequestType, AgentType, HostType, OtherType DEF Next

-----------------------------------------------------------------------------
(* The port and the requests.                                              *)

\* The store's Update carries out the transition its request was checked for.
LEMMA UpdateMoves ==
  ASSUME TypeOK, StillFresh, NEW r \in Requests, Update(r)
  PROVE  \/ UNCHANGED portVars /\ rev' = rev
         \/ PortNext /\ rev' = rev + 1
  <1>1. body[r] # Nil /\ body[r] \in Body
    BY DEF Update, TypeOK
  <1>2. CASE Applies(r) /\ Transition(body[r]) /\ Written
    <2>1. Fresh(body[r])
      BY <1>1, <1>2, Zenon DEF StillFresh, Update, Applies
    <2>2. /\ body[r].act \in {"attach", "detach"}
          /\ body[r].act = "attach" => body[r].node \in Nodes
      BY <1>1 DEF Body
    <2>3. CASE body[r].act = "attach"
      <3>1. Attach(body[r].node)
        BY <1>2, <2>1, <2>3 DEF Transition, Fresh, Attach
      <3> QED BY <1>2, <2>2, <2>3, <3>1 DEF Written, PortNext
    <2>4. CASE body[r].act = "detach"
      <3>1. Detach
        BY <1>2, <2>1, <2>4 DEF Transition, Fresh, Detach
      <3> QED BY <1>2, <3>1 DEF Written, PortNext
    <2> QED BY <2>2, <2>3, <2>4
  <1> QED BY <1>2 DEF Update

\* What a step does to the port: nothing, or one transition with a new revision.
LEMMA PortMoves ==
  ASSUME TypeOK, StillFresh, [Next]_vars
  PROVE  \/ UNCHANGED portVars /\ rev' \in {rev, rev + 1}
         \/ PortNext /\ rev' = rev + 1
  <1>1. ASSUME NEW r \in Requests, RequestStep(r)
        PROVE  (UNCHANGED portVars /\ rev' = rev) \/ (PortNext /\ rev' = rev + 1)
    BY <1>1, UpdateMoves DEF RequestStep, Send, Load, BeginPortAction, CompletePortAction, Crash
  <1>2. ASSUME NEW n \in Nodes, AgentStep(n) \/ ScanFails(n) \/ HostStep(n)
        PROVE  UNCHANGED portVars /\ rev' = rev
    BY <1>2 DEF AgentStep, List, Resolve, ClearManagedBinding, SetManagedBinding, ReportPort,
                ScanFails, HostStep, TapAppears, TapGoes, OtherClaims, OvnInstalls, OvnReleases
  <1>3. ASSUME NEW m \in reports, DeliverReport(m)
        PROVE  (UNCHANGED portVars /\ rev' = rev) \/ (PortNext /\ rev' = rev + 1)
    BY <1>3 DEF DeliverReport, PortNext
  <1>4. CASE EditPort \/ DeletePort \/ PurgePort \/ Realize \/ UNCHANGED vars
    BY <1>4 DEF EditPort, DeletePort, PurgePort, Realize, vars
  <1> QED BY <1>1, <1>2, <1>3, <1>4 DEF Next

\* Only a request's own steps touch what it recorded.
LEMMA OthersCalls ==
  ASSUME [Next]_vars, ~(\E r \in Requests : RequestStep(r))
  PROVE  UNCHANGED callVars
  <1>1. ASSUME NEW n \in Nodes, AgentStep(n) \/ ScanFails(n) \/ HostStep(n)
        PROVE  UNCHANGED callVars
    BY <1>1 DEF AgentStep, List, Resolve, ClearManagedBinding, SetManagedBinding, ReportPort,
                ScanFails, HostStep, TapAppears, TapGoes, OtherClaims, OvnInstalls, OvnReleases
  <1>2. ASSUME NEW m \in reports, DeliverReport(m) PROVE UNCHANGED callVars
    BY <1>2 DEF DeliverReport
  <1>3. CASE EditPort \/ DeletePort \/ PurgePort \/ Realize \/ UNCHANGED vars
    BY <1>3 DEF EditPort, DeletePort, PurgePort, Realize, vars
  <1> QED BY <1>1, <1>2, <1>3 DEF Next

LEMMA RecordedStep ==
  ASSUME TypeOK, Recorded, [Next]_vars
  PROVE  Recorded'
  <1>1. ASSUME NEW r \in Requests, RequestStep(r) PROVE Recorded'
    <2>1. CASE Send(r)
      BY <2>1 DEF Send, Recorded
    <2>2. CASE Load(r)
      BY SMTT(60), <2>2 DEF Load, Refuse, Recorded, TypeOK
    <2>3. CASE BeginPortAction(r)
      BY <2>3 DEF BeginPortAction, Refuse, Succeed, Recorded, TypeOK
    <2>4. CASE Update(r)
      BY <2>4 DEF Update, Refuse, Recorded, TypeOK
    <2>5. CASE CompletePortAction(r)
      BY <2>5 DEF CompletePortAction, Succeed, Recorded, TypeOK
    <2>6. CASE Crash(r)
      BY <2>6 DEF Crash, Recorded, TypeOK
    <2> QED BY <1>1, <2>1, <2>2, <2>3, <2>4, <2>5, <2>6 DEF RequestStep
  <1>2. CASE ~(\E r \in Requests : RequestStep(r))
    BY <1>2, OthersCalls DEF Recorded
  <1> QED BY <1>1, <1>2

\* What a step does to the bodies and to the handlers that go on.
LEMMA HandlerMoves ==
  ASSUME TypeOK, [Next]_vars, NEW q \in Requests
  PROVE  /\ body'[q] = body[q] \/ (body[q] = Nil /\ body'[q].rev = rev /\ at'[q] = "none" /\ rev' = rev)
         /\ at'[q] \in {"begin", "update"} =>
              \/ at[q] \in {"begin", "update"}
              \/ Acceptable(body[q]) /\ rev' = rev
  <1>1. ASSUME NEW r \in Requests, Send(r)
        PROVE  /\ body'[q] = body[q] \/ (body[q] = Nil /\ body'[q].rev = rev /\ at'[q] = "none" /\ rev' = rev)
               /\ at'[q] = at[q]
    <2>1. \A b : (\E n \in Nodes : b = Request("attach", n)) \/ b = Request("detach", Nil) => b.rev = rev
      BY DEF Request
    <2> QED BY <1>1, <2>1 DEF Send, TypeOK
  <1>2. ASSUME NEW r \in Requests, Load(r)
        PROVE  body' = body /\ (at'[q] # at[q] => q = r /\ rev' = rev
                                                  /\ (at'[q] # "none" => Acceptable(body[q])))
    BY <1>2 DEF Load, Refuse, TypeOK
  <1>3. ASSUME NEW r \in Requests,
               BeginPortAction(r) \/ Update(r) \/ CompletePortAction(r) \/ Crash(r)
        PROVE  body' = body
    BY <1>3 DEF BeginPortAction, Update, CompletePortAction, Crash
  <1>4. ASSUME NEW r \in Requests,
               BeginPortAction(r) \/ Update(r) \/ CompletePortAction(r) \/ Crash(r)
        PROVE  at'[q] = at[q] \/ at'[q] \notin {"begin", "update"} \/ at[q] = "begin"
    BY SMTT(60), <1>4 DEF BeginPortAction, Update, CompletePortAction, Crash, Refuse, Succeed, TypeOK
  <1>5. CASE ~(\E r \in Requests : RequestStep(r))
    BY <1>5, OthersCalls
  <1> QED BY <1>1, <1>2, <1>3, <1>4, <1>5 DEF RequestStep, TypeOK

LEMMA StillFreshStep ==
  ASSUME TypeOK, StillFresh, [Next]_vars
  PROVE  StillFresh'
  <1> SUFFICES ASSUME NEW q \in Requests, body'[q] # Nil
               PROVE  /\ body'[q].rev <= rev'
                      /\ at'[q] \in {"begin", "update"} /\ body'[q].rev = rev' => Fresh(body[q])'
    BY DEF StillFresh
  <1>0. rev \in Nat /\ (body[q] # Nil => body[q].rev \in Nat)
    BY DEF TypeOK, Body
  <1>1. CASE body'[q] # body[q]
    BY <1>0, <1>1, HandlerMoves
  <1>2. CASE body'[q] = body[q]
    <2>1. body[q].rev <= rev /\ rev' \in {rev, rev + 1}
      <3>1. body[q].rev <= rev
        BY <1>2, Zenon DEF StillFresh
      <3>2. rev' \in {rev, rev + 1}
        BY PortMoves
      <3> QED BY <3>1, <3>2
    <2>2. ASSUME at'[q] \in {"begin", "update"}, body[q].rev = rev' PROVE Fresh(body[q])
      <3>1. rev' = rev /\ body[q].rev = rev
        <4>1. body[q].rev \in Nat
          BY <1>0, <1>2
        <4> QED BY <1>0, <2>1, <2>2, <4>1
      <3>2. CASE at[q] \in {"begin", "update"}
        BY <1>2, <3>1, <3>2, Zenon DEF StillFresh
      <3>3. CASE Acceptable(body[q])
        BY <1>0, <3>1, <3>3 DEF Acceptable, ReplayCandidate
      <3> QED BY <2>2, <3>2, <3>3, HandlerMoves
    <2>3. ASSUME Fresh(body[q]), rev' = rev PROVE Fresh(body[q])'
      <3>1. UNCHANGED portVars
        BY <1>0, <2>3, PortMoves
      <3> QED BY <1>2, <2>3, <3>1 DEF Fresh
    <2> QED BY <1>0, <1>2, <2>1, <2>2, <2>3
  <1> QED BY <1>1, <1>2

LEMMA NodeKnownStep ==
  ASSUME TypeOK, StillFresh, NodeKnown, [Next]_vars
  PROVE  NodeKnown'
  <1>1. CASE UNCHANGED portVars
    BY <1>1 DEF NodeKnown
  <1>2. CASE PortNext
    BY <1>2, NodesAssumption DEF PortNext, Attach, Detach, ReportBound, ReportUnbound, NodeKnown, TypeOK
  <1> QED BY <1>1, <1>2, PortMoves

-----------------------------------------------------------------------------
(* The agents.                                                             *)

AgentInv == /\ NodeKnown /\ NotAhead /\ Listed /\ Local /\ Truthful
            /\ BoundOnItsNode /\ BoundWasSeen

AgentStays == UNCHANGED <<tap, scan, witnessed>> /\ reports' \subseteq reports

LEMMA Numbers ==
  ASSUME TypeOK
  PROVE  /\ generation \in Nat /\ generation # 0
         /\ \A n \in Nodes : /\ scan[n].gen \in Nat /\ scan[n].tap.gen \in Nat
                             /\ tap[n] # Nil => tap[n].gen \in Nat
         /\ \A m \in reports : m.gen \in Nat
  BY BoundsAssumption DEF TypeOK, Scan, Tap, Report

\* A new attachment: whatever the agents hold is about an older generation.
LEMMA AttachKeeps ==
  ASSUME TypeOK, AgentInv, AgentStays, NEW n \in Nodes, Attach(n)
  PROVE  NotAhead' /\ Listed' /\ Local' /\ Truthful' /\ BoundOnItsNode' /\ BoundWasSeen'
  <1>1. generation' = generation + 1 /\ status' = "binding" /\ UNCHANGED <<tap, scan, witnessed>>
    BY DEF Attach, AgentStays
  <1>2. NotAhead'
    BY SMTT(60), <1>1, Numbers DEF AgentInv, NotAhead, AgentStays
  <1>3. Listed'
    BY <1>1 DEF AgentInv, Listed
  <1>4. /\ \A k \in Nodes : scan[k].gen # generation' /\ (tap[k] # Nil => tap[k].gen # generation')
        /\ \A m \in reports : m.gen # generation'
    BY <1>1, Numbers DEF AgentInv, NotAhead
  <1>5. Local' /\ BoundOnItsNode'
    BY <1>1, <1>4 DEF Local, BoundOnItsNode
  <1>6. Truthful'
    BY <1>1, <1>4 DEF Truthful, AgentStays
  <1>7. BoundWasSeen'
    BY <1>1 DEF BoundWasSeen
  <1> QED BY <1>2, <1>3, <1>5, <1>6, <1>7

LEMMA DetachKeeps ==
  ASSUME TypeOK, AgentInv, AgentStays, Detach \/ UNCHANGED portVars
  PROVE  NotAhead' /\ Listed' /\ Local' /\ Truthful' /\ BoundOnItsNode' /\ BoundWasSeen'
  <1>1. /\ UNCHANGED <<generation, node, tap, scan, witnessed>>
        /\ status' \in {status, "detaching"}
        /\ status' # status => status \in {"binding", "bound"}
    BY DEF Detach, AgentStays
  <1>2. NotAhead' /\ Listed' /\ BoundOnItsNode' /\ BoundWasSeen'
    BY SMTT(60), <1>1 DEF AgentInv, NotAhead, Listed, BoundOnItsNode, BoundWasSeen, AgentStays
  <1>3. Local'
    BY <1>1 DEF AgentInv, Local
  <1>4. Truthful'
    BY <1>1 DEF AgentInv, Truthful, AgentStays
  <1> QED BY <1>2, <1>3, <1>4

LEMMA BoundKeeps ==
  ASSUME TypeOK, AgentInv, AgentStays, NEW m \in reports,
         m.gen = generation, m.status = "bound", ReportBound
  PROVE  NotAhead' /\ Listed' /\ Local' /\ Truthful' /\ BoundOnItsNode' /\ BoundWasSeen'
  <1>1. /\ UNCHANGED <<generation, node, tap, scan, witnessed>>
        /\ status = "binding" /\ status' = "bound"
    BY DEF ReportBound, AgentStays
  <1>2. NotAhead' /\ Listed' /\ BoundOnItsNode'
    BY <1>1 DEF AgentInv, NotAhead, Listed, BoundOnItsNode, AgentStays
  <1>3. BoundWasSeen'
    BY <1>1 DEF AgentInv, NodeKnown, Truthful, BoundWasSeen
  <1>4. Local'
    BY <1>1 DEF AgentInv, Local
  <1>5. Truthful'
    BY <1>1 DEF AgentInv, Truthful, AgentStays
  <1> QED BY <1>2, <1>3, <1>4, <1>5

\* The end of an attachment is accepted only when no TAP has its generation and
\* no agent is about to write it.
LEMMA UnboundKeeps ==
  ASSUME TypeOK, AgentInv, AgentStays, NEW m \in reports,
         m.gen = generation, m.status = "unbound", ReportUnbound
  PROVE  NotAhead' /\ Listed' /\ Local' /\ Truthful' /\ BoundOnItsNode' /\ BoundWasSeen'
  <1>1. /\ UNCHANGED <<generation, tap, scan, witnessed>>
        /\ status' = "unbound" /\ node' = Nil
    BY DEF ReportUnbound, AgentStays
  <1>2. /\ \A n \in Nodes : tap[n] # Nil => tap[n].gen # generation
        /\ \A n \in Nodes : ~(scan[n].call = "bind" /\ scan[n].gen = generation)
    BY DEF AgentInv, Truthful
  <1>3. NotAhead' /\ Listed' /\ BoundWasSeen'
    BY <1>1 DEF AgentInv, NotAhead, Listed, BoundWasSeen, AgentStays
  <1>4. Local' /\ BoundOnItsNode'
    BY <1>1, <1>2 DEF AgentInv, Local, BoundOnItsNode
  <1>5. Truthful'
    BY <1>1, <1>2 DEF AgentInv, Truthful, AgentStays
  <1> QED BY <1>3, <1>4, <1>5

\* AgentInv as seen by the TAP and the scan of one node.
NodeInv(n) ==
  /\ tap[n] # Nil => tap[n].gen <= generation
  /\ tap[n] # Nil => (tap[n].gen # 0 <=> tap[n].owner = "pvn")
  /\ tap[n] # Nil /\ tap[n].gen = generation => node = n
  /\ scan[n].gen <= generation
  /\ scan[n].call = "bind" => scan[n].gen # 0
  /\ scan[n].tap.gen # 0 <=> scan[n].tap.owner = "pvn"
  /\ scan[n].call = "resolve" =>
       /\ tap[n] # Nil => tap[n].gen \in {0, scan[n].tap.gen}
       /\ (scan[n].tap.owner = "pvn" /\ scan[n].tap.installed = "true")
            => <<n, scan[n].tap.gen>> \in witnessed
  /\ scan[n].gen = generation =>
      /\ scan[n].call = "bind" => node = n
      /\ (scan[n].call = "bound" /\ node # Nil) => <<node, generation>> \in witnessed
      /\ scan[n].call \in {"release", "unbound"} =>
           status \in {"detaching", "unbound"} /\ node \in {n, Nil}
      /\ (scan[n].call = "unbound" /\ tap[n] # Nil) => tap[n].gen # generation

\* The TAP of n does not have the present generation and will not get it.
Quiet(n) == /\ tap[n] # Nil => tap[n].gen # generation
            /\ ~(scan[n].call = "bind" /\ scan[n].gen = generation)

LEMMA NodeInvHolds == ASSUME AgentInv, NEW n \in Nodes PROVE NodeInv(n)
  BY DEF AgentInv, NotAhead, Listed, Local, BoundOnItsNode, NodeInv

\* A scan at rest has nothing to answer for.
LEMMA AtRest ==
  ASSUME NEW n \in Nodes, NodeInv(n), generation \in Nat, generation # 0,
         UNCHANGED portVars, tap'[n] = tap[n],
         scan'[n].call \in {"none", "failed"}, scan'[n].gen = 0,
         scan'[n].tap.gen = 0, scan'[n].tap.owner = "none"
  PROVE  NodeInv(n)'
  <1>1. generation' = generation /\ node' = node
    BY DEF portVars
  <1>2. scan'[n].gen <= generation'
    BY <1>1
  <1>3. /\ tap'[n] # Nil => tap'[n].gen <= generation'
        /\ tap'[n] # Nil => (tap'[n].gen # 0 <=> tap'[n].owner = "pvn")
        /\ tap'[n] # Nil /\ tap'[n].gen = generation' => node' = n
    BY <1>1 DEF NodeInv
  <1>4. scan'[n].gen # generation'
    BY <1>1
  <1> QED BY Zenon, <1>2, <1>3, <1>4 DEF NodeInv

-----------------------------------------------------------------------------
(* The steps of a node and its agent.                                      *)


\* A step of node n keeps AgentInv if it keeps NodeInv(n), and Quiet(n) at the
\* end of an attachment.
LEMMA NodeFrame ==
  ASSUME TypeOK, AgentInv, UNCHANGED <<portVars, reports>>, NEW n \in Nodes,
         \A k \in Nodes \ {n} : tap'[k] = tap[k] /\ scan'[k] = scan[k],
         witnessed \subseteq witnessed',
         NodeInv(n)',
         Quiet(n) /\ status \in {"detaching", "unbound"} => Quiet(n)'
  PROVE  NotAhead' /\ Listed' /\ Local' /\ Truthful' /\ BoundOnItsNode' /\ BoundWasSeen'
  <1>1. ASSUME NEW k \in Nodes PROVE NodeInv(k)'
    <2>1. CASE k = n
      BY <2>1
    <2>2. CASE k # n
      <3>1. NodeInv(k) /\ tap'[k] = tap[k] /\ scan'[k] = scan[k]
        BY <2>2, NodeInvHolds
      <3> QED BY SMTT(60), <3>1 DEF NodeInv
    <2> QED BY <2>1, <2>2
  <1>2. NotAhead' /\ Listed' /\ Local' /\ BoundOnItsNode'
    <2>1. \A m \in reports' : m.gen <= generation'
      BY DEF AgentInv, NotAhead
    <2>2. NotAhead'
      BY <1>1, <2>1 DEF NotAhead, NodeInv
    <2>3. Listed'
      BY <1>1 DEF Listed, NodeInv
    <2>4. Local' /\ BoundOnItsNode'
      BY <1>1 DEF Local, BoundOnItsNode, NodeInv
    <2> QED BY <2>2, <2>3, <2>4
  <1>3. BoundWasSeen'
    BY DEF AgentInv, BoundWasSeen
  <1>4. Truthful'
    <2> SUFFICES ASSUME NEW m \in reports', (m.gen = generation)'
                 PROVE  /\ (m.status = "bound" /\ node # Nil) => <<node, generation>> \in witnessed'
                        /\ m.status = "unbound" =>
                             /\ status \in {"detaching", "unbound"}
                             /\ \A k \in Nodes : Quiet(k)'
      BY DEF Truthful, Quiet
    <2>1. m \in reports /\ m.gen = generation
      OBVIOUS
    <2>2. (m.status = "bound" /\ node # Nil) => <<node, generation>> \in witnessed'
      BY <2>1 DEF AgentInv, Truthful
    <2>3. ASSUME m.status = "unbound"
          PROVE  status \in {"detaching", "unbound"} /\ \A k \in Nodes : Quiet(k)
      BY <2>1, <2>3 DEF AgentInv, Truthful, Quiet
    <2>4. ASSUME NEW k \in Nodes, k # n, Quiet(k) PROVE Quiet(k)'
      BY <2>4 DEF Quiet
    <2> QED BY <2>2, <2>3, <2>4
  <1> QED BY <1>2, <1>3, <1>4

LEMMA HostKeeps ==
  ASSUME TypeOK, AgentInv, NEW n \in Nodes, HostStep(n)
  PROVE  NotAhead' /\ Listed' /\ Local' /\ Truthful' /\ BoundOnItsNode' /\ BoundWasSeen'
  <1>1. /\ UNCHANGED <<portVars, reports, scan, witnessed>>
        /\ \A k \in Nodes \ {n} : tap'[k] = tap[k]
    BY DEF HostStep, TapAppears, TapGoes, OtherClaims, OvnInstalls, OvnReleases, TypeOK
  <1>2. tap'[n] # Nil => \/ tap'[n].gen = 0 /\ tap'[n].owner # "pvn"
                        \/ /\ tap[n] # Nil /\ tap'[n].gen = tap[n].gen
                           /\ tap'[n].owner = "pvn" /\ tap[n].owner = "pvn"
    BY SMTT(60), TapTypes DEF HostStep, TapAppears, TapGoes, OtherClaims, OvnInstalls, OvnReleases, TypeOK
  <1>3. NodeInv(n)'
    <2>0. /\ UNCHANGED <<generation, node, status, witnessed>> /\ scan'[n] = scan[n]
          /\ NodeInv(n) /\ generation \in Nat /\ generation # 0
          /\ tap'[n] # Nil => tap'[n].gen = 0 \/ (tap[n] # Nil /\ tap'[n].gen = tap[n].gen)
      BY <1>1, <1>2, Numbers, NodeInvHolds DEF portVars
    <2>1. tap'[n] # Nil => tap'[n].gen <= generation'
      BY <2>0 DEF NodeInv
    <2>2. tap'[n] # Nil => (tap'[n].gen # 0 <=> tap'[n].owner = "pvn")
      BY <1>2, <2>0 DEF NodeInv
    <2>3. tap'[n] # Nil /\ tap'[n].gen = generation' => node' = n
      BY <2>0 DEF NodeInv
    <2>4. scan'[n].call = "resolve" /\ tap'[n] # Nil => tap'[n].gen \in {0, scan'[n].tap.gen}
      BY <2>0 DEF NodeInv
    <2>5. scan'[n].gen = generation' /\ scan'[n].call = "unbound" /\ tap'[n] # Nil
             => tap'[n].gen # generation'
      BY <2>0 DEF NodeInv
    <2> QED BY Zenon, <2>0, <2>1, <2>2, <2>3, <2>4, <2>5 DEF NodeInv
  <1>4. Quiet(n) => Quiet(n)'
    BY <1>1, <1>2, Numbers DEF Quiet
  <1> QED BY <1>1, <1>3, <1>4, NodeFrame

LEMMA ListKeeps ==
  ASSUME TypeOK, AgentInv, NEW n \in Nodes, List(n)
  PROVE  NotAhead' /\ Listed' /\ Local' /\ Truthful' /\ BoundOnItsNode' /\ BoundWasSeen'
  <1>0. /\ NodeInv(n)
        /\ generation \in Nat /\ generation # 0 /\ scan[n].gen \in Nat /\ scan[n].tap.gen \in Nat
        /\ tap[n] # Nil => tap[n].gen \in Nat
        /\ NewTap.gen = 0 /\ NewTap.owner = "none"
        /\ Idle.call = "none" /\ Idle.gen = 0 /\ Idle.tap = NewTap
    BY Numbers, NodeInvHolds, TapTypes
  <1>1. /\ UNCHANGED <<portVars, reports, tap>>
        /\ \A k \in Nodes \ {n} : scan'[k] = scan[k]
        /\ tap[n] # Nil
    BY DEF List, TypeOK
  <1>2. /\ scan'[n].call = "resolve" /\ scan'[n].tap = tap[n] /\ scan'[n].gen = 0
    BY DEF List, TypeOK
  <1>3. /\ witnessed \subseteq witnessed'
        /\ tap[n].owner = "pvn" /\ tap[n].installed = "true" => <<n, tap[n].gen>> \in witnessed'
    BY DEF List
  <1>4. NodeInv(n)'
    BY SMTT(60), <1>1, <1>2, <1>3, <1>0 DEF NodeInv
  <1>5. Quiet(n) => Quiet(n)'
    BY <1>1, <1>2 DEF Quiet
  <1> QED BY <1>1, <1>3, <1>4, <1>5, NodeFrame

LEMMA ResolveKeeps ==
  ASSUME TypeOK, AgentInv, NEW n \in Nodes, Resolve(n)
  PROVE  NotAhead' /\ Listed' /\ Local' /\ Truthful' /\ BoundOnItsNode' /\ BoundWasSeen'
  <1>0. /\ NodeInv(n)
        /\ generation \in Nat /\ generation # 0 /\ scan[n].gen \in Nat /\ scan[n].tap.gen \in Nat
        /\ tap[n] # Nil => tap[n].gen \in Nat
        /\ NewTap.gen = 0 /\ NewTap.owner = "none"
        /\ Idle.call = "none" /\ Idle.gen = 0 /\ Idle.tap = NewTap
    BY Numbers, NodeInvHolds, TapTypes
  <1> DEFINE d == Decision(n, scan[n].tap)
  <1>1. /\ UNCHANGED <<portVars, reports, tap, witnessed>>
        /\ scan[n].call = "resolve"
        /\ \A k \in Nodes \ {n} : scan'[k] = scan[k]
    BY DEF Resolve, TypeOK
  <1>2. /\ scan'[n].call = d /\ scan'[n].tap = NewTap /\ scan'[n].gen \in {0, generation}
        /\ d # "resolve" /\ (d = "bind" => scan'[n].gen = generation)
    <2>1. generation \in 0..MaxGen
      BY DEF TypeOK
    <2>2. scan'[n] = Going(d, generation)
      BY DEF Resolve, TypeOK
    <2> HIDE DEF d
    <2>3. d \in {"none", "clear", "release", "unbound", "bind", "bound"}
      BY DecisionTypes DEF d
    <2> QED BY SMTT(60), <2>1, <2>2, <2>3, GoingTypes
  <1>3. /\ d = "bind" => status \notin {"detaching", "unbound"}
        /\ d \in {"bind", "bound", "release", "unbound"} => node = n
        /\ d \in {"release", "unbound"} => status = "detaching"
        /\ d = "unbound" => scan[n].tap.owner # "pvn"
        /\ d = "bound" => /\ scan[n].tap.owner = "pvn" /\ scan[n].tap.installed = "true"
                          /\ scan[n].tap.gen = generation
    BY DEF Decision, Unmanaged, Released, Attached, Found, Bindable
  <1> HIDE DEF d
  <1>4. /\ d = "bound" => <<n, generation>> \in witnessed
        /\ d = "unbound" /\ tap[n] # Nil => tap[n].gen = 0
    BY <1>1, <1>3, NodeInvHolds DEF NodeInv
  <1>5. NodeInv(n)'
    BY SMTT(60), <1>1, <1>2, <1>3, <1>4, <1>0 DEF NodeInv
  <1>6. Quiet(n) /\ status \in {"detaching", "unbound"} => Quiet(n)'
    BY <1>1, <1>2, <1>3 DEF Quiet
  <1> QED BY <1>1, <1>5, <1>6, NodeFrame

LEMMA ClearKeeps ==
  ASSUME TypeOK, AgentInv, NEW n \in Nodes, ClearManagedBinding(n)
  PROVE  NotAhead' /\ Listed' /\ Local' /\ Truthful' /\ BoundOnItsNode' /\ BoundWasSeen'
  <1>0. /\ NodeInv(n)
        /\ generation \in Nat /\ generation # 0 /\ scan[n].gen \in Nat /\ scan[n].tap.gen \in Nat
        /\ tap[n] # Nil => tap[n].gen \in Nat
        /\ NewTap.gen = 0 /\ NewTap.owner = "none"
        /\ Idle.call = "none" /\ Idle.gen = 0 /\ Idle.tap = NewTap
    BY Numbers, NodeInvHolds, TapTypes
  <1>1. /\ UNCHANGED <<portVars, reports, witnessed>>
        /\ \A k \in Nodes \ {n} : tap'[k] = tap[k] /\ scan'[k] = scan[k]
        /\ tap'[n] # Nil => tap'[n].gen = 0 /\ tap'[n].owner = "none"
    BY DEF ClearManagedBinding, TypeOK
  <1>2. \/ scan'[n] = Idle
        \/ scan[n].call = "release" /\ scan'[n] = Going("unbound", scan[n].gen)
    BY DEF ClearManagedBinding, TypeOK
  <1>3. /\ scan'[n].call \in {"none", "unbound"} /\ scan'[n].tap = NewTap
        /\ scan'[n].gen \in {0, scan[n].gen}
        /\ scan'[n].call = "unbound" => scan[n].call = "release" /\ scan'[n].gen = scan[n].gen
    <2>1. scan[n].gen \in 0..MaxGen
      BY DEF TypeOK, Scan
    <2> QED BY <1>2, <2>1, GoingTypes, TapTypes
  <1>4. NodeInv(n)'
    BY SMTT(60), <1>1, <1>3, <1>0 DEF NodeInv
  <1>5. Quiet(n)'
    BY <1>1, <1>3, Numbers DEF Quiet
  <1> QED BY <1>1, <1>4, <1>5, NodeFrame

LEMMA SetKeeps ==
  ASSUME TypeOK, AgentInv, NEW n \in Nodes, SetManagedBinding(n)
  PROVE  NotAhead' /\ Listed' /\ Local' /\ Truthful' /\ BoundOnItsNode' /\ BoundWasSeen'
  <1>0. /\ NodeInv(n)
        /\ generation \in Nat /\ generation # 0 /\ scan[n].gen \in Nat /\ scan[n].tap.gen \in Nat
        /\ tap[n] # Nil => tap[n].gen \in Nat
        /\ NewTap.gen = 0 /\ NewTap.owner = "none"
        /\ Idle.call = "none" /\ Idle.gen = 0 /\ Idle.tap = NewTap
    BY Numbers, NodeInvHolds, TapTypes
  <1>1. /\ UNCHANGED <<portVars, reports, witnessed>>
        /\ \A k \in Nodes \ {n} : tap'[k] = tap[k] /\ scan'[k] = scan[k]
        /\ tap'[n] # Nil => tap'[n].gen = scan[n].gen /\ tap'[n].owner = "pvn"
        /\ scan[n].call = "bind" /\ scan'[n] = Idle
    BY DEF SetManagedBinding, TypeOK
  <1>2. scan[n].gen # 0
    BY <1>1, NodeInvHolds DEF NodeInv
  <1>3. NodeInv(n)'
    BY SMTT(60), <1>1, <1>2, <1>0 DEF NodeInv
  <1>4. Quiet(n) => Quiet(n)'
    BY <1>1, TapTypes DEF Quiet
  <1> QED BY <1>1, <1>3, <1>4, NodeFrame

LEMMA FailKeeps ==
  ASSUME TypeOK, AgentInv, NEW n \in Nodes, ScanFails(n)
  PROVE  NotAhead' /\ Listed' /\ Local' /\ Truthful' /\ BoundOnItsNode' /\ BoundWasSeen'
  <1>0. /\ NodeInv(n)
        /\ generation \in Nat /\ generation # 0 /\ scan[n].gen \in Nat /\ scan[n].tap.gen \in Nat
        /\ tap[n] # Nil => tap[n].gen \in Nat
        /\ NewTap.gen = 0 /\ NewTap.owner = "none"
        /\ Failed.call = "failed" /\ Failed.gen = 0 /\ Failed.tap = NewTap
    BY Numbers, NodeInvHolds, TapTypes
  <1>1. /\ UNCHANGED <<portVars, reports, witnessed, tap>>
        /\ \A k \in Nodes \ {n} : scan'[k] = scan[k]
        /\ scan'[n] = Failed
    BY DEF ScanFails, TypeOK
  <1>2. NodeInv(n)'
    BY <1>0, <1>1, AtRest
  <1>3. Quiet(n) => Quiet(n)'
    BY <1>1, TapTypes DEF Quiet
  <1> QED BY <1>1, <1>2, <1>3, NodeFrame

\* What the agent reports is true when it says so, and Truthful keeps it so.
LEMMA ReportKeeps ==
  ASSUME TypeOK, AgentInv, NEW n \in Nodes, ReportPort(n)
  PROVE  NotAhead' /\ Listed' /\ Local' /\ Truthful' /\ BoundOnItsNode' /\ BoundWasSeen'
  <1>0. /\ NodeInv(n)
        /\ generation \in Nat /\ generation # 0 /\ scan[n].gen \in Nat /\ scan[n].tap.gen \in Nat
        /\ tap[n] # Nil => tap[n].gen \in Nat
        /\ NewTap.gen = 0 /\ NewTap.owner = "none"
        /\ Idle.call = "none" /\ Idle.gen = 0 /\ Idle.tap = NewTap
    BY Numbers, NodeInvHolds, TapTypes
  <1> DEFINE new == [gen |-> scan[n].gen, status |-> scan[n].call]
  <1>1. /\ UNCHANGED <<portVars, witnessed, tap>>
        /\ \A k \in Nodes \ {n} : scan'[k] = scan[k]
        /\ scan'[n] = Idle
        /\ reports' = reports \cup {new}
        /\ scan[n].call \in {"bound", "unbound"}
    BY DEF ReportPort, TypeOK
  <1>2. new.gen = scan[n].gen /\ new.status = scan[n].call
    OBVIOUS
  <1> HIDE DEF new
  <1>3. ASSUME NEW k \in Nodes PROVE NodeInv(k)'
    <2>1. CASE k = n
      <3>1. NodeInv(n)'
        BY <1>0, <1>1, AtRest
      <3> QED BY <2>1, <3>1
    <2>2. CASE k # n
      <3>1. NodeInv(k) /\ scan'[k] = scan[k]
        BY <1>1, <2>2, NodeInvHolds
      <3> QED BY SMTT(60), <1>1, <3>1 DEF NodeInv
    <2> QED BY <2>1, <2>2
  <1>4. NotAhead'
    <2>1. \A m \in reports' : m.gen <= generation'
      BY <1>1, <1>2, NodeInvHolds DEF AgentInv, NotAhead, NodeInv
    <2> QED BY <1>3, <2>1 DEF NotAhead, NodeInv
  <1>5. Listed'
    BY <1>3 DEF Listed, NodeInv
  <1>6. Local' /\ BoundOnItsNode'
    BY <1>3 DEF Local, BoundOnItsNode, NodeInv
  <1>7. BoundWasSeen'
    BY <1>1 DEF AgentInv, BoundWasSeen
  <1>8. \A k \in Nodes : Quiet(k) => Quiet(k)'
    BY <1>1, TapTypes DEF Quiet
  <1>9. ASSUME new.gen = generation, new.status = "unbound"
        PROVE  status \in {"detaching", "unbound"} /\ \A k \in Nodes : Quiet(k)
    <2>1. /\ status \in {"detaching", "unbound"} /\ node \in {n, Nil}
          /\ Quiet(n)
      BY <1>2, <1>9, NodeInvHolds DEF NodeInv, Quiet
    <2>2. ASSUME NEW k \in Nodes, k # n PROVE Quiet(k)
      BY <2>1, <2>2, NodeInvHolds, NodesAssumption DEF NodeInv, Quiet
    <2> QED BY <2>1, <2>2
  <1>10. (new.gen = generation /\ new.status = "bound" /\ node # Nil)
            => <<node, generation>> \in witnessed
    BY <1>2, NodeInvHolds DEF NodeInv
  <1>11. ASSUME NEW m \in reports, m.gen = generation
         PROVE  /\ (m.status = "bound" /\ node # Nil) => <<node, generation>> \in witnessed
                /\ m.status = "unbound" =>
                     status \in {"detaching", "unbound"} /\ \A k \in Nodes : Quiet(k)
    BY <1>11 DEF AgentInv, Truthful, Quiet
  <1>12. Truthful'
    <2> SUFFICES ASSUME NEW m \in reports', (m.gen = generation)'
                 PROVE  /\ (m.status = "bound" /\ node # Nil) => <<node, generation>> \in witnessed
                        /\ m.status = "unbound" =>
                             /\ status \in {"detaching", "unbound"}
                             /\ \A k \in Nodes : Quiet(k)'
      BY <1>1 DEF Truthful, Quiet
    <2>1. m.gen = generation /\ (m = new \/ m \in reports)
      BY <1>1
    <2> QED BY <1>8, <1>9, <1>10, <1>11, <2>1
  <1> QED BY <1>4, <1>5, <1>6, <1>7, <1>12

LEMMA RequestKeeps ==
  ASSUME TypeOK, StillFresh, AgentInv, NEW r \in Requests, RequestStep(r)
  PROVE  NotAhead' /\ Listed' /\ Local' /\ Truthful' /\ BoundOnItsNode' /\ BoundWasSeen'
  <1>1. AgentStays
    BY DEF RequestStep, Send, Load, BeginPortAction, Update, CompletePortAction, Crash, AgentStays
  <1>2. CASE Update(r)
    <2>1. CASE Applies(r) /\ Transition(body[r])
      <3>1. body[r] # Nil /\ body[r] \in Body
        BY <1>2 DEF Update, TypeOK
      <3>2. Fresh(body[r])
        BY <1>2, <2>1, <3>1 DEF StillFresh, Update, Applies
      <3>3. body[r].act \in {"attach", "detach"} /\ (body[r].act = "attach" => body[r].node \in Nodes)
        BY <3>1 DEF Body
      <3>4. CASE body[r].act = "attach"
        <4>1. Attach(body[r].node)
          BY <2>1, <3>2, <3>4 DEF Transition, Fresh, Attach
        <4> QED BY <1>1, <3>3, <3>4, <4>1, AttachKeeps
      <3>5. CASE body[r].act = "detach"
        <4>1. Detach
          BY <2>1, <3>2, <3>5 DEF Transition, Fresh, Detach
        <4> QED BY <1>1, <4>1, DetachKeeps
      <3> QED BY <3>3, <3>4, <3>5
    <2>2. CASE UNCHANGED portVars
      BY <1>1, <2>2, DetachKeeps
    <2> QED BY <1>2, <2>1, <2>2 DEF Update
  <1>3. CASE ~Update(r)
    <2>1. UNCHANGED portVars
      BY <1>3 DEF RequestStep, Send, Load, BeginPortAction, CompletePortAction, Crash
    <2> QED BY <1>1, <2>1, DetachKeeps
  <1> QED BY <1>2, <1>3

LEMMA DeliverKeeps ==
  ASSUME TypeOK, AgentInv, NEW m \in reports, DeliverReport(m)
  PROVE  NotAhead' /\ Listed' /\ Local' /\ Truthful' /\ BoundOnItsNode' /\ BoundWasSeen'
  <1>1. AgentStays
    BY DEF DeliverReport, AgentStays
  <1>2. CASE m.gen = generation /\ m.status = "bound" /\ ReportBound
    BY <1>1, <1>2, BoundKeeps
  <1>3. CASE m.gen = generation /\ m.status = "unbound" /\ ReportUnbound
    BY <1>1, <1>3, UnboundKeeps
  <1>4. CASE UNCHANGED portVars
    BY <1>1, <1>4, DetachKeeps
  <1> QED BY <1>2, <1>3, <1>4 DEF DeliverReport, StaleReport

LEMMA AgentInvStep ==
  ASSUME TypeOK, StillFresh, AgentInv, [Next]_vars
  PROVE  AgentInv'
  <1>0. NodeKnown'
    BY NodeKnownStep DEF AgentInv
  <1>1. ASSUME NEW r \in Requests, RequestStep(r) PROVE AgentInv'
    BY <1>0, <1>1, RequestKeeps DEF AgentInv
  <1>2. ASSUME NEW n \in Nodes, AgentStep(n) \/ ScanFails(n) \/ HostStep(n) PROVE AgentInv'
    <2>1. CASE AgentStep(n)
      BY <1>0, <2>1, ListKeeps, ResolveKeeps, ClearKeeps, SetKeeps, ReportKeeps
         DEF AgentInv, AgentStep
    <2>2. CASE ScanFails(n)
      BY <1>0, <2>2, FailKeeps DEF AgentInv
    <2>3. CASE HostStep(n)
      BY <1>0, <2>3, HostKeeps DEF AgentInv
    <2> QED BY <1>2, <2>1, <2>2, <2>3
  <1>3. ASSUME NEW m \in reports, DeliverReport(m) PROVE AgentInv'
    BY <1>0, <1>3, DeliverKeeps DEF AgentInv
  <1>4. CASE EditPort \/ DeletePort \/ PurgePort \/ Realize \/ UNCHANGED vars
    <2>1. AgentStays /\ UNCHANGED portVars
      BY <1>4 DEF EditPort, DeletePort, PurgePort, Realize, vars, AgentStays
    <2> QED BY <1>0, <2>1, DetachKeeps DEF AgentInv
  <1> QED BY <1>1, <1>2, <1>3, <1>4 DEF Next

-----------------------------------------------------------------------------
(* The theorems.                                                           *)

LEMMA InitInv == Init => IInv
  <1> SUFFICES ASSUME Init PROVE IInv
    OBVIOUS
  <1>1. TypeOK
    BY InitType
  <1>2. Recorded /\ StillFresh /\ NodeKnown /\ BoundWasSeen
    BY DEF Init, PortInit, Recorded, StillFresh, NodeKnown, BoundWasSeen
  <1>3. NotAhead /\ Listed /\ Local /\ Truthful /\ BoundOnItsNode
    BY SMTT(60), TapTypes DEF Init, PortInit, NotAhead, Listed, Local, Truthful, BoundOnItsNode
  <1> QED BY <1>1, <1>2, <1>3 DEF IInv

LEMMA NextInv == IInv /\ [Next]_vars => IInv'
  <1> SUFFICES ASSUME IInv, [Next]_vars PROVE IInv'
    OBVIOUS
  <1>1. TypeOK /\ Recorded /\ StillFresh /\ AgentInv
    BY DEF IInv, AgentInv
  <1>2. TypeOK' /\ Recorded' /\ StillFresh'
    BY <1>1, TypeStep, RecordedStep, StillFreshStep
  <1>3. AgentInv'
    BY <1>1, AgentInvStep
  <1> QED BY <1>2, <1>3 DEF IInv, AgentInv

\* The invariant of requests, scans and reports holds in every reachable state
\* of the attach, detach and report handlers and the agents.
THEOREM PortInductive == Spec => []IInv
  BY InitInv, NextInv, PTL DEF Spec

\* A TAP carries the port's generation only on the port's node, whatever
\* interleaving of handlers, late reports and failing scans led there.
THEOREM BoundStaysLocal == Spec => []BoundOnItsNode
  <1>1. IInv => BoundOnItsNode
    BY DEF IInv
  <1> QED BY <1>1, PortInductive, PTL

\* reportPort never stores bound for an attachment no agent saw installed.
THEOREM BoundIsTrue == Spec => []BoundWasSeen
  <1>1. IInv => BoundWasSeen
    BY DEF IInv
  <1> QED BY <1>1, PortInductive, PTL

\* attachPort and detachPort answer success only for a stored transition.
THEOREM SuccessIsTrue == Spec => []OkWasDone
  <1>1. IInv => OkWasDone
    BY DEF IInv, Recorded, OkWasDone
  <1> QED BY <1>1, PortInductive, PTL

\* Handlers, reports and retries together implement the binding cycle: no
\* transition of it is skipped, repeated or taken at another's generation.
THEOREM LifecycleKept == Spec => PortSpec
  <1>1. Init => PortInit
    BY DEF Init
  <1>2. IInv /\ [Next]_vars => [PortNext]_portVars
    BY PortMoves DEF IInv
  <1> QED BY <1>1, <1>2, PortInductive, PTL DEF Spec, PortSpec

==============================================================================
