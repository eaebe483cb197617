----------------------------- MODULE PortBinding -----------------------------
(***************************************************************************)
(* One port, the API requests that attach and detach it                    *)
(* (internal/api/port_lifecycle.go), the agent of every node that binds    *)
(* the VM's TAP to it (internal/agent/watcher.go) and the reports in       *)
(* between.  A request is four store calls; its client may send it again   *)
(* with the same idempotency key after any of them was lost.  An agent's   *)
(* scan is one OVS or manager call per step, and works on what it listed   *)
(* and resolved.  A report the agent gave up on can still arrive.          *)
(*                                                                         *)
(* Abstractions. The port belongs to one VM NIC, and its MAC address never *)
(* changes. node is both node_id and requested_chassis; a migration, which *)
(* requests two chassis, is not part of this module. Nodes exist and are   *)
(* enabled. No code stores the binding status "error", and the resource    *)
(* state "error" is a pending revision that is not realized yet. admin     *)
(* stands for the fields a user may edit. A report loads the port and      *)
(* writes it with a CAS on the loaded revision, so it is one step or is    *)
(* refused. Retries of one request do not overlap.                         *)
(***************************************************************************)
EXTENDS PortLifecycle

CONSTANTS Requests,  \* attach and detach requests, one idempotency key each
          Flaky,     \* the requests whose handler may die, the nodes whose scan may fail
          Shared,    \* the nodes where another controller uses the bridge
          MaxGen,    \* bound on generations
          MaxRev     \* edits and deletes stop at this revision

ASSUME BoundsAssumption == MaxGen \in Nat \ {0} /\ MaxRev \in Nat

VARIABLES state,   \* of the resource, "ready" when the latest revision is realized
          rev,     \* its revision
          admin,   \* admin_state_up
          tap,     \* per node, the OVS interface of the VM's NIC, if it exists
          scan,    \* per node, what the agent's scan does next
          reports, \* reports on their way to the manager
          body,    \* per request, what it asks for
          at,      \* per request, the handler's next call
          image,   \* per request, the user fields of the port it loaded
          op,      \* per request, its durable operation
          token,   \* per request, the fingerprint its Update was recorded with
          answer,  \* per request, what the client was told
          done,    \* history: the requests whose transition was stored
          witnessed \* history: <<n, g>> if n's TAP was listed as installed for g

resVars == <<state, rev, admin>>
agentVars == <<tap, scan, reports, witnessed>>
callVars == <<body, at, image, op, token, answer, done>>
vars == <<portVars, resVars, agentVars, callVars>>

Gens == 1..MaxGen

Tap == [gen : 0..MaxGen, owner : {"none", "pvn", "other"}, installed : {"false", "true"}]

NewTap == [gen |-> 0, owner |-> "none", installed |-> "false"]

Report == [gen : 0..MaxGen, status : {"bound", "unbound"}]

Body == [act : {"attach"}, node : Nodes, gen : 1..(MaxGen - 1), rev : Nat]
          \cup [act : {"detach"}, node : {Nil}, gen : Gens, rev : Nat]

\* A scan is idle, has listed a TAP, or has an OVS or report call to make.
Idle == [call |-> "none", tap |-> NewTap, gen |-> 0]

\* The last scan ended with an error; the ticker starts the next one.
Failed == [call |-> "failed", tap |-> NewTap, gen |-> 0]

Going(call, gen) ==
  IF call = "none" THEN Idle ELSE [call |-> call, tap |-> NewTap, gen |-> gen]

Scan == [call : {"none", "failed", "resolve", "clear", "release", "unbound", "bind", "bound"},
         tap : Tap, gen : 0..MaxGen]

TypeOK == /\ status \in Statuses /\ generation \in Gens /\ node \in Nodes \cup {Nil}
          /\ state \in {"pending", "ready", "deleting", "absent"}
          /\ rev \in Nat /\ admin \in {"down", "up"}
          /\ tap \in [Nodes -> Tap \cup {Nil}]
          /\ scan \in [Nodes -> Scan]
          /\ reports \subseteq Report
          /\ body \in [Requests -> Body \cup {Nil}]
          /\ at \in [Requests -> {"none", "begin", "check", "update", "complete"}]
          /\ \A r \in Requests : at[r] # "none" => body[r] # Nil
          /\ image \in [Requests -> {"down", "up"}]
          /\ op \in [Requests -> {"none", "queued", "succeeded"}]
          /\ token \in [Requests -> {"none", "down", "up"}]
          /\ answer \in [Requests -> {"none", "ok", "refused"}]
          /\ done \subseteq Requests
          /\ witnessed \subseteq Nodes \X (0..MaxGen)

\* A provisioned port: unbound, generation 1, not realized yet.
Init == /\ PortInit
        /\ state = "pending" /\ rev = 1 /\ admin = "up"
        /\ tap = [n \in Nodes |-> Nil]
        /\ scan = [n \in Nodes |-> Idle]
        /\ reports = {} /\ witnessed = {}
        /\ body = [r \in Requests |-> Nil]
        /\ at = [r \in Requests |-> "none"]
        /\ image = [r \in Requests |-> "up"]
        /\ op = [r \in Requests |-> "none"]
        /\ token = [r \in Requests |-> "none"]
        /\ answer = [r \in Requests |-> "none"]
        /\ done = {}

-----------------------------------------------------------------------------
(* Attach and detach requests.                                             *)

\* A new desired revision of the port: pending, a tombstone included.
Written == /\ rev' = rev + 1
           /\ state' = "pending"
           /\ UNCHANGED admin

\* Whatever asked for it, the reconciler realizes the latest revision or fails.
Reconciled(s) == {s, IF s = "pending" THEN "ready" ELSE s}

Request(act, n) == [act |-> act, node |-> n, gen |-> generation, rev |-> rev]

\* The client reads the port and asks for a change of exactly what it read.
Send(r) == /\ body[r] = Nil
           /\ state # "absent"
           /\ \/ \E n \in Nodes : /\ generation < MaxGen
                                  /\ body' = [body EXCEPT ![r] = Request("attach", n)]
              \/ body' = [body EXCEPT ![r] = Request("detach", Nil)]
           /\ UNCHANGED <<portVars, resVars, agentVars, at, image, op, token, answer, done>>

Fresh(b) == /\ rev = b.rev /\ generation = b.gen
            /\ IF b.act = "attach" THEN status = "unbound" ELSE status \in {"binding", "bound"}

\* The request may have been carried out before.
ReplayCandidate(b) ==
  /\ rev > b.rev
  /\ IF b.act = "attach"
     THEN generation = b.gen + 1 /\ node = b.node /\ status \in {"binding", "bound"}
     ELSE generation = b.gen /\ status \in {"detaching", "unbound"}

Acceptable(b) == /\ state # "absent"
                 /\ b.act = "attach" => admin = "up"
                 /\ Fresh(b) \/ ReplayCandidate(b)

Refuse(r) == /\ answer' = [answer EXCEPT ![r] = "refused"]
             /\ at' = [at EXCEPT ![r] = "none"]

Succeed(r) == /\ answer' = [answer EXCEPT ![r] = "ok"]
              /\ at' = [at EXCEPT ![r] = "none"]

\* The handler's first call: it loads the port and decides whether to go on.
\* A detach that is over can only be a replay.
Load(r) ==
  /\ body[r] # Nil /\ at[r] = "none" /\ answer[r] = "none"
  /\ IF Acceptable(body[r])
     THEN /\ at' = [at EXCEPT ![r] = IF status = "unbound" /\ body[r].act = "detach"
                                     THEN "check" ELSE "begin"]
          /\ image' = [image EXCEPT ![r] = admin]
          /\ UNCHANGED answer
     ELSE Refuse(r) /\ UNCHANGED image
  /\ UNCHANGED <<portVars, resVars, agentVars, body, op, token, done>>

\* beginPortAction: the operation is unique per payload, and its key replays it.
TakenByAnother(r) == \E q \in Requests \ {r} : op[q] # "none" /\ body[q] = body[r]

\* Mutant of BeginPortAction: the operation is recorded as completed at once.
BeginPortActionCompleted(r) ==
  /\ at[r] \in {"begin", "check"}
  /\ op' = [op EXCEPT ![r] = "succeeded"]
  /\ IF op[r] = "succeeded"
     THEN Succeed(r)
     ELSE at' = [at EXCEPT ![r] = "update"] /\ UNCHANGED answer
  /\ UNCHANGED <<portVars, resVars, agentVars, body, image, token, done>>

BeginPortAction(r) ==
  /\ at[r] \in {"begin", "check"}
  /\ \/ /\ op[r] = "none" /\ TakenByAnother(r)
        /\ Refuse(r) /\ UNCHANGED op
     \/ /\ op[r] = "succeeded"
        /\ IF state = "absent" THEN Refuse(r) ELSE Succeed(r)
        /\ UNCHANGED op
     \/ /\ op[r] = "queued" \/ (op[r] = "none" /\ ~TakenByAnother(r))
        /\ op' = [op EXCEPT ![r] = "queued"]
        /\ IF at[r] = "check" THEN Refuse(r)
           ELSE at' = [at EXCEPT ![r] = "update"] /\ UNCHANGED answer
  /\ UNCHANGED <<portVars, resVars, agentVars, body, image, token, done>>

Transition(b) ==
  IF b.act = "attach" THEN status' = "binding" /\ generation' = b.gen + 1 /\ node' = b.node
                      ELSE status' = "detaching" /\ UNCHANGED <<generation, node>>

\* Mutant of Applies: the revision the client named is not compared.
AppliesToAnyRevision(r) == token[r] = "none" /\ state # "absent"

Applies(r) == token[r] = "none" /\ state # "absent" /\ rev = body[r].rev

\* Update of the port under the operation's key: a replay if the body is the one
\* recorded, else a CAS on the revision the client named.
Update(r) ==
  /\ at[r] = "update"
  /\ \/ /\ token[r] = image[r]
        /\ at' = [at EXCEPT ![r] = "complete"]
        /\ UNCHANGED <<portVars, resVars, token, answer, done>>
     \/ /\ Applies(r)
        /\ Transition(body[r]) /\ Written
        /\ token' = [token EXCEPT ![r] = image[r]]
        /\ done' = done \cup {r}
        /\ at' = [at EXCEPT ![r] = "complete"]
        /\ UNCHANGED answer
     \/ /\ token[r] # image[r] /\ ~Applies(r)
        /\ Refuse(r) /\ UNCHANGED <<portVars, resVars, token, done>>
  /\ UNCHANGED <<agentVars, body, image, op>>

\* The handler reconciles, completes the operation (a failure is only logged)
\* and answers.
CompletePortAction(r) ==
  /\ at[r] = "complete"
  /\ state' \in Reconciled(state)
  /\ \E s \in {op[r], "succeeded"} : op' = [op EXCEPT ![r] = s]
  /\ Succeed(r)
  /\ UNCHANGED <<portVars, rev, admin, agentVars, body, image, token, done>>

\* The manager dies or a call fails; the client sends the request again.
Crash(r) == /\ r \in Flaky /\ at[r] # "none"
            /\ at' = [at EXCEPT ![r] = "none"]
            /\ UNCHANGED <<portVars, resVars, agentVars, body, image, op, token, answer, done>>

-----------------------------------------------------------------------------
(* Everything else that writes the port.                                   *)

\* PUT may change the user's fields only.
EditPort == /\ state # "absent" /\ rev < MaxRev
            /\ admin' = IF admin = "up" THEN "down" ELSE "up"
            /\ rev' = rev + 1 /\ state' = "pending"
            /\ UNCHANGED <<portVars, agentVars, callVars>>

DeletePort == /\ state # "absent" /\ rev < MaxRev
              /\ state' = "deleting" /\ rev' = rev + 1
              /\ UNCHANGED <<admin, portVars, agentVars, callVars>>

PurgePort == /\ state = "deleting"
             /\ state' = "absent"
             /\ UNCHANGED <<rev, admin, portVars, agentVars, callVars>>

Realize == /\ state = "pending"
           /\ state' = "ready"
           /\ UNCHANGED <<rev, admin, portVars, agentVars, callVars>>

-----------------------------------------------------------------------------
(* The agent of a node.                                                    *)

\* ListInterfaces: the scan works on this copy of the external IDs.
List(n) ==
  /\ scan[n].call \in {"none", "failed"} /\ tap[n] # Nil
  /\ scan' = [scan EXCEPT ![n] = [call |-> "resolve", tap |-> tap[n], gen |-> 0]]
  /\ witnessed' = witnessed \cup (IF tap[n].owner = "pvn" /\ tap[n].installed = "true"
                                 THEN {<<n, tap[n].gen>>} ELSE {})
  /\ UNCHANGED <<portVars, resVars, tap, reports, callVars>>

\* LookupRuntimePorts: the port of this VM NIC on this node.
Found(n) == state # "absent" /\ node = n

Bindable == status \in {"binding", "bound"} /\ admin = "up" /\ state = "ready"

\* Mutant of Unmanaged: what PVN left on the TAP of a port that is not here stays.
UnmanagedStays(t) == "none"

\* The scan's answer to a TAP with no port to bind: PVN's own keys go.
Unmanaged(t) == IF t.owner = "pvn" THEN "clear" ELSE "none"

\* Mutant of Released: unbound is reported before the TAP is cleared.
ReportedFirst(t) == "unbound"

\* Mutant of Released: only the scan that clears the TAP reports.
ReportedOnce(t) == IF t.owner = "pvn" THEN "release" ELSE "none"

\* ... to a detaching port: clear and report, or report what is clear already.
Released(t) == IF t.owner = "pvn" THEN "release" ELSE "unbound"

\* Mutant of Attached: ovn-installed is not waited for.
AttachedAtOnce(t) ==
  IF t.owner = "pvn" /\ t.gen = generation THEN IF status = "binding" THEN "bound" ELSE "none"
  ELSE "bind"

\* Mutant of Attached: only a TAP that is already bound is reported.
AttachedWrongStatus(t) ==
  IF t.owner = "pvn" /\ t.gen = generation
  THEN IF status = "bound" /\ t.installed = "true" THEN "bound" ELSE "none"
  ELSE "bind"

\* ... to a port to bind: write the binding, or report it once OVN installed it.
Attached(t) ==
  IF t.owner = "pvn" /\ t.gen = generation
  THEN IF status = "binding" /\ t.installed = "true" THEN "bound" ELSE "none"
  ELSE "bind"

\* What a scan does about the TAP t it listed once the manager has resolved it.
Decision(n, t) ==
  IF ~Found(n) \/ (status # "detaching" /\ ~Bindable) THEN Unmanaged(t)
  ELSE IF t.owner = "other" THEN "none"
  ELSE IF status = "detaching" THEN Released(t) ELSE Attached(t)

Resolve(n) ==
  /\ scan[n].call = "resolve"
  /\ scan' = [scan EXCEPT ![n] = Going(Decision(n, scan[n].tap), generation)]
  /\ UNCHANGED <<portVars, resVars, tap, reports, witnessed, callVars>>

\* ClearManagedBinding; a TAP that is gone is no error.  ovn-installed stays.
ClearManagedBinding(n) ==
  /\ scan[n].call \in {"clear", "release"}
  /\ tap' = [tap EXCEPT ![n] = IF tap[n] = Nil THEN Nil
                               ELSE [gen |-> 0, owner |-> "none", installed |-> tap[n].installed]]
  /\ scan' = [scan EXCEPT ![n] = IF scan[n].call = "release"
                                 THEN Going("unbound", scan[n].gen) ELSE Idle]
  /\ UNCHANGED <<portVars, resVars, reports, witnessed, callVars>>

SetManagedBinding(n) ==
  /\ scan[n].call = "bind"
  /\ tap' = [tap EXCEPT ![n] = IF tap[n] = Nil THEN Nil
                               ELSE [gen |-> scan[n].gen, owner |-> "pvn", installed |-> tap[n].installed]]
  /\ scan' = [scan EXCEPT ![n] = Idle]
  /\ UNCHANGED <<portVars, resVars, reports, witnessed, callVars>>

\* ReportPort: the agent does not depend on the answer.
ReportPort(n) ==
  /\ scan[n].call \in {"bound", "unbound"}
  /\ reports' = reports \cup {[gen |-> scan[n].gen, status |-> scan[n].call]}
  /\ scan' = [scan EXCEPT ![n] = Idle]
  /\ UNCHANGED <<portVars, resVars, tap, witnessed, callVars>>

\* Any call of the scan fails, or the agent restarts.
ScanFails(n) == /\ n \in Flaky /\ scan[n].call \notin {"none", "failed"}
                /\ scan' = [scan EXCEPT ![n] = Failed]
                /\ UNCHANGED <<portVars, resVars, tap, reports, witnessed, callVars>>

\* Mutant of StaleReport: a report is for whatever attachment the port has.
NoReportIsStale(m) == state = "absent"

\* A report is accepted if it makes or confirms a transition.
Reportable == {<<"bound", "binding">>, <<"unbound", "detaching">>,
               <<"bound", "bound">>, <<"unbound", "unbound">>}

StaleReport(m) == state = "absent" \/ m.gen # generation

\* reportPort, in time or late.
DeliverReport(m) ==
  /\ m \in reports
  /\ reports' = reports \ {m}
  /\ \/ /\ ~StaleReport(m) /\ m.status = "bound" /\ ReportBound
        /\ rev' = rev + 1 /\ state' \in Reconciled("pending")
     \/ /\ ~StaleReport(m) /\ m.status = "unbound" /\ ReportUnbound
        /\ rev' = rev + 1 /\ state' \in Reconciled("pending")
     \/ /\ ~StaleReport(m) /\ m.status = status
        /\ state' \in Reconciled(state) /\ UNCHANGED <<portVars, rev>>
     \/ /\ StaleReport(m) \/ <<m.status, status>> \notin Reportable
        /\ UNCHANGED <<portVars, rev, state>>
  /\ UNCHANGED <<admin, tap, scan, witnessed, callVars>>

-----------------------------------------------------------------------------
(* The VM, OVN and other controllers of the bridge.                        *)

TapAppears(n) == /\ tap[n] = Nil
                 /\ tap' = [tap EXCEPT ![n] = NewTap]
                 /\ UNCHANGED <<portVars, resVars, scan, reports, witnessed, callVars>>

TapGoes(n) == /\ tap[n] # Nil
              /\ tap' = [tap EXCEPT ![n] = Nil]
              /\ UNCHANGED <<portVars, resVars, scan, reports, witnessed, callVars>>

\* Another controller writes its own iface-id on a TAP nobody has.
OtherClaims(n) ==
  /\ n \in Shared /\ tap[n] # Nil /\ tap[n].owner = "none"
  /\ tap' = [tap EXCEPT ![n] = [gen |-> 0, owner |-> "other", installed |-> tap[n].installed]]
  /\ UNCHANGED <<portVars, resVars, scan, reports, witnessed, callVars>>

\* ovn-controller sets ovn-installed on a TAP with an iface-id, and removes it
\* some time after the iface-id is gone.
OvnInstalls(n) ==
  /\ tap[n] # Nil /\ tap[n].owner = "pvn" /\ tap[n].installed = "false"
  /\ tap' = [tap EXCEPT ![n] = [gen |-> tap[n].gen, owner |-> "pvn", installed |-> "true"]]
  /\ UNCHANGED <<portVars, resVars, scan, reports, witnessed, callVars>>

OvnReleases(n) ==
  /\ tap[n] # Nil /\ tap[n].owner # "pvn" /\ tap[n].installed = "true"
  /\ tap' = [tap EXCEPT ![n] = [gen |-> 0, owner |-> tap[n].owner, installed |-> "false"]]
  /\ UNCHANGED <<portVars, resVars, scan, reports, witnessed, callVars>>

-----------------------------------------------------------------------------
RequestStep(r) == \/ Send(r) \/ Load(r) \/ BeginPortAction(r) \/ Update(r)
                  \/ CompletePortAction(r) \/ Crash(r)

AgentStep(n) == \/ List(n) \/ Resolve(n) \/ ClearManagedBinding(n) \/ SetManagedBinding(n)
                \/ ReportPort(n)

HostStep(n) == TapAppears(n) \/ TapGoes(n) \/ OtherClaims(n) \/ OvnInstalls(n) \/ OvnReleases(n)

Next == \/ \E r \in Requests : RequestStep(r)
        \/ \E n \in Nodes : AgentStep(n) \/ ScanFails(n) \/ HostStep(n)
        \/ \E m \in reports : DeliverReport(m)
        \/ EditPort \/ DeletePort \/ PurgePort \/ Realize

Spec == Init /\ [][Next]_vars

\* The agent scans on a ticker and its calls stop failing at some time; a report
\* that was sent is answered; the periodic pass realizes the port; and
\* ovn-controller serves the TAP.
Fairness ==
  /\ \A n \in Nodes : WF_vars(AgentStep(n)) /\ WF_vars(OvnInstalls(n)) /\ <>[][~ScanFails(n)]_vars
  /\ \A m \in Report : WF_vars(DeliverReport(m))
  /\ WF_vars(Realize)

-----------------------------------------------------------------------------
(* Properties.                                                             *)

\* A TAP carries the port's present generation on the port's node only, and on
\* no node once the port is unbound: reportPort accepts the end of an attachment
\* only after the agent cleared it and can no longer write it.
BoundOnItsNode == \A n \in Nodes : tap[n] # Nil /\ tap[n].gen = generation => node = n

\* The port reads bound only if the agent of its node listed the TAP with this
\* generation and ovn-installed, however late reports arrive and whatever was
\* detached, attached and edited in between.
BoundWasSeen == status = "bound" => <<node, generation>> \in witnessed

\* A client that was told its attach or detach succeeded is right, also when the
\* answer comes from a replayed operation or a replayed Update.
OkWasDone == \A r \in Requests : answer[r] = "ok" => r \in done

Managed(n) == tap[n] # Nil /\ tap[n].owner = "pvn"

Current(n) == Found(n) /\ tap[n].gen = generation

\* A binding left on a TAP by an older attachment, by one on another node or by a
\* port that was deleted does not stay: some scan clears or replaces it.
StaleBindingGoes ==
  \A n \in Nodes : Managed(n) /\ ~Current(n) ~> ~Managed(n) \/ Current(n)

Served == state # "absent" /\ node # Nil /\ tap[node] # Nil /\ tap[node].owner # "other"

\* A detach ends once the agent has the TAP to look at, unless the port is gone.
DetachEnds == status = "detaching" ~> status # "detaching" \/ ~Served

\* An attach ends in a bound port if the TAP is there and the port enabled.
AttachEnds == status = "binding" ~> status # "binding" \/ ~Served \/ admin = "down" \/ state = "deleting"

\* The TAP of another controller keeps its owner until it goes.
OthersUntouched ==
  [][\A n \in Nodes : tap[n] # Nil /\ tap'[n] # Nil /\ tap[n].owner = "other"
                       => tap'[n].owner = "other"]_vars

-----------------------------------------------------------------------------
(* The inductive invariant behind BoundOnItsNode, BoundWasSeen, OkWasDone  *)
(* and the refinement.                                                     *)

\* What a request has recorded of itself was stored.
Recorded ==
  \A r \in Requests :
    (op[r] = "succeeded" \/ token[r] # "none" \/ at[r] = "complete" \/ answer[r] = "ok")
      => r \in done

\* As long as the port has the revision a handler was asked to change, it is as
\* the handler found it.
StillFresh ==
  \A r \in Requests :
    body[r] # Nil =>
      /\ body[r].rev <= rev
      /\ (at[r] \in {"begin", "update"} /\ body[r].rev = rev) => Fresh(body[r])

NodeKnown == status = "unbound" <=> node = Nil

\* No TAP, scan or report is ahead of the port, and only PVN writes generations.
NotAhead ==
  /\ \A n \in Nodes :
       /\ tap[n] # Nil => tap[n].gen <= generation
       /\ tap[n] # Nil => (tap[n].gen # 0 <=> tap[n].owner = "pvn")
       /\ scan[n].gen <= generation
       /\ scan[n].call = "bind" => scan[n].gen # 0
       /\ scan[n].tap.gen # 0 <=> scan[n].tap.owner = "pvn"
  /\ \A m \in reports : m.gen <= generation

\* Until the agent of n writes the TAP, it is the one that was listed, or bare.
Listed ==
  \A n \in Nodes :
    scan[n].call = "resolve" =>
      /\ tap[n] # Nil => tap[n].gen \in {0, scan[n].tap.gen}
      /\ (scan[n].tap.owner = "pvn" /\ scan[n].tap.installed = "true")
           => <<n, scan[n].tap.gen>> \in witnessed

\* What a scan of the present attachment is about to do.
Local ==
  \A n \in Nodes :
    scan[n].gen = generation =>
      /\ scan[n].call = "bind" => node = n
      /\ (scan[n].call = "bound" /\ node # Nil) => <<node, generation>> \in witnessed
      /\ scan[n].call \in {"release", "unbound"} =>
           status \in {"detaching", "unbound"} /\ node \in {n, Nil}
      /\ (scan[n].call = "unbound" /\ tap[n] # Nil) => tap[n].gen # generation

\* A report about the present attachment is true: bound was seen, and after
\* unbound no TAP has the generation and no agent is about to write it.
Truthful ==
  \A m \in reports :
    m.gen = generation =>
      /\ (m.status = "bound" /\ node # Nil) => <<node, generation>> \in witnessed
      /\ m.status = "unbound" =>
           /\ status \in {"detaching", "unbound"}
           /\ \A n \in Nodes : tap[n] # Nil => tap[n].gen # generation
           /\ \A n \in Nodes : ~(scan[n].call = "bind" /\ scan[n].gen = generation)

\* The inductive invariant.
IInv == /\ TypeOK /\ Recorded /\ StillFresh /\ NodeKnown /\ NotAhead /\ Listed /\ Local
        /\ Truthful /\ BoundOnItsNode /\ BoundWasSeen
=============================================================================
