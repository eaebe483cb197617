---------------------------- MODULE OperationClaim ----------------------------
(***************************************************************************)
(* The read-decide-compare-and-swap loops with which the handlers of a     *)
(* compute transaction claim its Operation row, end it, and note a failed  *)
(* attempt.  Handlers run in any number of managers; each loop is a Get,   *)
(* a decision on the copy it returned, and an Update under that copy's     *)
(* revision with an idempotency key made of the new phase and the          *)
(* revision.  The other modules of the compute transactions take a loop as *)
(* one step; this one shows what that step relies on.                      *)
(***************************************************************************)
EXTENDS Naturals

CONSTANTS Handlers,    \* requests in flight, on any manager
          Attempts,    \* maxComputeWriteRetries
          MaxRevision  \* bound on the revisions explored

ASSUME BoundsAssumption == Attempts \in Nat \ {0} /\ MaxRevision \in Nat

VARIABLES phase, status, revision, \* the row
          tokens,                  \* idempotency keys used: <<new phase, revision>>
          pc, want, seen, tries    \* per handler: place, request, revision read, retries

rowVars == <<phase, status, revision, tokens>>
handlerVars == <<pc, want, seen, tries>>
claimVars == <<phase, status, revision, tokens, pc, want, seen, tries>>

Directions == {"commit", "abort", "compensate"}
Undecided == "undecided"

\* The requests: the three directions, and prepare's own step to "prepared".
Wants == Directions \cup {"prepare"}

ClaimPhase == [commit |-> "committing", abort |-> "aborting",
               compensate |-> "compensating", prepare |-> "prepared"]

\* Mutant of TerminalPhase: an abort is recorded as a commit.
TerminalPhaseSwapped == [commit |-> "committed", abort |-> "committed",
                         compensate |-> "compensated", prepare |-> "none"]

TerminalPhase == [commit |-> "committed", abort |-> "aborted",
                  compensate |-> "compensated", prepare |-> "none"]

FromPhases == [commit |-> {"prepared"}, abort |-> {"prepared"},
               compensate |-> {"preparing", "prepared"}, prepare |-> {"preparing"}]

\* A finish ends the row Succeeded, a compensation ends it Failed.
TerminalStatus == [commit |-> "succeeded", abort |-> "succeeded",
                   compensate |-> "failed", prepare |-> "none"]

Phases == {"preparing", "prepared", "committing", "aborting", "compensating",
           "committed", "aborted", "compensated"}

DirectionOf(p) == IF p \in {"committing", "committed"} THEN "commit"
                  ELSE IF p \in {"aborting", "aborted"} THEN "abort"
                  ELSE IF p \in {"compensating", "compensated"} THEN "compensate"
                  ELSE Undecided

ClaimInit == /\ phase = "preparing" /\ status = "running" /\ revision = 1
             /\ tokens = {}
             /\ pc = [h \in Handlers |-> "idle"]
             /\ want = [h \in Handlers |-> "prepare"]
             /\ seen = [h \in Handlers |-> 0]
             /\ tries = [h \in Handlers |-> 0]

Goto(h, place) == pc' = [pc EXCEPT ![h] = place]

\* A request reaches a manager; prepare ends once its claim is made.
Request(h, d) ==
    /\ pc[h] = "idle" /\ revision < MaxRevision
    /\ Goto(h, "get") /\ want' = [want EXCEPT ![h] = d]
    /\ tries' = [tries EXCEPT ![h] = 0]
    /\ UNCHANGED <<rowVars, seen>>

\* One Update of the row under the revision read.  The key decides first: a
\* repeated key answers with the recorded row and writes nothing.
Replayed(h, key) == <<key, seen[h]>> \in tokens

Written(h, key, newPhase, newStatus) ==
    /\ ~Replayed(h, key) /\ revision = seen[h]
    /\ phase' = newPhase /\ status' = newStatus /\ revision' = revision + 1
    /\ tokens' = tokens \cup {<<key, seen[h]>>}

\* A conflict sends the loop back to its Get until the attempts are used up.
Conflict(h, key, again) ==
    /\ ~Replayed(h, key) /\ revision # seen[h]
    /\ tries' = [tries EXCEPT ![h] = tries[h] + 1]
    /\ Goto(h, IF tries[h] + 1 < Attempts THEN again ELSE "idle")
    /\ UNCHANGED <<rowVars, want, seen>>

\* Mutant of GetClaim: the phase of the row is not looked at.
GetClaimAnyPhase(h) ==
    /\ pc[h] = "get"
    /\ IF status # "running" THEN Goto(h, "idle") /\ UNCHANGED seen
       ELSE IF phase = ClaimPhase[want[h]] THEN Goto(h, "claimed") /\ UNCHANGED seen
       ELSE Goto(h, "cas") /\ seen' = [seen EXCEPT ![h] = revision]
    /\ UNCHANGED <<rowVars, want, tries>>

\* claimComputeOperation reads: only a running row, in its claimed phase
\* already or in one the claim may leave.
GetClaim(h) ==
    /\ pc[h] = "get"
    /\ IF status # "running" THEN Goto(h, "idle") /\ UNCHANGED seen
       ELSE IF phase = ClaimPhase[want[h]] THEN Goto(h, "claimed") /\ UNCHANGED seen
       ELSE IF phase \notin FromPhases[want[h]] THEN Goto(h, "idle") /\ UNCHANGED seen
       ELSE Goto(h, "cas") /\ seen' = [seen EXCEPT ![h] = revision]
    /\ UNCHANGED <<rowVars, want, tries>>

\* ... and writes.
CasClaim(h) ==
    /\ pc[h] = "cas"
    /\ \/ /\ Replayed(h, ClaimPhase[want[h]])
          /\ Goto(h, "claimed") /\ UNCHANGED <<rowVars, want, seen, tries>>
       \/ /\ Written(h, ClaimPhase[want[h]], ClaimPhase[want[h]], "running")
          /\ Goto(h, "claimed") /\ UNCHANGED <<want, seen, tries>>
       \/ Conflict(h, ClaimPhase[want[h]], "get")

\* With the claim the handler writes ports and records; then it ends the
\* transaction, or notes what failed.  A prepare that is marked is answered.
Work(h) ==
    /\ pc[h] = "claimed"
    /\ IF want[h] = "prepare" THEN Goto(h, "idle")
       ELSE Goto(h, "end") \/ (revision < MaxRevision /\ Goto(h, "fail"))
    /\ tries' = [tries EXCEPT ![h] = 0]
    /\ UNCHANGED <<rowVars, want, seen>>

\* terminalizeClaimedComputeOperation reads: the end it asks for, or its own
\* claim.
GetTerminal(h) ==
    /\ pc[h] = "end"
    /\ IF status # "running" \/ phase # ClaimPhase[want[h]]
       THEN Goto(h, "idle") /\ UNCHANGED seen
       ELSE Goto(h, "endcas") /\ seen' = [seen EXCEPT ![h] = revision]
    /\ UNCHANGED <<rowVars, want, tries>>

CasTerminal(h) ==
    /\ pc[h] = "endcas"
    /\ \/ /\ Replayed(h, TerminalPhase[want[h]])
          /\ Goto(h, "idle") /\ UNCHANGED <<rowVars, want, seen, tries>>
       \/ /\ Written(h, TerminalPhase[want[h]], TerminalPhase[want[h]], TerminalStatus[want[h]])
          /\ Goto(h, "idle") /\ UNCHANGED <<want, seen, tries>>
       \/ Conflict(h, TerminalPhase[want[h]], "end")

\* recordComputeClaimError reads and writes under its claim only.
GetError(h) ==
    /\ pc[h] = "fail"
    /\ IF status # "running" \/ phase # ClaimPhase[want[h]]
       THEN Goto(h, "idle") /\ UNCHANGED seen
       ELSE Goto(h, "failcas") /\ seen' = [seen EXCEPT ![h] = revision]
    /\ UNCHANGED <<rowVars, want, tries>>

CasError(h) ==
    /\ pc[h] = "failcas"
    /\ \/ /\ Replayed(h, "error")
          /\ Goto(h, "idle") /\ UNCHANGED <<rowVars, want, seen, tries>>
       \/ /\ Written(h, "error", phase, status)
          /\ Goto(h, "idle") /\ UNCHANGED <<want, seen, tries>>
       \/ Conflict(h, "error", "fail")

\* The manager stops, the caller goes away, or a call fails: a write may have
\* been made before, the handler goes no further.
Abandon(h) ==
    /\ pc[h] # "idle" /\ Goto(h, "idle")
    /\ UNCHANGED <<rowVars, want, seen, tries>>

HandlerStep(h) ==
    \/ \E d \in Wants : Request(h, d)
    \/ GetClaim(h) \/ CasClaim(h) \/ Work(h) \/ GetTerminal(h) \/ CasTerminal(h)
    \/ GetError(h) \/ CasError(h) \/ Abandon(h)

ClaimNext == \E h \in Handlers : HandlerStep(h)

ClaimSpec == ClaimInit /\ [][ClaimNext]_claimVars

-----------------------------------------------------------------------------
\* Every variable has its type.
TypeOK == /\ phase \in Phases /\ status \in {"running", "succeeded", "failed"}
          /\ revision \in Nat
          /\ tokens \subseteq ((Phases \cup {"error", "none"}) \X Nat)
          /\ pc \in [Handlers -> {"idle", "get", "cas", "claimed", "end", "endcas",
                                  "fail", "failcas"}]
          /\ want \in [Handlers -> Wants] /\ seen \in [Handlers -> Nat]
          /\ tries \in [Handlers -> Nat]

\* claimComputeOperation's promise: the handler that goes on to write ports
\* and dependent records does so in the direction the row is in, so that a
\* commit and an abort, on whatever managers, never both write.
WorkUnderClaim ==
    \A h \in Handlers : pc[h] \in {"claimed", "end", "endcas", "fail", "failcas"}
                           /\ want[h] \in Directions
                        => DirectionOf(phase) = want[h]

\* The row implements the abstract transaction: one direction is chosen, once,
\* and the row only ends in it.
Chosen == DirectionOf(phase)
Ended == IF status = "running" THEN Undecided ELSE DirectionOf(phase)

Tx == INSTANCE LifecycleTx WITH Directions <- Directions, Undecided <- Undecided,
                                chosen <- Chosen, ended <- Ended

OneDirection == Tx!TxSpec
==============================================================================
