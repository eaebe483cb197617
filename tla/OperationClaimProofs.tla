------------------------- MODULE OperationClaimProofs -------------------------
(***************************************************************************)
(* The claim loops choose one direction, whatever the number of handlers   *)
(* and attempts.  The inductive invariant says what a handler's last read  *)
(* still means when it writes: while the revision it saw is the row's, the *)
(* phase it decided on is too; and a used claim key pins the direction.    *)
(***************************************************************************)
EXTENDS OperationClaim, TLAPS

ReadStillHolds ==
    \A h \in Handlers :
        /\ pc[h] = "cas" /\ seen[h] = revision
              => status = "running" /\ phase \in FromPhases[want[h]]
        /\ pc[h] = "endcas" /\ seen[h] = revision
              => status = "running" /\ phase = ClaimPhase[want[h]]
        /\ pc[h] = "endcas" => want[h] \in Directions
        /\ pc[h] \in {"end", "fail", "failcas"} => want[h] \in Directions
        /\ pc[h] \in {"cas", "endcas", "failcas"} => seen[h] <= revision

KeysPinDirection ==
    \A d \in Directions : \A r \in Nat :
        <<ClaimPhase[d], r>> \in tokens => DirectionOf(phase) = d

EndedHasDirection == status # "running" => DirectionOf(phase) \in Directions

IInv == /\ TypeOK /\ WorkUnderClaim /\ ReadStillHolds /\ KeysPinDirection
        /\ EndedHasDirection

-----------------------------------------------------------------------------
\* What the phase tables say of the three directions.
LEMMA ClaimTables ==
    \A d \in Directions :
        /\ ClaimPhase[d] \in Phases /\ TerminalPhase[d] \in Phases
        /\ DirectionOf(ClaimPhase[d]) = d /\ DirectionOf(TerminalPhase[d]) = d
        /\ TerminalStatus[d] \in {"succeeded", "failed"}
        /\ \A p \in FromPhases[d] : DirectionOf(p) = Undecided
  BY DEF Directions, ClaimPhase, TerminalPhase, DirectionOf, Phases,
         TerminalStatus, FromPhases, Undecided

\* Prepare's own claim moves between two open phases.
LEMMA PrepareTables ==
    /\ ClaimPhase["prepare"] = "prepared" /\ FromPhases["prepare"] = {"preparing"}
    /\ DirectionOf("prepared") = Undecided /\ DirectionOf("preparing") = Undecided
    /\ "prepared" \in Phases
    /\ \A d \in Directions : ClaimPhase[d] # "prepared"
  BY DEF ClaimPhase, FromPhases, DirectionOf, Undecided, Phases, Directions

LEMMA DirectionsAreDecided == Undecided \notin Directions
  BY DEF Undecided, Directions

LEMMA DirectionOfType == \A p \in Phases : DirectionOf(p) \in Directions \cup {Undecided}
  BY DEF Phases, DirectionOf, Directions, Undecided

-----------------------------------------------------------------------------
LEMMA InitIInv == ClaimInit => IInv
  BY BoundsAssumption
     DEF ClaimInit, IInv, TypeOK, WorkUnderClaim, ReadStillHolds, KeysPinDirection,
         EndedHasDirection, Phases, Wants, Directions

-----------------------------------------------------------------------------
\* Steps that leave the row alone and put one handler somewhere that asks for
\* nothing the invariant does not already give.
LEMMA RequestKeeps ==
    ASSUME IInv, NEW h \in Handlers, NEW d \in Wants, Request(h, d) PROVE IInv'
  BY DEF IInv, TypeOK, WorkUnderClaim, ReadStillHolds, KeysPinDirection,
         EndedHasDirection, Request, Goto, rowVars

LEMMA GetClaimKeeps ==
    ASSUME IInv, NEW h \in Handlers, GetClaim(h) PROVE IInv'
<1>1. TypeOK'
  BY DEF IInv, TypeOK, GetClaim, Goto, rowVars
<1>2. WorkUnderClaim'
  <2>1. ASSUME want[h] \in Directions, phase = ClaimPhase[want[h]]
        PROVE DirectionOf(phase) = want[h]
    BY <2>1, ClaimTables
  <2>. QED
    BY <2>1 DEF IInv, TypeOK, WorkUnderClaim, GetClaim, Goto, rowVars
<1>3. ReadStillHolds'
  BY DEF IInv, TypeOK, ReadStillHolds, GetClaim, Goto, rowVars
<1>4. KeysPinDirection' /\ EndedHasDirection'
  BY DEF IInv, KeysPinDirection, EndedHasDirection, GetClaim, rowVars
<1>. QED
  BY <1>1, <1>2, <1>3, <1>4 DEF IInv

LEMMA WorkKeeps ==
    ASSUME IInv, NEW h \in Handlers, Work(h) PROVE IInv'
<1>1. want[h] # "prepare" => want[h] \in Directions
  BY DEF IInv, TypeOK, Wants
<1>. QED
  BY <1>1 DEF IInv, TypeOK, WorkUnderClaim, ReadStillHolds, KeysPinDirection,
              EndedHasDirection, Work, Goto, rowVars

LEMMA GetTerminalKeeps ==
    ASSUME IInv, NEW h \in Handlers, GetTerminal(h) PROVE IInv'
  BY DEF IInv, TypeOK, WorkUnderClaim, ReadStillHolds, KeysPinDirection,
         EndedHasDirection, GetTerminal, Goto, rowVars

LEMMA GetErrorKeeps ==
    ASSUME IInv, NEW h \in Handlers, GetError(h) PROVE IInv'
  BY DEF IInv, TypeOK, WorkUnderClaim, ReadStillHolds, KeysPinDirection,
         EndedHasDirection, GetError, Goto, rowVars

LEMMA AbandonKeeps ==
    ASSUME IInv, NEW h \in Handlers, Abandon(h) PROVE IInv'
  BY DEF IInv, TypeOK, WorkUnderClaim, ReadStillHolds, KeysPinDirection,
         EndedHasDirection, Abandon, Goto, rowVars

\* A conflict writes nothing and goes back to a place that has read nothing.
LEMMA ConflictKeeps ==
    ASSUME IInv, NEW h \in Handlers, NEW key,
           \/ Conflict(h, key, "get") /\ pc[h] = "cas"
           \/ Conflict(h, key, "end") /\ pc[h] = "endcas"
           \/ Conflict(h, key, "fail") /\ pc[h] = "failcas"
    PROVE  IInv'
  BY DEF IInv, TypeOK, WorkUnderClaim, ReadStillHolds, KeysPinDirection,
         EndedHasDirection, Conflict, Goto, rowVars

-----------------------------------------------------------------------------
\* The claim's write: an open row takes the direction of the handler, or moves
\* on to prepared.
LEMMA CasClaimWrites ==
    ASSUME IInv, NEW h \in Handlers, pc[h] = "cas",
           Written(h, ClaimPhase[want[h]], ClaimPhase[want[h]], "running")
    PROVE  /\ status = "running" /\ DirectionOf(phase) = Undecided
           /\ status' = "running"
           /\ want[h] \in Directions => DirectionOf(phase') = want[h]
           /\ want[h] = "prepare" => DirectionOf(phase') = Undecided
           /\ phase' \in Phases
<1>1. want[h] \in Wants /\ status = "running" /\ phase \in FromPhases[want[h]]
  BY DEF IInv, TypeOK, ReadStillHolds, Written
<1>2. CASE want[h] \in Directions
  BY <1>1, <1>2, ClaimTables DEF Written, Directions
<1>3. CASE want[h] = "prepare"
  BY <1>1, <1>3, PrepareTables DEF Written, Directions
<1>. QED
  BY <1>1, <1>2, <1>3 DEF Wants

LEMMA CasClaimKeeps ==
    ASSUME IInv, NEW h \in Handlers, CasClaim(h) PROVE IInv'
<1>1. CASE Conflict(h, ClaimPhase[want[h]], "get")
  BY <1>1, ConflictKeeps DEF CasClaim
<1>2. CASE /\ Replayed(h, ClaimPhase[want[h]])
           /\ Goto(h, "claimed") /\ UNCHANGED <<rowVars, want, seen, tries>>
  <2>1. want[h] \in Directions => DirectionOf(phase) = want[h]
    BY <1>2 DEF IInv, TypeOK, KeysPinDirection, Replayed
  <2>. QED
    BY <1>2, <2>1 DEF IInv, TypeOK, WorkUnderClaim, ReadStillHolds, KeysPinDirection,
                      EndedHasDirection, Goto, rowVars
<1>3. CASE /\ Written(h, ClaimPhase[want[h]], ClaimPhase[want[h]], "running")
           /\ Goto(h, "claimed") /\ UNCHANGED <<want, seen, tries>>
  <2>0. pc[h] = "cas"
    BY DEF CasClaim
  <2>1. /\ DirectionOf(phase) = Undecided /\ status' = "running"
        /\ want[h] \in Directions => DirectionOf(phase') = want[h]
        /\ phase' \in Phases /\ want[h] \in Wants
    BY <1>3, <2>0, CasClaimWrites DEF IInv, TypeOK
  <2>2. TypeOK'
    BY <1>3, <2>1 DEF IInv, TypeOK, Written, Goto
  <2>3. WorkUnderClaim'
    BY <1>3, <2>1, DirectionsAreDecided DEF IInv, TypeOK, WorkUnderClaim, Goto
  <2>4. ReadStillHolds'
    BY <1>3 DEF IInv, TypeOK, ReadStillHolds, Written, Goto
  <2>5. KeysPinDirection'
    <3>1. \A d \in Directions : \A r \in Nat : <<ClaimPhase[d], r>> \notin tokens
      BY <2>1, DirectionsAreDecided DEF IInv, KeysPinDirection
    <3>2. ASSUME NEW d \in Directions, NEW r \in Nat, <<ClaimPhase[d], r>> \in tokens'
          PROVE DirectionOf(phase') = d
      <4>1. ClaimPhase[d] = ClaimPhase[want[h]]
        BY <1>3, <3>1, <3>2 DEF Written
      <4>2. want[h] = d
        BY <4>1, <2>1 DEF ClaimPhase, Wants, Directions
      <4>. QED
        BY <4>2, <2>1
    <3>. QED
      BY <3>2 DEF KeysPinDirection
  <2>6. EndedHasDirection'
    BY <2>1 DEF EndedHasDirection
  <2>. QED
    BY <2>2, <2>3, <2>4, <2>5, <2>6 DEF IInv
<1>. QED
  BY <1>1, <1>2, <1>3 DEF CasClaim

\* The end's write: the claim it ends is the row's, so the direction stays.
LEMMA CasTerminalWrites ==
    ASSUME IInv, NEW h \in Handlers, pc[h] = "endcas",
           Written(h, TerminalPhase[want[h]], TerminalPhase[want[h]], TerminalStatus[want[h]])
    PROVE  /\ status = "running" /\ want[h] \in Directions
           /\ DirectionOf(phase) = want[h] /\ DirectionOf(phase') = want[h]
           /\ phase' \in Phases /\ status' \in {"succeeded", "failed"}
<1>1. want[h] \in Directions /\ status = "running" /\ phase = ClaimPhase[want[h]]
  BY DEF IInv, TypeOK, ReadStillHolds, Written
<1>. QED
  BY <1>1, ClaimTables DEF Written

LEMMA CasTerminalKeeps ==
    ASSUME IInv, NEW h \in Handlers, CasTerminal(h) PROVE IInv'
<1>1. CASE Conflict(h, TerminalPhase[want[h]], "end")
  BY <1>1, ConflictKeeps DEF CasTerminal
<1>2. CASE /\ Replayed(h, TerminalPhase[want[h]])
           /\ Goto(h, "idle") /\ UNCHANGED <<rowVars, want, seen, tries>>
  BY <1>2 DEF IInv, TypeOK, WorkUnderClaim, ReadStillHolds, KeysPinDirection,
              EndedHasDirection, Goto, rowVars
<1>3. CASE /\ Written(h, TerminalPhase[want[h]], TerminalPhase[want[h]], TerminalStatus[want[h]])
           /\ Goto(h, "idle") /\ UNCHANGED <<want, seen, tries>>
  <2>0. pc[h] = "endcas"
    BY DEF CasTerminal
  <2>1. /\ want[h] \in Directions /\ DirectionOf(phase) = want[h]
        /\ DirectionOf(phase') = want[h]
        /\ phase' \in Phases /\ status' \in {"succeeded", "failed"}
    BY <1>3, <2>0, CasTerminalWrites
  <2>2. TypeOK'
    BY <1>3, <2>1, ClaimTables DEF IInv, TypeOK, Written, Goto
  <2>3. WorkUnderClaim'
    BY <1>3, <2>1 DEF IInv, TypeOK, WorkUnderClaim, Goto
  <2>4. ReadStillHolds'
    BY <1>3 DEF IInv, TypeOK, ReadStillHolds, Written, Goto
  <2>5. KeysPinDirection'
    <3>1. ASSUME NEW d \in Directions, NEW r \in Nat, <<ClaimPhase[d], r>> \in tokens'
          PROVE DirectionOf(phase') = d
      <4>1. ClaimPhase[d] # TerminalPhase[want[h]]
        BY <2>1 DEF ClaimPhase, TerminalPhase, Directions
      <4>2. <<ClaimPhase[d], r>> \in tokens
        BY <1>3, <3>1, <4>1 DEF Written
      <4>. QED
        BY <4>2, <2>1 DEF IInv, KeysPinDirection
    <3>. QED
      BY <3>1 DEF KeysPinDirection
  <2>6. EndedHasDirection'
    BY <2>1 DEF EndedHasDirection
  <2>. QED
    BY <2>2, <2>3, <2>4, <2>5, <2>6 DEF IInv
<1>. QED
  BY <1>1, <1>2, <1>3 DEF CasTerminal

\* Noting an error changes the revision only.
LEMMA CasErrorKeeps ==
    ASSUME IInv, NEW h \in Handlers, CasError(h) PROVE IInv'
<1>1. CASE Conflict(h, "error", "fail")
  BY <1>1, ConflictKeeps DEF CasError
<1>2. CASE /\ Replayed(h, "error")
           /\ Goto(h, "idle") /\ UNCHANGED <<rowVars, want, seen, tries>>
  BY <1>2 DEF IInv, TypeOK, WorkUnderClaim, ReadStillHolds, KeysPinDirection,
              EndedHasDirection, Goto, rowVars
<1>3. CASE /\ Written(h, "error", phase, status)
           /\ Goto(h, "idle") /\ UNCHANGED <<want, seen, tries>>
  <2>1. TypeOK'
    BY <1>3 DEF IInv, TypeOK, Written, Goto
  <2>2. WorkUnderClaim' /\ EndedHasDirection'
    BY <1>3 DEF IInv, TypeOK, WorkUnderClaim, EndedHasDirection, Written, Goto
  <2>3. ReadStillHolds'
    BY <1>3 DEF IInv, TypeOK, ReadStillHolds, Written, Goto
  <2>4. KeysPinDirection'
    <3>1. \A d \in Directions : ClaimPhase[d] # "error"
      BY DEF Directions, ClaimPhase
    <3>. QED
      BY <1>3, <3>1 DEF IInv, KeysPinDirection, Written
  <2>. QED
    BY <2>1, <2>2, <2>3, <2>4 DEF IInv
<1>. QED
  BY <1>1, <1>2, <1>3 DEF CasError

LEMMA NextKeeps == ASSUME IInv, [ClaimNext]_claimVars PROVE IInv'
<1>1. CASE ClaimNext
  <2>1. PICK h \in Handlers : HandlerStep(h)
    BY <1>1 DEF ClaimNext
  <2>. QED
    BY <2>1, RequestKeeps, GetClaimKeeps, CasClaimKeeps, WorkKeeps, GetTerminalKeeps,
       CasTerminalKeeps, GetErrorKeeps, CasErrorKeeps, AbandonKeeps DEF HandlerStep
<1>2. CASE UNCHANGED claimVars
  BY <1>2 DEF IInv, TypeOK, WorkUnderClaim, ReadStillHolds, KeysPinDirection,
              EndedHasDirection, claimVars
<1>. QED
  BY <1>1, <1>2

-----------------------------------------------------------------------------
\* For every number of handlers, attempts and revisions: a handler that writes
\* under its claim works in the direction the row is in (compute_resources.go,
\* claimComputeOperation and its callers).
THEOREM ClaimSafe == ClaimSpec => [](TypeOK /\ WorkUnderClaim)
<1>1. IInv => TypeOK /\ WorkUnderClaim
  BY DEF IInv
<1>. QED
  BY <1>1, InitIInv, NextKeeps, PTL DEF ClaimSpec

\* Each step is a step of the abstract transaction or none at all.
LEMMA StepRefines ==
    ASSUME IInv, [ClaimNext]_claimVars PROVE [Tx!TxNext]_(Tx!txVars)
<1>. SUFFICES Tx!TxNext \/ UNCHANGED <<Chosen, Ended>>
  BY DEF Tx!txVars
<1>0. ASSUME UNCHANGED <<phase, status>> PROVE UNCHANGED <<Chosen, Ended>>
  BY <1>0 DEF Chosen, Ended
<1>1. CASE UNCHANGED claimVars
  BY <1>0, <1>1 DEF claimVars
<1>2. ASSUME NEW h \in Handlers, CasClaim(h)
      PROVE Tx!TxNext \/ UNCHANGED <<Chosen, Ended>>
  <2>1. CASE Written(h, ClaimPhase[want[h]], ClaimPhase[want[h]], "running")
    <3>1. /\ pc[h] = "cas" /\ want[h] \in Wants
      BY <1>2 DEF CasClaim, IInv, TypeOK
    <3>2. /\ Chosen = Undecided /\ Ended = Undecided /\ Ended' = Undecided
          /\ want[h] \in Directions => Chosen' = want[h]
          /\ want[h] = "prepare" => Chosen' = Undecided
      BY <2>1, <3>1, CasClaimWrites DEF Chosen, Ended
    <3>3. CASE want[h] \in Directions
      BY <3>2, <3>3 DEF Tx!TxNext, Tx!Choose
    <3>. QED
      BY <3>1, <3>2, <3>3 DEF Wants
  <2>. QED
    BY <1>0, <1>2, <2>1 DEF CasClaim, Conflict, rowVars
<1>3. ASSUME NEW h \in Handlers, CasTerminal(h)
      PROVE Tx!TxNext \/ UNCHANGED <<Chosen, Ended>>
  <2>1. CASE Written(h, TerminalPhase[want[h]], TerminalPhase[want[h]], TerminalStatus[want[h]])
    <3>1. pc[h] = "endcas"
      BY <1>3 DEF CasTerminal
    <3>2. /\ status = "running" /\ want[h] \in Directions
          /\ DirectionOf(phase) = want[h] /\ DirectionOf(phase') = want[h]
          /\ status' # "running"
      BY <2>1, <3>1, CasTerminalWrites
    <3>. QED
      BY <3>2, DirectionsAreDecided DEF Tx!TxNext, Tx!End, Chosen, Ended
  <2>. QED
    BY <1>0, <1>3, <2>1 DEF CasTerminal, Conflict, rowVars
<1>4. ASSUME NEW h \in Handlers, CasError(h) PROVE UNCHANGED <<phase, status>>
  BY <1>4 DEF CasError, Conflict, Written, rowVars
<1>5. ASSUME NEW h \in Handlers,
             \/ \E d \in Wants : Request(h, d)
             \/ GetClaim(h) \/ Work(h) \/ GetTerminal(h) \/ GetError(h) \/ Abandon(h)
      PROVE UNCHANGED <<phase, status>>
  BY <1>5 DEF Request, GetClaim, Work, GetTerminal, GetError, Abandon, rowVars
<1>. QED
  BY <1>0, <1>1, <1>2, <1>3, <1>4, <1>5 DEF ClaimNext, HandlerStep

\* The loops implement the abstract transaction: the direction is chosen once
\* and the row ends in no other (claimComputeOperation,
\* terminalizeClaimedComputeOperation).
THEOREM ClaimImplementsTx == ClaimSpec => OneDirection
<1>1. ClaimInit => Tx!TxInit
  BY DEF ClaimInit, Tx!TxInit, Chosen, Ended, DirectionOf
<1>. QED
  BY <1>1, InitIInv, NextKeeps, StepRefines, PTL DEF ClaimSpec, OneDirection, Tx!TxSpec
==============================================================================
