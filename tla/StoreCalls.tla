----------------------------- MODULE StoreCalls -----------------------------
(***************************************************************************)
(* What one call of the control store decides from one view of the         *)
(* database (internal/ovsdbstore/store.go and validation.go): whether it   *)
(* replays an idempotency token, is refused or writes, and what it writes. *)
(*                                                                         *)
(* Data abstraction.                                                       *)
(*   - A resource has its metadata, at most one reference (the pairs of    *)
(*     kinds that may be linked are Links) and at most one claim: a value  *)
(*     two resources of a kind must not share and that no index of the     *)
(*     schema protects, such as the fixed address of a port.               *)
(*   - Durable operations are modelled in ControlStore; their calls follow *)
(*     the same two-transaction protocol.                                  *)
(***************************************************************************)
EXTENDS Naturals, FiniteSets

CONSTANTS Ids,    \* resource IDs
          KindOf, \* the kind of each
          Links,  \* pairs <<a, b>>: resources of kind a may reference those of kind b
          Claims, \* values of the claim
          Keys,   \* idempotency keys
          Nil,    \* no key, no reference, no claim, no row
          MaxRev  \* bound on revisions

Row == [state : {"pending", "ready", "error", "deleting"}, rev : 1..MaxRev,
        applied : 0..MaxRev, ref : Ids \cup {Nil}, claim : Claims \cup {Nil}]

MayRef(i) == {j \in Ids : <<KindOf[i], KindOf[j]>> \in Links} \cup {Nil}

\* The calls on i by operations ops with these references, claims, revisions,
\* outcomes and keys.
CallsOn(i, ops, refs, claims, revs, oks, keys) ==
  [op : ops, id : {i}, ref : refs, claim : claims, rev : revs, ok : oks, key : keys]

\* Create and Update carry the new body, the others only what they are about.
Calls ==
  LET V == Claims \cup {Nil}
      K == Keys \cup {Nil}
  IN  UNION {CallsOn(i, {"create"}, MayRef(i), V, {0}, {TRUE}, K)
             \cup CallsOn(i, {"update"}, MayRef(i), V, 1..MaxRev - 1, {TRUE}, K)
             \cup CallsOn(i, {"delete"}, {Nil}, {Nil}, 1..MaxRev - 1, {TRUE}, K)
             \cup CallsOn(i, {"purge"}, {Nil}, {Nil}, 1..MaxRev, {TRUE}, {Nil})
             \cup CallsOn(i, {"mark"}, {Nil}, {Nil}, 1..MaxRev, BOOLEAN, {Nil})
             \cup CallsOn(i, {"get"}, {Nil}, {Nil}, {0}, {TRUE}, {Nil}) : i \in Ids}

ASSUME CallsAssumption == /\ Nil \notin Ids \cup Claims \cup Keys \cup Row \cup Calls
                          /\ \A i \in Ids : <<KindOf[i], KindOf[i]>> \notin Links
                          /\ MaxRev \in Nat \ {0}

\* A token remembers the request it answers and the revision it answered with.
Token == [call : Calls, rev : 1..MaxRev]

Database == [rows : [Ids -> Row \cup {Nil}], tokens : SUBSET Token]

Empty == [rows |-> [i \in Ids |-> Nil], tokens |-> {}]

-----------------------------------------------------------------------------
\* idempotencyScope: a key counts per action and kind, and but for Create per
\* resource.
Scope(a) == <<a.op, IF a.op = "create" THEN KindOf[a.id] ELSE a.id, a.key>>

Replays(d, a) == {t \in d.tokens : a.key # Nil /\ Scope(t.call) = Scope(a)}

Stored(d, i) == d.rows[i] # Nil

At(d, a) == Stored(d, a.id) /\ d.rows[a.id].rev = a.rev

\* Mutant of RefersOK: the state of what is referenced is not looked at.
RefersStored(d, a, old) == a.ref # Nil => Stored(d, a.ref)

\* validateReferences and validateNewReferenceStates: a reference that was not
\* there before must be to a resource that is neither failed nor on its way out.
RefersOK(d, a, old) ==
  a.ref # Nil => /\ Stored(d, a.ref)
                 /\ a.ref # old => d.rows[a.ref].state \notin {"deleting", "error"}

\* validateUnique: within the kind, tombstones included.
Clash(i, j, v, u) == i # j /\ KindOf[i] = KindOf[j] /\ v = u /\ v # Nil

ClaimFree(d, a) == \A i \in Ids : Stored(d, i) => ~Clash(i, a.id, d.rows[i].claim, a.claim)

\* firstReference
Unreferenced(d, i) == \A j \in Ids \ {i} : Stored(d, j) => d.rows[j].ref # i

\* What each call demands of the database it read.
Accepted(d, a) ==
  /\ a.op = "create" => ~Stored(d, a.id) /\ RefersOK(d, a, Nil) /\ ClaimFree(d, a)
  /\ a.op = "update" => At(d, a) /\ RefersOK(d, a, d.rows[a.id].ref) /\ ClaimFree(d, a)
  /\ a.op = "delete" => At(d, a) /\ Unreferenced(d, a.id)
  /\ a.op = "purge" => (Stored(d, a.id) => /\ At(d, a)
                                           /\ d.rows[a.id].state \in {"deleting", "error"}
                                           /\ Unreferenced(d, a.id))
  /\ a.op = "mark" => Stored(d, a.id) /\ a.rev <= d.rows[a.id].rev
  /\ a.op = "get" => Stored(d, a.id)

\* A purge of what is gone and a mark that changes neither state nor applied
\* revision are answered without a transaction.
Writes(d, a) == /\ Replays(d, a) = {}
                /\ Accepted(d, a)
                /\ a.op # "get"
                /\ a.op = "purge" => Stored(d, a.id)
                /\ a.op = "mark" => At(d, a) \/ (a.ok /\ a.rev > d.rows[a.id].applied)

\* A resource with this metadata and body.
Resource(state, rev, applied, ref, claim) ==
  [state |-> state, rev |-> rev, applied |-> applied, ref |-> ref, claim |-> claim]

\* MarkReconciled: an older revision can only raise the applied revision.
MarkedState(row, a) == IF a.rev < row.rev THEN row.state ELSE IF a.ok THEN "ready" ELSE "error"

MarkedApplied(row, a) == IF a.ok /\ a.rev > row.applied THEN a.rev ELSE row.applied

NewRow(d, a) ==
  LET row == d.rows[a.id] IN
  CASE a.op = "create" -> Resource("pending", 1, 0, a.ref, a.claim)
    [] a.op = "update" -> Resource("pending", row.rev + 1, row.applied, a.ref, a.claim)
    [] a.op = "delete" -> Resource("deleting", row.rev + 1, row.applied, row.ref, row.claim)
    [] a.op = "purge" -> Nil
    [] a.op = "mark" -> Resource(MarkedState(row, a), row.rev, MarkedApplied(row, a), row.ref, row.claim)

\* The caller's answer: its kind, and the revision of the resource it returns.
Answered(kind, rev) == [kind |-> kind, rev |-> rev]

Answer(d, a) ==
  IF Replays(d, a) # {}
  THEN IF \E t \in Replays(d, a) : t.call = a
       THEN Answered("replayed", (CHOOSE t \in Replays(d, a) : t.call = a).rev)
       ELSE Answered("idempotency_conflict", 0)
  ELSE IF ~Accepted(d, a) THEN Answered("refused", 0)
  ELSE Answered("done", IF a.op = "purge" THEN 0
                        ELSE IF Writes(d, a) THEN NewRow(d, a).rev ELSE d.rows[a.id].rev)

\* appendIdempotency: the token is inserted by the transaction it describes.
NewTokens(d, a) == IF a.key = Nil THEN {} ELSE {[call |-> a, rev |-> NewRow(d, a).rev]}

\* The database after the call took effect on it.
Effect(d, a) ==
  IF Writes(d, a)
  THEN [rows |-> [d.rows EXCEPT ![a.id] = NewRow(d, a)], tokens |-> d.tokens \cup NewTokens(d, a)]
  ELSE d
=============================================================================
