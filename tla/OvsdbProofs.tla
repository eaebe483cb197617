----------------------------- MODULE OvsdbProofs -----------------------------
(***************************************************************************)
(* The OVSDB store implements the atomic store, and keeps its references   *)
(* and claims, for any resources, keys, clients and bounds.                *)
(***************************************************************************)
EXTENDS OvsdbStore, TLAPS

\* What a client knows: between calls it has none open, and a client about to
\* commit decided to write on a view that is the database as long as the epoch
\* has not moved.
Known(c) ==
  /\ pc[c] = "idle" <=> call[c] = Nil
  /\ pc[c] = "commit" => /\ view[c].epoch \in Nat /\ view[c].epoch <= epoch
                         /\ view[c].epoch = epoch => view[c].db = db
                         /\ Writes(view[c].db, call[c])

\* The inductive invariant: every client's view is sound.
ViewInv == /\ epoch \in Nat
           /\ call \in [Clients -> Calls \cup {Nil}]
           /\ DOMAIN pc = Clients /\ DOMAIN view = Clients
           /\ \A c \in Clients : Known(c)

-----------------------------------------------------------------------------
\* What every call has.
LEMMA CallShape ==
  ASSUME NEW a \in Calls
  PROVE  /\ a.op \in {"create", "update", "delete", "purge", "mark", "get"}
         /\ a.id \in Ids
         /\ a.ref \in Ids \cup {Nil} /\ a.ref # a.id
         /\ a.claim \in Claims \cup {Nil}
         /\ a.rev \in 0..MaxRev
         /\ a.op \in {"update", "delete"} => a.rev \in 1..MaxRev - 1
<1> DEFINE V == Claims \cup {Nil}
           K == Keys \cup {Nil}
           Fields(i) == /\ a.op \in {"create", "update", "delete", "purge", "mark", "get"}
                        /\ a.id = i /\ a.ref \in MayRef(i) /\ a.claim \in V
                        /\ a.rev \in {0} \cup (1..MaxRev - 1) \cup (1..MaxRev)
                        /\ a.op \in {"update", "delete"} => a.rev \in 1..MaxRev - 1
<1>1. PICK i \in Ids : \/ a \in CallsOn(i, {"create"}, MayRef(i), V, {0}, {TRUE}, K)
                       \/ a \in CallsOn(i, {"update"}, MayRef(i), V, 1..MaxRev - 1, {TRUE}, K)
                       \/ a \in CallsOn(i, {"delete"}, {Nil}, {Nil}, 1..MaxRev - 1, {TRUE}, K)
                       \/ a \in CallsOn(i, {"purge"}, {Nil}, {Nil}, 1..MaxRev, {TRUE}, {Nil})
                       \/ a \in CallsOn(i, {"mark"}, {Nil}, {Nil}, 1..MaxRev, BOOLEAN, {Nil})
                       \/ a \in CallsOn(i, {"get"}, {Nil}, {Nil}, {0}, {TRUE}, {Nil})
  BY Zenon DEF Calls
<1>2. Nil \in MayRef(i) /\ Nil \in V
  BY Zenon DEF MayRef
<1>3. a \in CallsOn(i, {"create"}, MayRef(i), V, {0}, {TRUE}, K) => Fields(i)
  BY <1>2, Zenon DEF CallsOn
<1>4. a \in CallsOn(i, {"update"}, MayRef(i), V, 1..MaxRev - 1, {TRUE}, K) => Fields(i)
  BY <1>2, Zenon DEF CallsOn
<1>5. a \in CallsOn(i, {"delete"}, {Nil}, {Nil}, 1..MaxRev - 1, {TRUE}, K) => Fields(i)
  BY <1>2, Zenon DEF CallsOn
<1>6. a \in CallsOn(i, {"purge"}, {Nil}, {Nil}, 1..MaxRev, {TRUE}, {Nil}) => Fields(i)
  BY <1>2, Zenon DEF CallsOn
<1>7. a \in CallsOn(i, {"mark"}, {Nil}, {Nil}, 1..MaxRev, BOOLEAN, {Nil}) => Fields(i)
  BY <1>2, Zenon DEF CallsOn
<1>8. a \in CallsOn(i, {"get"}, {Nil}, {Nil}, {0}, {TRUE}, {Nil}) => Fields(i)
  BY <1>2, Zenon DEF CallsOn
<1>9. Fields(i)
  BY <1>1, <1>3, <1>4, <1>5, <1>6, <1>7, <1>8, Zenon
<1>10. a.rev \in 0..MaxRev
  BY <1>9, CallsAssumption, SMT
<1>11. a.ref \in Ids \cup {Nil} /\ a.ref # a.id
  BY <1>9, CallsAssumption, Zenon DEF MayRef
<1> QED
  BY <1>9, <1>10, <1>11, Zenon

\* The transaction of a call that writes, run on the very database it read,
\* does what the call promises.
LEMMA CommitIsEffect ==
  ASSUME NEW c, view[c].db = db, call[c] \in Calls, Writes(db, call[c])
  PROVE  Committed(db, c) = Effect(db, call[c])
<1> DEFINE a == call[c]
<1>1. a.op = "create" => ~Stored(db, a.id)
  BY Zenon DEF Writes, Accepted
<1>2. a.op # "create" => Stored(db, a.id)
  BY CallShape, Zenon DEF Writes, Accepted, At
<1> QED
  BY <1>1, <1>2, Zenon DEF Committed, Effect

\* A client's step leaves what the others know true: a commit moves the epoch.
LEMMA OthersKnow ==
  ASSUME ViewInv, NEW c \in Clients, NEW x \in Clients, x # c,
         call'[x] = call[x], pc'[x] = pc[x], view'[x] = view[x],
         epoch' \in Nat, epoch' > epoch \/ (epoch' = epoch /\ db' = db)
  PROVE  Known(x)'
<1>1. Known(x) /\ epoch \in Nat
  BY Zenon DEF ViewInv
<1>2. CASE epoch' > epoch
  <2>1. pc[x] = "commit" => view[x].epoch <= epoch' /\ view[x].epoch # epoch'
    BY <1>1, <1>2, SMT DEF Known
  <2> QED
    BY <1>1, <2>1, Zenon DEF Known
<1>3. CASE epoch' = epoch /\ db' = db
  BY <1>1, <1>3, Zenon DEF Known
<1> QED
  BY <1>2, <1>3, Zenon

\* c's step: only c's own entries of the per-client variables move.
OnlyMoves(c) == /\ call' \in [Clients -> Calls \cup {Nil}]
                /\ DOMAIN pc' = Clients /\ DOMAIN view' = Clients
                /\ \A x \in Clients \ {c} : call'[x] = call[x] /\ pc'[x] = pc[x] /\ view'[x] = view[x]

\* A call that returns leaves the client without one.
LEMMA ReturnMoves ==
  ASSUME ViewInv, NEW c \in Clients, NEW a, Return(c, a)
  PROVE  OnlyMoves(c) /\ Known(c)'
<1>1. OnlyMoves(c)
  BY Zenon DEF ViewInv, Return, Goto, OnlyMoves
<1>2. pc'[c] = "idle" /\ call'[c] = Nil
  BY Zenon DEF ViewInv, Return, Goto
<1> QED
  BY <1>1, <1>2, Zenon DEF Known

\* What a step of c has to show: its own frame, its own knowledge, and that the
\* database only changes under a new epoch.
LEMMA StepKeepsViews ==
  ASSUME ViewInv, NEW c \in Clients, OnlyMoves(c), Known(c)',
         epoch' \in Nat, epoch' > epoch \/ (epoch' = epoch /\ db' = db)
  PROVE  ViewInv'
<1>1. ASSUME NEW x \in Clients PROVE Known(x)'
  <2>1. CASE x = c
    BY <2>1, Zenon
  <2>2. CASE x # c
    BY <2>2, OthersKnow, Zenon DEF OnlyMoves
  <2> QED
    BY <2>1, <2>2, Zenon
<1> QED
  BY <1>1, Zenon DEF ViewInv, OnlyMoves

\* Every step of the store keeps the views sound.
LEMMA ViewStep ==
  ASSUME ViewInv, [Next]_vars
  PROVE  ViewInv'
<1>0. epoch \in Nat
  BY Zenon DEF ViewInv
<1>1. ASSUME NEW c \in Clients, NEW a \in Calls, Invoke(c, a) PROVE ViewInv'
  <2>1. OnlyMoves(c)
    BY <1>1, Zenon DEF ViewInv, Invoke, Goto, OnlyMoves
  <2>2. pc'[c] = "load" /\ call'[c] = a /\ a # Nil
    BY <1>1, CallsAssumption, Zenon DEF ViewInv, Invoke, Goto
  <2>3. Known(c)'
    BY <2>2, Zenon DEF Known
  <2> QED
    BY <1>0, <1>1, <2>1, <2>3, StepKeepsViews, Zenon DEF Invoke
<1>2. ASSUME NEW c \in Clients, Load(c) PROVE ViewInv'
  <2>1. epoch' = epoch /\ db' = db /\ pc[c] = "load" /\ call[c] # Nil
    BY <1>2, Zenon DEF Load, ViewInv, Known
  <2>2. CASE Goto(c, "init") /\ UNCHANGED <<call, answer, view, attempt>>
    <3>1. OnlyMoves(c)
      BY <2>2, Zenon DEF ViewInv, Goto, OnlyMoves
    <3>2. pc'[c] = "init" /\ call'[c] = call[c]
      BY <2>2, Zenon DEF ViewInv, Goto
    <3>3. Known(c)'
      BY <2>1, <3>2, Zenon DEF Known
    <3> QED
      BY <1>0, <2>1, <3>1, <3>3, StepKeepsViews, Zenon
  <2>3. CASE \E a : Return(c, a)
    BY <1>0, <2>1, <2>3, ReturnMoves, StepKeepsViews, Zenon
  <2>4. CASE /\ Writes(db, call[c])
             /\ view' = [view EXCEPT ![c] = View(epoch, db)]
             /\ Goto(c, "commit")
             /\ UNCHANGED <<call, answer, attempt>>
    <3>1. OnlyMoves(c)
      BY <2>4, Zenon DEF ViewInv, Goto, OnlyMoves
    <3>2. pc'[c] = "commit" /\ call'[c] = call[c] /\ view'[c].epoch = epoch /\ view'[c].db = db
      BY <2>4, Zenon DEF ViewInv, Goto, View
    <3>3. epoch <= epoch
      BY <1>0, SMT
    <3>4. Known(c)'
      BY <1>0, <2>1, <2>4, <3>2, <3>3, Zenon DEF Known
    <3> QED
      BY <1>0, <2>1, <3>1, <3>4, StepKeepsViews, Zenon
  <2> QED
    BY <1>2, <2>2, <2>3, <2>4, Zenon DEF Load
<1>3. ASSUME NEW c \in Clients, Initialize(c) PROVE ViewInv'
  <2>1. OnlyMoves(c)
    BY <1>3, Zenon DEF ViewInv, Initialize, Goto, OnlyMoves
  <2>2. pc'[c] = "load" /\ call'[c] = call[c] /\ call[c] # Nil
    BY <1>3, Zenon DEF ViewInv, Known, Initialize, Goto
  <2>3. Known(c)'
    BY <2>2, Zenon DEF Known
  <2>4. epoch' \in Nat /\ (epoch' > epoch \/ (epoch' = epoch /\ db' = db))
    BY <1>0, <1>3, SMT DEF Initialize
  <2> QED
    BY <2>1, <2>3, <2>4, StepKeepsViews, Zenon
<1>4. ASSUME NEW c \in Clients, Commit(c) PROVE ViewInv'
  <2>1. epoch' \in Nat /\ epoch' > epoch
    BY <1>0, <1>4, SMT DEF Commit
  <2> QED
    BY <1>4, <2>1, ReturnMoves, StepKeepsViews, Zenon DEF Commit
<1>5. ASSUME NEW c \in Clients, Conflict(c) PROVE ViewInv'
  <2>1. epoch' = epoch /\ db' = db /\ pc[c] = "commit" /\ call[c] # Nil
    BY <1>5, Zenon DEF Conflict, ViewInv, Known
  <2>2. CASE /\ view' = [view EXCEPT ![c] = View(0, Empty)]
             /\ Goto(c, "load")
             /\ UNCHANGED <<call, answer>>
    <3>1. OnlyMoves(c)
      BY <2>2, Zenon DEF ViewInv, Goto, OnlyMoves
    <3>2. pc'[c] = "load" /\ call'[c] = call[c]
      BY <2>2, Zenon DEF ViewInv, Goto
    <3>3. Known(c)'
      BY <2>1, <3>2, Zenon DEF Known
    <3> QED
      BY <1>0, <2>1, <3>1, <3>3, StepKeepsViews, Zenon
  <2>3. CASE \E a : Return(c, a)
    BY <1>0, <2>1, <2>3, ReturnMoves, StepKeepsViews, Zenon
  <2> QED
    BY <1>5, <2>2, <2>3, Zenon DEF Conflict
<1>6. ASSUME NEW c \in Clients, Disconnect(c) PROVE ViewInv'
  BY <1>0, <1>6, ReturnMoves, StepKeepsViews, Zenon DEF Disconnect
<1>7. CASE UNCHANGED vars
  BY <1>7, Zenon DEF ViewInv, Known, vars
<1> QED
  BY <1>1, <1>2, <1>3, <1>4, <1>5, <1>6, <1>7, Zenon DEF Next

\* The view invariant holds in every reachable state.
THEOREM ViewsSound == Spec => []ViewInv
<1>1. Init => ViewInv
  <2>1. 0 \in Nat
    BY SMT
  <2> QED
    BY <2>1, Zenon DEF Init, ViewInv, Known
<1> QED
  BY <1>1, ViewStep, PTL DEF Spec

-----------------------------------------------------------------------------
\* Every step of the OVSDB store is a step of the atomic store or changes
\* nothing it shows: a call takes effect when it commits, or, when it has
\* nothing to write, when it reads.
LEMMA StepImplements ==
  ASSUME ViewInv, [Next]_vars
  PROVE  [Atomic!Next]_(Atomic!vars)
<1>1. ASSUME NEW c \in Clients, NEW a \in Calls, Invoke(c, a) PROVE Atomic!Next
  <2>1. Atomic!Invoke(c, a)
    BY <1>1, Zenon DEF ViewInv, Known, Invoke, Atomic!Invoke
  <2> QED
    BY <2>1, Zenon DEF Atomic!Next
<1>2. ASSUME NEW c \in Clients, NEW a \in Failures, Return(c, a), call[c] # Nil, UNCHANGED db
      PROVE  Atomic!Next
  <2>1. Atomic!Fail(c)
    BY <1>2, Zenon DEF Return, Atomic!Fail, Atomic!Return
  <2> QED
    BY <2>1, Zenon DEF Atomic!Next
<1>3. ASSUME NEW c \in Clients, Load(c) PROVE Atomic!Next \/ UNCHANGED <<db, call, answer>>
  <2>1. call[c] # Nil /\ UNCHANGED db
    BY <1>3, Zenon DEF Load, ViewInv, Known
  <2>2. CASE Return(c, Answered("failed", 0))
    BY <1>2, <2>1, <2>2, Zenon DEF Failures
  <2>3. CASE ~Writes(db, call[c]) /\ Return(c, Answer(db, call[c]))
    <3>1. Atomic!Take(c)
      BY <2>1, <2>3, Zenon DEF Return, Effect, Atomic!Take, Atomic!Return
    <3> QED
      BY <3>1, Zenon DEF Atomic!Next
  <2>4. CASE UNCHANGED <<call, answer>>
    BY <2>1, <2>4, Zenon
  <2> QED
    BY <1>3, <2>2, <2>3, <2>4, Zenon DEF Load
<1>4. ASSUME NEW c \in Clients, Commit(c) PROVE Atomic!Next
  <2>1. call[c] \in Calls /\ view[c].db = db /\ Writes(db, call[c]) /\ call[c] # Nil
    BY <1>4, Zenon DEF Commit, EpochHolds, ViewInv, Known
  <2>2. db' = Effect(db, call[c])
    BY <1>4, <2>1, CommitIsEffect, Zenon DEF Commit
  <2>3. Atomic!Take(c)
    BY <1>4, <2>1, <2>2, Zenon DEF Commit, Return, Failures, Atomic!Take, Atomic!Return
  <2> QED
    BY <2>3, Zenon DEF Atomic!Next
<1>5. ASSUME NEW c \in Clients, Conflict(c) PROVE Atomic!Next \/ UNCHANGED <<db, call, answer>>
  <2>1. call[c] # Nil
    BY <1>5, Zenon DEF Conflict, ViewInv, Known
  <2> QED
    BY <1>2, <1>5, <2>1, Zenon DEF Conflict, Failures
<1>6. ASSUME NEW c \in Clients, Disconnect(c) PROVE Atomic!Next
  <2>1. call[c] # Nil
    BY <1>6, Zenon DEF Disconnect, ViewInv, Known
  <2> QED
    BY <1>2, <1>6, <2>1, Zenon DEF Disconnect, Failures
<1>7. ASSUME NEW c \in Clients, Initialize(c) PROVE UNCHANGED <<db, call, answer>>
  BY <1>7, Zenon DEF Initialize
<1> QED
  BY <1>1, <1>3, <1>4, <1>5, <1>6, <1>7, Zenon DEF Next, vars, Atomic!vars

\* The two-transaction protocol implements the atomic store: whatever managers
\* interleave, every call takes effect at one instant and at most once.
THEOREM Refinement == Spec => Implements
<1>1. Init => Atomic!Init
  BY Zenon DEF Init, Atomic!Init
<1> QED
  BY <1>1, ViewsSound, StepImplements, PTL DEF Spec, Implements, Atomic!Spec

-----------------------------------------------------------------------------
\* The rows: typed, and none references itself.
RowsInv == /\ db.rows \in [Ids -> Row \cup {Nil}]
           /\ \A i \in Ids : Stored(db, i) => db.rows[i].ref # i

\* What a call that writes stores: a row unless it purges, whose reference and
\* claim are the call's or those of the row it replaces, and which is a tombstone
\* only if the call deletes or the row already was one.
LEMMA NewRowFields ==
  ASSUME RowsInv, NEW a \in Calls, Writes(db, a)
  PROVE  LET row == db.rows[a.id]
             new == NewRow(db, a)
         IN  /\ a.op \in {"create", "update", "delete", "purge", "mark"}
             /\ a.op = "purge" => new = Nil
             /\ a.op # "purge" => new \in Row
             /\ a.op # "create" => row \in Row
             /\ a.op \in {"create", "update"} => new.ref = a.ref /\ new.claim = a.claim
             /\ a.op \in {"delete", "mark"} => new.ref = row.ref /\ new.claim = row.claim
             /\ a.op \in {"create", "update"} => new.state = "pending"
             /\ a.op = "mark" => (new.state = "deleting" => row.state = "deleting")
<1> DEFINE row == db.rows[a.id]
           new == NewRow(db, a)
<1>1. /\ a.op \in {"create", "update", "delete", "purge", "mark"}
      /\ a.id \in Ids /\ a.ref \in Ids \cup {Nil} /\ a.claim \in Claims \cup {Nil} /\ a.rev \in 0..MaxRev
      /\ a.op \in {"update", "delete"} => a.rev \in 1..MaxRev - 1
  BY CallShape, Zenon DEF Writes
<1>2. a.op # "create" => row \in Row
  <2>1. a.op # "create" => Stored(db, a.id)
    BY <1>1, Zenon DEF Writes, Accepted, At
  <2> QED
    BY <1>1, <2>1, Zenon DEF Stored, RowsInv
<1>3. MaxRev \in Nat \ {0}
  BY CallsAssumption, Zenon
<1>4. /\ a.op = "create" => new = Resource("pending", 1, 0, a.ref, a.claim)
      /\ a.op = "update" => new = Resource("pending", row.rev + 1, row.applied, a.ref, a.claim)
      /\ a.op = "delete" => new = Resource("deleting", row.rev + 1, row.applied, row.ref, row.claim)
      /\ a.op = "purge" => new = Nil
      /\ a.op = "mark" => new = Resource(MarkedState(row, a), row.rev, MarkedApplied(row, a), row.ref, row.claim)
  BY Zenon DEF NewRow
<1>7. row \in Row => /\ row.state \in {"pending", "ready", "error", "deleting"}
                     /\ row.rev \in 1..MaxRev /\ row.applied \in 0..MaxRev
                     /\ row.ref \in Ids \cup {Nil} /\ row.claim \in Claims \cup {Nil}
  BY Zenon DEF Row
<1>8. a.op \in {"update", "delete"} => row.rev + 1 \in 1..MaxRev
  <2>1. a.op \in {"update", "delete"} => row.rev = a.rev
    BY Zenon DEF Writes, Accepted, At
  <2> QED
    BY <1>1, <1>3, <2>1, SMT
<1>9. CASE a.op = "create"
  <2>1. 1 \in 1..MaxRev /\ 0 \in 0..MaxRev
    BY <1>3, SMT
  <2>2. new \in Row
    BY <1>1, <1>2, <1>4, <1>7, <1>8, <1>9, <2>1, SMT DEF Resource, Row
  <2>3. new.ref = a.ref /\ new.claim = a.claim /\ new.state = "pending"
    BY <1>4, <1>9, SMT DEF Resource
  <2> QED
    BY <1>1, <1>2, <1>9, <2>2, <2>3, Zenon
<1>10. CASE a.op = "update"
  <2>2. new \in Row
    BY <1>1, <1>2, <1>4, <1>7, <1>8, <1>10, SMT DEF Resource, Row
  <2>3. new.ref = a.ref /\ new.claim = a.claim /\ new.state = "pending"
    BY <1>4, <1>10, SMT DEF Resource
  <2> QED
    BY <1>1, <1>2, <1>10, <2>2, <2>3, Zenon
<1>11. CASE a.op = "delete"
  <2>2. new \in Row
    BY <1>1, <1>2, <1>4, <1>7, <1>8, <1>11, SMT DEF Resource, Row
  <2>3. new.ref = row.ref /\ new.claim = row.claim
    BY <1>4, <1>11, SMT DEF Resource
  <2> QED
    BY <1>1, <1>2, <1>11, <2>2, <2>3, Zenon
<1>12. CASE a.op = "mark"
  <2>1. /\ MarkedState(row, a) \in {"pending", "ready", "error", "deleting"}
        /\ MarkedApplied(row, a) \in 0..MaxRev
        /\ MarkedState(row, a) = "deleting" => row.state = "deleting"
    BY <1>1, <1>2, <1>7, <1>12, Zenon DEF MarkedState, MarkedApplied
  <2>2. new \in Row
    BY <1>1, <1>2, <1>4, <1>7, <1>8, <1>12, <2>1, SMT DEF Resource, Row
  <2>3. new.ref = row.ref /\ new.claim = row.claim /\ new.state = MarkedState(row, a)
    BY <1>4, <1>12, SMT DEF Resource
  <2> QED
    BY <1>1, <1>2, <1>12, <2>1, <2>2, <2>3, Zenon
<1>13. CASE a.op = "purge"
  BY <1>1, <1>2, <1>4, <1>13, Zenon
<1> QED
  BY <1>1, <1>9, <1>10, <1>11, <1>12, <1>13, Zenon

\* The inductive invariant of the rows: typed, no reference to itself, every
\* reference held and every claim unique.
DataInv == RowsInv /\ ReferencesHold /\ ClaimsUnique

\* A call that takes effect on rows that satisfy the invariant leaves rows that do.
LEMMA EffectKeepsData ==
  ASSUME DataInv, NEW a \in Calls, db' = Effect(db, a)
  PROVE  DataInv'
<1> DEFINE row == db.rows[a.id]
           new == NewRow(db, a)
<1>1. CASE ~Writes(db, a)
  <2>1. db' = db
    BY <1>1, Zenon DEF Effect
  <2> QED
    BY <2>1, Zenon DEF DataInv, RowsInv, ReferencesHold, ClaimsUnique, Stored
<1>2. CASE Writes(db, a)
  <2> SUFFICES ASSUME Writes(db, a) PROVE DataInv'
    BY <1>2
  <2>1. /\ a.id \in Ids /\ a.ref # a.id
        /\ db.rows \in [Ids -> Row \cup {Nil}] /\ Nil \notin Row
    BY CallShape, CallsAssumption, Zenon DEF DataInv, RowsInv
  <2>2. db'.rows = [db.rows EXCEPT ![a.id] = new]
    BY SMT DEF Effect
  <2>3. /\ a.op \in {"create", "update", "delete", "purge", "mark"}
        /\ a.op = "purge" => new = Nil
        /\ a.op # "purge" => new \in Row
        /\ a.op # "create" => row \in Row
        /\ a.op \in {"create", "update"} => new.ref = a.ref /\ new.claim = a.claim
        /\ a.op \in {"delete", "mark"} => new.ref = row.ref /\ new.claim = row.claim
        /\ a.op \in {"create", "update"} => new.state = "pending"
        /\ a.op = "mark" => (new.state = "deleting" => row.state = "deleting")
    BY NewRowFields, Zenon DEF DataInv
  <2> HIDE DEF new
  <2>4. \A i \in Ids : db'.rows[i] = IF i = a.id THEN new ELSE db.rows[i]
    BY <2>1, <2>2, Zenon
  <2>5. db'.rows \in [Ids -> Row \cup {Nil}]
    BY <2>1, <2>2, <2>3, Zenon
  <2>6. a.op # "create" => Stored(db, a.id)
    BY <2>1, <2>3, Zenon DEF Stored
  <2>7. ASSUME NEW i \in Ids, Stored(db', i), i # a.id
        PROVE  Stored(db, i) /\ db'.rows[i] = db.rows[i]
    BY <2>4, <2>7, Zenon DEF Stored
  <2>8. Stored(db', a.id) => a.op # "purge"
    BY <2>1, <2>3, <2>4, Zenon DEF Stored
  <2>9. ASSUME NEW i \in Ids, Stored(db', i)
        PROVE  db'.rows[i].ref # i
    <3>1. CASE i = a.id
      BY <2>1, <2>3, <2>4, <2>6, <2>8, <2>9, <3>1, Zenon DEF DataInv, RowsInv
    <3>2. CASE i # a.id
      BY <2>7, <2>9, <3>2, Zenon DEF DataInv, RowsInv
    <3> QED
      BY <3>1, <3>2, Zenon
  <2>10. ASSUME NEW i \in Ids, Stored(db', i), db'.rows[i].ref # Nil
         PROVE  LET r == db'.rows[i].ref
                IN  Stored(db', r) /\ db'.rows[r].state # "deleting"
    <3> DEFINE r == db'.rows[i].ref
    <3>0. r \in Ids
      <4>1. db'.rows[i] \in Row
        BY <2>5, <2>10, Zenon DEF Stored
      <4> QED
        BY <2>10, <4>1, Zenon DEF Row
    <3> HIDE DEF r
    <3>1. CASE i = a.id
      <4>1. r # a.id
        BY <2>9, <2>10, <3>1, Zenon DEF r
      <4>2. r = new.ref
        BY <2>4, <3>1, Zenon DEF r
      <4>3. Stored(db, r) /\ db.rows[r].state # "deleting"
        <5>1. r # Nil
          BY <2>10, Zenon DEF r
        <5>2. CASE a.op = "create"
          BY <2>3, <4>2, <5>1, <5>2, Zenon DEF Writes, Accepted, RefersOK
        <5>3. CASE a.op = "update"
          <6>1. CASE r = row.ref
            BY <2>1, <2>6, <5>1, <5>3, <6>1, Zenon DEF DataInv, ReferencesHold
          <6>2. CASE r # row.ref
            BY <2>3, <4>2, <5>1, <5>3, <6>2, Zenon DEF Writes, Accepted, RefersOK
          <6> QED
            BY <6>1, <6>2, Zenon
        <5>4. CASE a.op \in {"delete", "mark"}
          <6>1. r = row.ref /\ Stored(db, a.id)
            BY <2>3, <2>6, <4>2, <5>4, Zenon
          <6> QED
            BY <2>1, <5>1, <6>1, Zenon DEF DataInv, ReferencesHold
        <5> QED
          BY <2>3, <2>8, <2>10, <3>1, <5>2, <5>3, <5>4, Zenon
      <4> QED
        BY <2>4, <3>0, <4>1, <4>3, Zenon DEF Stored, r
    <3>2. CASE i # a.id
      <4>1. Stored(db, i) /\ r = db.rows[i].ref /\ r # Nil
        BY <2>7, <2>10, <3>2, Zenon DEF r
      <4>2. Stored(db, r) /\ db.rows[r].state # "deleting"
        BY <4>1, Zenon DEF DataInv, ReferencesHold
      <4>3. CASE r # a.id
        BY <2>4, <3>0, <4>2, <4>3, Zenon DEF Stored, r
      <4>4. CASE r = a.id
        <5>1. ~Unreferenced(db, a.id)
          BY <3>2, <4>1, <4>4, Zenon DEF Unreferenced
        <5>2. a.op \in {"update", "mark"}
          BY <2>3, <2>6, <4>2, <4>4, <5>1, Zenon DEF Writes, Accepted
        <5>3. new # Nil /\ new.state # "deleting"
          BY <2>1, <2>3, <4>2, <4>4, <5>2, Zenon
        <5> QED
          BY <2>4, <3>0, <4>4, <5>3, Zenon DEF Stored, r
      <4> QED
        BY <4>3, <4>4, Zenon
    <3> QED
      BY <3>1, <3>2, Zenon
  <2>11. ASSUME NEW i \in Ids, NEW j \in Ids, Stored(db', i), Stored(db', j)
         PROVE  ~Clash(i, j, db'.rows[i].claim, db'.rows[j].claim)
    <3>1. ASSUME NEW k \in Ids, k # a.id, Stored(db', k), Stored(db', a.id)
          PROVE  /\ ~Clash(k, a.id, db'.rows[k].claim, new.claim)
                 /\ ~Clash(a.id, k, new.claim, db'.rows[k].claim)
      <4>1. Stored(db, k) /\ db'.rows[k] = db.rows[k]
        BY <2>7, <3>1, Zenon
      <4>2. CASE a.op \in {"create", "update"}
        <5>1. ClaimFree(db, a) /\ new.claim = a.claim
          BY <2>3, <4>2, Zenon DEF Writes, Accepted
        <5>2. ~Clash(k, a.id, db.rows[k].claim, a.claim)
          BY <4>1, <5>1, Zenon DEF ClaimFree
        <5> QED
          BY <4>1, <5>1, <5>2, Zenon DEF Clash
      <4>3. CASE a.op \in {"delete", "mark"}
        <5>1. new.claim = row.claim /\ Stored(db, a.id)
          BY <2>3, <2>6, <4>3, Zenon
        <5> QED
          BY <2>1, <4>1, <5>1, Zenon DEF DataInv, ClaimsUnique
      <4> QED
        BY <2>3, <2>8, <3>1, <4>2, <4>3, Zenon
    <3>2. CASE i = j
      BY <3>2, Zenon DEF Clash
    <3>3. CASE i # j /\ i = a.id
      BY <2>4, <2>11, <3>1, <3>3, Zenon
    <3>4. CASE i # j /\ j = a.id
      BY <2>4, <2>11, <3>1, <3>4, Zenon
    <3>5. CASE i # a.id /\ j # a.id
      BY <2>7, <2>11, <3>5, Zenon DEF DataInv, ClaimsUnique
    <3> QED
      BY <3>2, <3>3, <3>4, <3>5, Zenon
  <2> QED
    BY <2>5, <2>9, <2>10, <2>11, Zenon DEF DataInv, RowsInv, ReferencesHold, ClaimsUnique
<1> QED
  BY <1>1, <1>2, Zenon

\* Because the store is atomic, a step changes the rows only by the whole effect
\* of one call.
LEMMA StepKeepsData ==
  ASSUME ViewInv, DataInv, [Next]_vars
  PROVE  DataInv'
<1>1. [Atomic!Next]_(Atomic!vars)
  BY StepImplements, Zenon
<1>2. CASE db' = db
  BY <1>2, Zenon DEF DataInv, RowsInv, ReferencesHold, ClaimsUnique, Stored
<1>3. CASE \E c \in Clients : Atomic!Take(c)
  <2>1. PICK c \in Clients : call[c] # Nil /\ db' = Effect(db, call[c])
    BY <1>3, Zenon DEF Atomic!Take
  <2>2. call[c] \in Calls
    BY <2>1, Zenon DEF ViewInv
  <2> QED
    BY <2>1, <2>2, EffectKeepsData, Zenon
<1> QED
  BY <1>1, <1>2, <1>3, Zenon DEF Atomic!Next, Atomic!vars, Atomic!Invoke, Atomic!Fail

\* The rows invariant holds in every reachable state.
THEOREM DataSound == Spec => []DataInv
<1>1. Init => DataInv
  <2>1. Init => db.rows = [i \in Ids |-> Nil]
    BY SMT DEF Init, Empty
  <2> QED
    BY <2>1, Zenon DEF DataInv, RowsInv, ReferencesHold, ClaimsUnique, Stored
<1> QED
  BY <1>1, ViewsSound, StepKeepsData, PTL DEF Spec

\* Nothing stored refers to what is gone or on its way out, although the check
\* and the write of a reference are two transactions and the deletion of its
\* target is on another row (validateNewReferenceStates, firstReference).
THEOREM ReferencesKept == Spec => []ReferencesHold
<1>1. DataInv => ReferencesHold
  BY Zenon DEF DataInv
<1> QED
  BY <1>1, DataSound, PTL

\* No two resources of a kind share a claim, although each writer only writes its
\* own row (validateUnique).
THEOREM ClaimsKept == Spec => []ClaimsUnique
<1>1. DataInv => ClaimsUnique
  BY Zenon DEF DataInv
<1> QED
  BY <1>1, DataSound, PTL
=============================================================================
