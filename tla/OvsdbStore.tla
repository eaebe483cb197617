----------------------------- MODULE OvsdbStore -----------------------------
(***************************************************************************)
(* The control store on OVSDB (internal/ovsdbstore/store.go, database.go). *)
(* A call reads the whole database in one transaction, decides from that   *)
(* view, and commits its rows in a second one that first waits for the     *)
(* lock row to have the epoch of the view.  A commit that meets another    *)
(* epoch starts over.  Calls of different managers interleave freely.      *)
(***************************************************************************)
EXTENDS StoreCalls

CONSTANTS Clients,     \* callers, over all managers
          MaxAttempts, \* tries before a call gives up (64 in the code)
          MaxEpoch     \* the last epoch (the largest int64 in the code)

ASSUME OvsdbAssumption == MaxAttempts \in Nat \ {0} /\ MaxEpoch \in Nat \ {0}

VARIABLES db,      \* the rows and tokens of PVN_Control
          epoch,   \* the revision of the lock row; 0 while there is none
          call,    \* per client, the call it is in, or Nil
          answer,  \* per client, the answer to its last call
          pc,      \* the database transaction it makes next
          view,    \* what it last read: epoch and database
          attempt  \* its try

\* A lost connection, and maxWriteAttempts conflicts.
Failures == {Answered("failed", 0), Answered("unserialized", 0)}

Atomic == INSTANCE AtomicStore

vars == <<db, epoch, call, answer, pc, view, attempt>>

View(e, d) == [epoch |-> e, db |-> d]

\* Database, clients and their views have the shapes the code gives them.
TypeOK == /\ db \in Database
          /\ epoch \in 0..MaxEpoch
          /\ call \in [Clients -> Calls \cup {Nil}]
          /\ pc \in [Clients -> {"idle", "load", "init", "commit"}]
          /\ view \in [Clients -> [epoch : 0..MaxEpoch, db : Database]]
          /\ attempt \in [Clients -> 1..MaxAttempts]

Init == /\ db = Empty
        /\ epoch = 0
        /\ call = [c \in Clients |-> Nil]
        /\ answer = [c \in Clients |-> Nil]
        /\ pc = [c \in Clients |-> "idle"]
        /\ view = [c \in Clients |-> View(0, Empty)]
        /\ attempt = [c \in Clients |-> 1]

Goto(c, l) == pc' = [pc EXCEPT ![c] = l]

\* c's call returns a.
Return(c, a) == /\ call' = [call EXCEPT ![c] = Nil]
                /\ answer' = [answer EXCEPT ![c] = a]
                /\ Goto(c, "idle")
                /\ view' = [view EXCEPT ![c] = View(0, Empty)]
                /\ attempt' = [attempt EXCEPT ![c] = 1]

Invoke(c, a) == /\ pc[c] = "idle"
                /\ call' = [call EXCEPT ![c] = a]
                /\ answer' = [answer EXCEPT ![c] = Nil]
                /\ Goto(c, "load")
                /\ UNCHANGED <<db, epoch, view, attempt>>

Exhausted == epoch = MaxEpoch

\* load: one transaction that selects every table.  Without a lock row it is
\* inserted first; an exhausted epoch is an error; a call that has nothing to
\* write is answered from the view.
Load(c) ==
  /\ pc[c] = "load"
  /\ \/ /\ epoch = 0
        /\ Goto(c, "init")
        /\ UNCHANGED <<call, answer, view, attempt>>
     \/ /\ Exhausted
        /\ Return(c, Answered("failed", 0))
     \/ /\ epoch # 0 /\ ~Exhausted
        /\ ~Writes(db, call[c])
        /\ Return(c, Answer(db, call[c]))
     \/ /\ epoch # 0 /\ ~Exhausted
        /\ Writes(db, call[c])
        /\ view' = [view EXCEPT ![c] = View(epoch, db)]
        /\ Goto(c, "commit")
        /\ UNCHANGED <<call, answer, attempt>>
  /\ UNCHANGED <<db, epoch>>

\* initialize: the unique index lets one manager insert the lock row; everyone
\* reads again.
Initialize(c) == /\ pc[c] = "init"
                 /\ epoch' = IF epoch = 0 THEN 1 ELSE epoch
                 /\ Goto(c, "load")
                 /\ UNCHANGED <<db, call, answer, view, attempt>>

\* Mutant of Committed: the token is not part of the transaction.
CommittedWithoutToken(d, c) ==
  [rows |-> [d.rows EXCEPT ![call[c].id] = NewRow(view[c].db, call[c])], tokens |-> d.tokens]

\* The transaction c prepared from its view, run on database d.  A duplicate
\* insert aborts it; an update and a delete touch only the row at the revision
\* the view had.
Committed(d, c) ==
  LET a == call[c]
      old == view[c].db
      hit == IF a.op = "create" THEN ~Stored(d, a.id)
             ELSE Stored(d, a.id) /\ d.rows[a.id].rev = old.rows[a.id].rev
  IN  IF hit
      THEN [rows |-> [d.rows EXCEPT ![a.id] = NewRow(old, a)],
            tokens |-> d.tokens \cup NewTokens(old, a)]
      ELSE d

\* Mutant of EpochHolds: only the row that is written is compared.
AnyEpoch(c) == TRUE

\* The wait on the lock row's revision.
EpochHolds(c) == epoch = view[c].epoch

\* commit: the wait, the lock row's next revision and the changes are one
\* durable transaction.  Its answer may be lost.
Commit(c) == /\ pc[c] = "commit"
             /\ EpochHolds(c)
             /\ epoch' = epoch + 1
             /\ db' = Committed(db, c)
             /\ \E a \in {Answer(view[c].db, call[c]), Answered("failed", 0)} : Return(c, a)

\* The wait timed out: another transaction came first.
Conflict(c) == /\ pc[c] = "commit"
               /\ ~EpochHolds(c)
               /\ \/ /\ attempt[c] < MaxAttempts
                     /\ attempt' = [attempt EXCEPT ![c] = @ + 1]
                     /\ view' = [view EXCEPT ![c] = View(0, Empty)]
                     /\ Goto(c, "load")
                     /\ UNCHANGED <<call, answer>>
                  \/ /\ attempt[c] = MaxAttempts
                     /\ Return(c, Answered("unserialized", 0))
               /\ UNCHANGED <<db, epoch>>

\* The connection fails before the transaction reaches the server.
Disconnect(c) == /\ pc[c] # "idle"
                 /\ Return(c, Answered("failed", 0))
                 /\ UNCHANGED <<db, epoch>>

Next == \E c \in Clients : \/ \E a \in Calls : Invoke(c, a)
                           \/ Load(c) \/ Initialize(c) \/ Commit(c) \/ Conflict(c) \/ Disconnect(c)

Spec == Init /\ [][Next]_vars

-----------------------------------------------------------------------------
\* The two-transaction protocol gives every caller the atomic store: each call
\* takes effect at one instant, on the database of that instant, at most once.
Implements == Atomic!Spec

\* Whatever is referenced is stored and not on its way out, although a writer
\* checks that in a view and writes later, and the two rows are different ones
\* (validateNewReferenceStates against firstReference).
ReferencesHold ==
  \A i \in Ids : Stored(db, i) /\ db.rows[i].ref # Nil
                 => Stored(db, db.rows[i].ref) /\ db.rows[db.rows[i].ref].state # "deleting"

\* No two resources of a kind share a claim, tombstones included, although the
\* writer of one does not write the other's row and no index of the schema
\* covers it (validateUnique).
ClaimsUnique ==
  \A i, j \in Ids : Stored(db, i) /\ Stored(db, j)
                    => ~Clash(i, j, db.rows[i].claim, db.rows[j].claim)
=============================================================================
