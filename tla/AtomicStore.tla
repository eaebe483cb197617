----------------------------- MODULE AtomicStore -----------------------------
(***************************************************************************)
(* What the control store promises its callers (the Store interface of     *)
(* internal/controlstore/store.go): a call takes effect at one instant     *)
(* between its start and its answer, on the database as it is then, and at *)
(* most once.  A call whose answer is lost may or may not have taken       *)
(* effect.                                                                 *)
(***************************************************************************)
CONSTANTS Clients,       \* callers, over all managers
          Calls,         \* the calls they make
          Nil,           \* no call, no answer
          Empty,         \* the database before the first call
          Effect(_, _),  \* the database after a call took effect on it
          Answer(_, _),  \* the answer of a call that took effect on it
          Failures       \* the answers of a call that failed

VARIABLES db,     \* PVN_Control
          call,   \* per client, the call it is in, or Nil
          answer  \* per client, the answer to its last call

vars == <<db, call, answer>>

Init == /\ db = Empty
        /\ call = [c \in Clients |-> Nil]
        /\ answer = [c \in Clients |-> Nil]

Invoke(c, a) == /\ call[c] = Nil
                /\ call' = [call EXCEPT ![c] = a]
                /\ answer' = [answer EXCEPT ![c] = Nil]
                /\ UNCHANGED db

Return(c, a) == /\ call' = [call EXCEPT ![c] = Nil]
                /\ answer' = [answer EXCEPT ![c] = a]

\* The call takes effect; its answer may be lost.
Take(c) == /\ call[c] # Nil
           /\ db' = Effect(db, call[c])
           /\ \E a \in {Answer(db, call[c])} \cup Failures : Return(c, a)

\* The call fails without an effect.
Fail(c) == /\ call[c] # Nil
           /\ \E a \in Failures : Return(c, a)
           /\ UNCHANGED db

Next == \E c \in Clients : (\E a \in Calls : Invoke(c, a)) \/ Take(c) \/ Fail(c)

Spec == Init /\ [][Next]_vars
=============================================================================
