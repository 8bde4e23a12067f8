---------------------------- MODULE Transactions ----------------------------
(***************************************************************************)
(* The transactions that the class comment of SQLiteSession promises, with *)
(* neither connections, nesting frames nor callbacks.  Each session has at *)
(* most one explicit transaction; what it writes is held back until the    *)
(* transaction is committed as a whole or dropped as a whole.              *)
(***************************************************************************)
CONSTANTS Session, Write

VARIABLES
  phase,    \* per session: "none", "active", or "yielded" between end and begin
  marked,   \* per session: the outermost transaction is marked successful
  failed,   \* per session: some nested transaction has failed
  pending,  \* per session: the writes held back
  durable   \* the writes committed

vars == <<phase, marked, failed, pending, durable>>

Init == /\ phase = [s \in Session |-> "none"]
        /\ marked = [s \in Session |-> FALSE]
        /\ failed = [s \in Session |-> FALSE]
        /\ pending = [s \in Session |-> {}]
        /\ durable = {}

New(w) == w \notin durable /\ \A s \in Session : w \notin pending[s]

Begin(s) == /\ phase[s] # "active"
            /\ phase' = [phase EXCEPT ![s] = "active"]
            /\ UNCHANGED <<marked, failed, pending, durable>>

\* A statement of an explicit transaction, and one that is its own transaction.
WriteInside(s, w) == /\ phase[s] = "active" /\ New(w)
                     /\ pending' = [pending EXCEPT ![s] = @ \cup {w}]
                     /\ UNCHANGED <<phase, marked, failed, durable>>
WriteAlone(s, w) == /\ phase[s] = "none" /\ New(w)
                    /\ durable' = durable \cup {w}
                    /\ UNCHANGED <<phase, marked, failed, pending>>

MarkSuccessful(s) == /\ phase[s] = "active"
                     /\ marked' = [marked EXCEPT ![s] = TRUE]
                     /\ UNCHANGED <<phase, failed, pending, durable>>

NestedFails(s) == /\ phase[s] = "active"
                  /\ failed' = [failed EXCEPT ![s] = TRUE]
                  /\ UNCHANGED <<phase, marked, pending, durable>>

EndIn(s, next) == /\ phase' = [phase EXCEPT ![s] = next]
                  /\ marked' = [marked EXCEPT ![s] = FALSE]
                  /\ failed' = [failed EXCEPT ![s] = FALSE]
                  /\ pending' = [pending EXCEPT ![s] = {}]

Commit(s) == /\ phase[s] = "active" /\ marked[s] /\ ~failed[s]
             /\ durable' = durable \cup pending[s]
             /\ EndIn(s, "none")

Yield(s) == /\ phase[s] = "active" /\ ~marked[s] /\ ~failed[s]
            /\ durable' = durable \cup pending[s]
            /\ EndIn(s, "yielded")

\* An error can end a transaction whatever its marks say.
Rollback(s) == /\ phase[s] = "active"
               /\ EndIn(s, "none")
               /\ UNCHANGED durable

\* The transaction cannot be begun again after a yield.
Abandon(s) == /\ phase[s] = "yielded"
              /\ phase' = [phase EXCEPT ![s] = "none"]
              /\ UNCHANGED <<marked, failed, pending, durable>>

Next == \E s \in Session :
          \/ Begin(s) \/ MarkSuccessful(s) \/ NestedFails(s)
          \/ Commit(s) \/ Yield(s) \/ Rollback(s) \/ Abandon(s)
          \/ \E w \in Write : WriteInside(s, w) \/ WriteAlone(s, w)

Spec == Init /\ [][Next]_vars
=============================================================================
