------------------------------ MODULE Session ------------------------------
(***************************************************************************)
(* SQLiteSession: the transaction state of one thread, the connection it   *)
(* borrows from the pool, and the native transaction of that connection.   *)
(*                                                                         *)
(* A session belongs to one thread, so what interleaves is the sessions,   *)
(* which meet at the pool.  One session is re-entrant: a statement may run *)
(* a custom function, and a transaction listener is called in the middle   *)
(* of beginTransaction and endTransaction.  An operation is one step up to *)
(* such a callback and one after it; `calls' is the stack of activations   *)
(* in between.  Client code keeps the contract of beginTransaction: each   *)
(* activation ends just the transactions that it began.                    *)
(*                                                                         *)
(* Data abstractions: a connection is its native transaction and the       *)
(* writes that it holds back; a write is an identity; the transaction mode *)
(* and the connection flags, which are only passed on, are left out, and   *)
(* so are calls that throw before they change anything.                    *)
(***************************************************************************)
EXTENDS SequencesExt

CONSTANTS
  Session,           \* one per thread
  Conn,              \* the connections of the pool
  NoConn, NoSession, \* null
  MaxDepth,          \* bound: nested transactions of a session
  MaxCalls,          \* bound: activations of a session
  MaxWrites,         \* bound: writes of a session
  Env                \* what may happen, a subset of EnvEvents

EnvEvents == {"listener", "listenerTransactions", "yield", "beginFails",
              "commitFails", "rollbackFails", "conflictRollback", "poolCloses"}

ASSUME SessionAssumption ==
  /\ NoConn \notin Conn /\ NoSession \notin Session
  /\ MaxDepth \in Nat /\ MaxCalls \in Nat /\ MaxWrites \in Nat
  /\ Env \subseteq EnvEvents

VARIABLES
  mConnection, mConnectionUseCount,
  mTransactionStack,  \* the frames, outermost first
  mTransactionPool,   \* recycled frames, next to be used last
  calls,              \* activations, innermost last
  owner,              \* the pool: who has each connection
  native,             \* the connections: native transaction and its writes
  durable,            \* writes in the database
  written,            \* number of writes of each session
  nestedFailed        \* history: a nested transaction of the current one has failed

connVars  == <<mConnection, mConnectionUseCount, owner>>
stackVars == <<mTransactionStack, mTransactionPool>>
dataVars  == <<native, durable, written>>
vars == <<connVars, stackVars, calls, dataVars, nestedFailed>>

Pool == INSTANCE PoolInterface WITH Client <- Session, NoClient <- NoSession

Write == Session \X (1 .. MaxWrites)
Frames == [listener : BOOLEAN, markedSuccessful : BOOLEAN, childFailed : BOOLEAN]
Kinds == {"statement", "onBegin", "onEnd", "commit", "sleep"}

\* base: the transactions that its callee must not touch; the rest are locals.
Activations == [kind : Kinds, base : 0 .. MaxDepth, listener : BOOLEAN,
                successful : BOOLEAN, yielding : BOOLEAN]

Depth(s) == Len(mTransactionStack[s])
Top(s) == mTransactionStack[s][Depth(s)]
Call(s) == Last(calls[s])

\* Client code of s is running: on the thread's own stack or in a callback.
At(s, kind) == calls[s] # <<>> /\ Call(s).kind = kind
Running(s) == ~At(s, "sleep") /\ ~At(s, "commit")
InListener(s) == \E i \in DOMAIN calls[s] : calls[s][i].kind \in {"onBegin", "onEnd"}

\* The running client code has a transaction that it began itself.
HasOwnTransaction(s) == Depth(s) > IF calls[s] = <<>> THEN 0 ELSE Call(s).base

Activation(s, kind, l, ok, y) ==
  [kind |-> kind, base |-> Depth(s), listener |-> l, successful |-> ok, yielding |-> y]
Push(s, a) == /\ Len(calls[s]) < MaxCalls
              /\ calls' = [calls EXCEPT ![s] = Append(@, a)]
Return(s) == calls' = [calls EXCEPT ![s] = Front(@)]

Init ==
  /\ mConnection = [s \in Session |-> NoConn]
  /\ mConnectionUseCount = [s \in Session |-> 0]
  /\ mTransactionStack = [s \in Session |-> <<>>]
  /\ mTransactionPool = [s \in Session |-> <<>>]
  /\ calls = [s \in Session |-> <<>>]
  /\ Pool!Init
  /\ native = [c \in Conn |-> [open |-> FALSE, pending |-> {}]]
  /\ durable = {}
  /\ written = [s \in Session |-> 0]
  /\ nestedFailed = [s \in Session |-> FALSE]

-----------------------------------------------------------------------------
(* The connection.                                                         *)

acquireConnection(s) ==
  /\ \/ /\ mConnection[s] # NoConn
        /\ UNCHANGED <<mConnection, owner>>
     \/ /\ mConnection[s] = NoConn
        /\ \E c \in Conn : /\ Pool!Acquire(s, c)
                           /\ mConnection' = [mConnection EXCEPT ![s] = c]
  /\ mConnectionUseCount' = [mConnectionUseCount EXCEPT ![s] = @ + 1]

\* Faulty form: the connection goes back while the session still uses it.
releaseConnectionAtOnce(s) ==
  /\ mConnectionUseCount' = [mConnectionUseCount EXCEPT ![s] = @ - 1]
  /\ Pool!Release(s, mConnection[s])
  /\ mConnection' = [mConnection EXCEPT ![s] = NoConn]

\* Faulty form: the uses are never counted down.
releaseConnectionUncounted(s) == UNCHANGED connVars

releaseConnection(s) ==
  /\ mConnectionUseCount' = [mConnectionUseCount EXCEPT ![s] = @ - 1]
  /\ \/ /\ mConnectionUseCount[s] = 1
        /\ Pool!Release(s, mConnection[s])
        /\ mConnection' = [mConnection EXCEPT ![s] = NoConn]
     \/ /\ mConnectionUseCount[s] # 1
        /\ UNCHANGED <<mConnection, owner>>

\* The pool closes an idle connection; SQLite rolls its transaction back.
CloseIdleConnection(c) ==
  /\ "poolCloses" \in Env
  /\ owner[c] = NoSession
  /\ native[c].open
  /\ native' = [native EXCEPT ![c] = [open |-> FALSE, pending |-> {}]]
  /\ UNCHANGED <<connVars, stackVars, calls, durable, written, nestedFailed>>

-----------------------------------------------------------------------------
(* The native transaction of the session's connection (SQLite).            *)

NativeBegin(s) == LET c == mConnection'[s] IN
  /\ ~native[c].open
  /\ native' = [native EXCEPT ![c].open = TRUE]
  /\ UNCHANGED <<durable, written>>

NativeCommit(s) == LET c == mConnection[s] IN
  /\ native[c].open
  /\ native' = [native EXCEPT ![c] = [open |-> FALSE, pending |-> {}]]
  /\ durable' = durable \cup native[c].pending
  /\ UNCHANGED written

NativeRollback(s) == LET c == mConnection[s] IN
  /\ native[c].open
  /\ native' = [native EXCEPT ![c] = [open |-> FALSE, pending |-> {}]]
  /\ UNCHANGED <<durable, written>>

\* COMMIT or ROLLBACK throws: the database is busy or the signal is canceled, or
\* there is no native transaction any more.
NativeEndThrows(s, event) ==
  /\ event \in Env \/ ~native[mConnection[s]].open
  /\ UNCHANGED dataVars

-----------------------------------------------------------------------------
(* Statements.                                                             *)

\* execute, executeForLong, ..., prepare up to the native step.
ExecuteBegin(s) ==
  /\ Running(s)
  /\ acquireConnection(s)
  /\ Push(s, Activation(s, "statement", FALSE, FALSE, FALSE))
  /\ UNCHANGED <<stackVars, dataVars, nestedFailed>>

\* The native step returns or throws, and the statement is released.
ExecuteEnd(s) ==
  /\ At(s, "statement") /\ ~HasOwnTransaction(s)
  /\ releaseConnection(s)
  /\ Return(s)
  /\ UNCHANGED <<stackVars, nestedFailed>>

\* It wrote a row.
ExecuteWrite(s) == LET c == mConnection[s]
                       w == <<s, written[s] + 1>> IN
  /\ ExecuteEnd(s)
  /\ written[s] < MaxWrites
  /\ written' = [written EXCEPT ![s] = @ + 1]
  /\ \/ /\ native[c].open
        /\ native' = [native EXCEPT ![c].pending = @ \cup {w}]
        /\ UNCHANGED durable
     \/ /\ ~native[c].open
        /\ durable' = durable \cup {w}
        /\ UNCHANGED native

\* It only read, or it threw and changed nothing.
ExecuteRead(s) == ExecuteEnd(s) /\ UNCHANGED dataVars

\* A constraint failed with CONFLICT_ROLLBACK: SQLite ends the transaction.
ExecuteConflict(s) ==
  /\ "conflictRollback" \in Env
  /\ ExecuteEnd(s)
  /\ NativeRollback(s)

-----------------------------------------------------------------------------
(* Transaction frames.                                                     *)

NewFrame(l) == [listener |-> l, markedSuccessful |-> FALSE, childFailed |-> FALSE]

\* Faulty form: a recycled frame keeps the marks of its last transaction.
PushTransactionStale(s, l) == LET pool == mTransactionPool[s] IN
  /\ mTransactionPool' = [mTransactionPool EXCEPT ![s] = IF pool = <<>> THEN pool ELSE Front(pool)]
  /\ mTransactionStack' = [mTransactionStack EXCEPT ![s] = Append(@,
       IF pool = <<>> THEN NewFrame(l) ELSE [Last(pool) EXCEPT !.listener = l])]

\* obtainTransaction and the two assignments after it.
PushTransaction(s, l) == LET pool == mTransactionPool[s] IN
  /\ mTransactionPool' = [mTransactionPool EXCEPT ![s] = IF pool = <<>> THEN pool ELSE Front(pool)]
  /\ mTransactionStack' = [mTransactionStack EXCEPT ![s] = Append(@, NewFrame(l))]

\* Faulty form: the parent does not learn that its child failed.
PopTransactionForgetful(s, ok) ==
  /\ mTransactionPool' = [mTransactionPool EXCEPT ![s] =
       Append(@, [Top(s) EXCEPT !.listener = FALSE])]
  /\ mTransactionStack' = [mTransactionStack EXCEPT ![s] = Front(@)]

\* mTransactionStack = top.mParent; recycleTransaction(top); the parent's mChildFailed.
PopTransaction(s, ok) == LET rest == Front(mTransactionStack[s]) IN
  /\ mTransactionPool' = [mTransactionPool EXCEPT ![s] =
       Append(@, [Top(s) EXCEPT !.listener = FALSE])]
  /\ mTransactionStack' = [mTransactionStack EXCEPT ![s] =
       IF ok \/ rest = <<>> THEN rest ELSE [rest EXCEPT ![Len(rest)].childFailed = TRUE]]

-----------------------------------------------------------------------------
(* beginTransaction.                                                       *)

\* acquireConnection and BEGIN for an outermost transaction, nothing for a nested one.
StartTransaction(s) ==
  \/ /\ mTransactionStack[s] = <<>>
     /\ acquireConnection(s)
     /\ NativeBegin(s)
  \/ /\ mTransactionStack[s] # <<>>
     /\ UNCHANGED <<connVars, dataVars>>

Listeners == IF "listener" \in Env THEN BOOLEAN ELSE {FALSE}

beginTransaction(s, l) ==
  /\ Running(s) /\ Depth(s) < MaxDepth
  /\ ~InListener(s) \/ "listenerTransactions" \in Env
  /\ mTransactionStack[s] # <<>> => ~Top(s).markedSuccessful
  /\ StartTransaction(s)
  /\ \/ l /\ Push(s, Activation(s, "onBegin", l, FALSE, FALSE)) /\ UNCHANGED stackVars
     \/ ~l /\ PushTransaction(s, l) /\ UNCHANGED calls
  /\ UNCHANGED nestedFailed

\* onBegin returns.
OnBeginReturns(s) ==
  /\ At(s, "onBegin") /\ ~HasOwnTransaction(s)
  /\ PushTransaction(s, TRUE)
  /\ Return(s)
  /\ UNCHANGED <<connVars, dataVars, nestedFailed>>

\* Faulty form: an exception of the listener leaves the native transaction open.
OnBeginThrowsNoRollback(s) ==
  /\ At(s, "onBegin") /\ ~HasOwnTransaction(s)
  /\ Return(s)
  /\ IF mTransactionStack[s] = <<>> THEN releaseConnection(s) ELSE UNCHANGED connVars
  /\ UNCHANGED <<stackVars, dataVars, nestedFailed>>

\* onBegin throws: roll back and release what was begun for an outermost transaction.
OnBeginThrows(s) ==
  /\ At(s, "onBegin") /\ ~HasOwnTransaction(s)
  /\ Return(s)
  /\ \/ /\ mTransactionStack[s] = <<>>
        /\ NativeRollback(s) \/ NativeEndThrows(s, "rollbackFails")
        /\ releaseConnection(s)
     \/ /\ mTransactionStack[s] # <<>>
        /\ UNCHANGED <<connVars, dataVars>>
  /\ UNCHANGED <<stackVars, nestedFailed>>

-----------------------------------------------------------------------------
(* setTransactionSuccessful, endTransaction and yieldTransaction.          *)

setTransactionSuccessfulUnlessMarked(s) ==
  /\ Running(s) /\ HasOwnTransaction(s)
  /\ ~Top(s).markedSuccessful
  /\ mTransactionStack' = [mTransactionStack EXCEPT ![s][Depth(s)].markedSuccessful = TRUE]
  /\ UNCHANGED <<connVars, mTransactionPool, dataVars, nestedFailed>>

setTransactionSuccessful(s) == setTransactionSuccessfulUnlessMarked(s) /\ UNCHANGED calls

Successful(f, yielding) == (f.markedSuccessful \/ yielding) /\ ~f.childFailed

\* COMMIT or ROLLBACK and the release of an outermost transaction.
EndOutermost(s, ok) ==
  /\ IF ok THEN NativeCommit(s) ELSE NativeRollback(s)
  /\ releaseConnection(s)

EndOutermostThrows(s, ok) ==
  /\ NativeEndThrows(s, IF ok THEN "commitFails" ELSE "rollbackFails")
  /\ releaseConnection(s)

\* endTransactionUnchecked after the listener.  rest: the activations that remain.
FinishEnd(s, ok, yielding, rest) ==
  /\ PopTransaction(s, ok)
  /\ \/ /\ Depth(s) > 1
        /\ calls' = [calls EXCEPT ![s] = rest]
        /\ nestedFailed' = [nestedFailed EXCEPT ![s] = @ \/ ~ok \/ ~Top(s).markedSuccessful]
        /\ UNCHANGED <<connVars, dataVars>>
     \/ /\ Depth(s) = 1
        /\ EndOutermost(s, ok)
        /\ calls' = [calls EXCEPT ![s] = IF ~yielding THEN rest ELSE Append(rest,
             [Activation(s, "sleep", Top(s).listener, FALSE, FALSE) EXCEPT !.base = 0])]
        /\ nestedFailed' = [nestedFailed EXCEPT ![s] = FALSE]
     \/ /\ Depth(s) = 1
        /\ EndOutermostThrows(s, ok)
        /\ calls' = [calls EXCEPT ![s] = rest]
        /\ nestedFailed' = [nestedFailed EXCEPT ![s] = FALSE]

\* endTransactionUnchecked up to the listener, or all of it without one.
EndUnchecked(s, yielding, rest) == LET ok == Successful(Top(s), yielding) IN
  \/ /\ Top(s).listener
     /\ Len(rest) < MaxCalls
     /\ calls' = [calls EXCEPT ![s] = Append(rest, Activation(s, "onEnd", TRUE, ok, yielding))]
     /\ UNCHANGED <<connVars, stackVars, dataVars, nestedFailed>>
  \/ /\ ~Top(s).listener
     /\ FinishEnd(s, ok, yielding, rest)

endTransaction(s) ==
  /\ Running(s) /\ HasOwnTransaction(s)
  /\ EndUnchecked(s, FALSE, calls[s])

\* The statement COMMIT: setTransactionSuccessful, then endTransaction.
executeCommit(s) ==
  /\ setTransactionSuccessfulUnlessMarked(s)
  /\ Push(s, Activation(s, "commit", FALSE, FALSE, FALSE))
executeCommitEnd(s) ==
  /\ At(s, "commit")
  /\ EndUnchecked(s, FALSE, Front(calls[s]))

\* onCommit or onRollback returns.
OnEndReturns(s) ==
  /\ At(s, "onEnd") /\ ~HasOwnTransaction(s)
  /\ FinishEnd(s, Call(s).successful, Call(s).yielding, Front(calls[s]))

\* onCommit or onRollback throws: the transaction is not successful, and the exception
\* is thrown at the end.
OnEndThrows(s) ==
  /\ At(s, "onEnd") /\ ~HasOwnTransaction(s)
  /\ FinishEnd(s, FALSE, FALSE, Front(calls[s]))

\* yieldTransaction while another session waits for the connection.
yieldTransaction(s) ==
  /\ "yield" \in Env
  /\ Running(s) /\ HasOwnTransaction(s)
  /\ Depth(s) = 1 /\ ~Top(s).markedSuccessful
  /\ ~Top(s).childFailed
  /\ EndUnchecked(s, TRUE, calls[s])

\* The sleep is over: beginTransactionUnchecked with the listener of the old transaction.
YieldResumes(s) ==
  /\ At(s, "sleep")
  /\ StartTransaction(s)
  /\ \/ /\ Call(s).listener
        /\ calls' = [calls EXCEPT ![s][Len(calls[s])].kind = "onBegin"]
        /\ UNCHANGED stackVars
     \/ /\ ~Call(s).listener
        /\ PushTransaction(s, FALSE)
        /\ Return(s)
  /\ UNCHANGED nestedFailed

\* It throws: the connection cannot be acquired or BEGIN fails.
YieldResumeThrows(s) ==
  /\ At(s, "sleep")
  /\ "beginFails" \in Env
  /\ Return(s)
  /\ UNCHANGED <<connVars, stackVars, dataVars, nestedFailed>>

-----------------------------------------------------------------------------
Next ==
  \/ \E s \in Session :
       \/ ExecuteBegin(s) \/ ExecuteWrite(s) \/ ExecuteRead(s) \/ ExecuteConflict(s)
       \/ \E l \in Listeners : beginTransaction(s, l)
       \/ OnBeginReturns(s) \/ OnBeginThrows(s)
       \/ setTransactionSuccessful(s)
       \/ endTransaction(s) \/ executeCommit(s) \/ executeCommitEnd(s)
       \/ OnEndReturns(s) \/ OnEndThrows(s)
       \/ yieldTransaction(s) \/ YieldResumes(s) \/ YieldResumeThrows(s)
  \/ \E c \in Conn : CloseIdleConnection(c)

Spec == Init /\ [][Next]_vars

-----------------------------------------------------------------------------
(* Properties.                                                             *)

\* Every variable of the session and of the connections has its type.
TypeOK ==
  /\ mConnection \in [Session -> Conn \cup {NoConn}]
  /\ mConnectionUseCount \in [Session -> 0 .. MaxCalls + 1]
  /\ mTransactionStack \in [Session -> Seq(Frames)]
  /\ mTransactionPool \in [Session -> Seq(Frames)]
  /\ calls \in [Session -> Seq(Activations)]
  /\ \A s \in Session : Depth(s) <= MaxDepth /\ Len(calls[s]) <= MaxCalls + 1
  /\ owner \in [Conn -> Session \cup {NoSession}]
  /\ native \in [Conn -> [open : BOOLEAN, pending : SUBSET Write]]
  /\ durable \subseteq Write
  /\ written \in [Session -> 0 .. MaxWrites]
  /\ nestedFailed \in [Session -> BOOLEAN]

\* s is inside onBegin of an outermost transaction: begun, but not on the stack yet.
BeginningOutermost(s) ==
  {i \in DOMAIN calls[s] : calls[s][i].kind = "onBegin" /\ calls[s][i].base = 0}
Statements(s) == {i \in DOMAIN calls[s] : calls[s][i].kind = "statement"}

\* mConnectionUseCount counts the statements in progress and the explicit transaction,
\* and the session has a connection, its own, exactly while the count is positive: no
\* callback, exception or yield leaks a connection or gives one back in use.
UseCountExact ==
  \A s \in Session :
    /\ mConnectionUseCount[s] = Cardinality(Statements(s))
         + Cardinality(BeginningOutermost(s)) + IF Depth(s) > 0 THEN 1 ELSE 0
    /\ \A c \in Conn : owner[c] = s <=> mConnection[s] = c
    /\ (mConnection[s] # NoConn) = (mConnectionUseCount[s] > 0)

\* endTransaction: "the changes are committed if setTransactionSuccessful was called or
\* rolled back otherwise": no connection lies in the pool with a transaction open.
NothingLeftOpen ==
  \A c \in Conn : owner[c] = NoSession => ~native[c].open

T == INSTANCE Transactions WITH
  phase <- [s \in Session |->
    IF Depth(s) > 0 \/ BeginningOutermost(s) # {} THEN "active"
    ELSE IF \E i \in DOMAIN calls[s] : calls[s][i].kind = "sleep" THEN "yielded" ELSE "none"],
  marked <- [s \in Session |-> Depth(s) > 0 /\ mTransactionStack[s][1].markedSuccessful],
  failed <- nestedFailed,
  pending <- [s \in Session |->
    IF mConnection[s] = NoConn THEN {} ELSE native[mConnection[s]].pending]

\* Frames, use counts, callbacks and connections together implement flat transactions:
\* a transaction is committed as a whole, only if it was marked successful or yielded
\* and no nested transaction failed, and it never holds another session's writes.
TransactionsImplemented == T!Spec

\* "If any nested transaction is not marked successful, then the entire transaction ...
\* will be rolled back when the outermost transaction is ended" (class comment): what was
\* pending when a child had failed does not become durable.
FailedChildRollsBack ==
  [][\A s \in Session : nestedFailed[s] /\ mTransactionStack'[s] = <<>> =>
       \A i \in 1 .. MaxWrites : <<s, i>> \in durable' => <<s, i>> \in durable]_vars
=============================================================================
