---------------------------- MODULE PoolInterface ----------------------------
(***************************************************************************)
(* What SQLiteConnectionPool promises to the sessions: a session acquires  *)
(* a connection that nobody else has, keeps it until it releases it, and   *)
(* never has two.  The session model uses this interface; the connection   *)
(* pool is shown to implement it.                                          *)
(***************************************************************************)
CONSTANTS Client, Conn, NoClient

VARIABLE owner   \* who has acquired each connection

Init == owner = [c \in Conn |-> NoClient]

Owns(s) == \E c \in Conn : owner[c] = s

\* acquireConnection returns c to s.
Acquire(s, c) == /\ owner[c] = NoClient
                 /\ ~Owns(s)
                 /\ owner' = [owner EXCEPT ![c] = s]

\* releaseConnection(c), or s drops c without releasing it.
Release(s, c) == /\ owner[c] = s
                 /\ owner' = [owner EXCEPT ![c] = NoClient]

Next == \E s \in Client, c \in Conn : Acquire(s, c) \/ Release(s, c)

Spec == Init /\ [][Next]_owner
==============================================================================
