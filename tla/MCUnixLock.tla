----------------------------- MODULE MCUnixLock -----------------------------
(* An instance of UnixLock for TLC: one connection in a process of its own,   *)
(* two that share a process.                                                  *)
EXTENDS UnixLock

CONSTANTS a1, b1, b2, p, q

OneAndTwo == [f \in File |-> IF f = a1 THEN p ELSE q]
=============================================================================
