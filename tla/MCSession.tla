------------------------------ MODULE MCSession ------------------------------
(* Instances of Session for TLC. *)
EXTENDS Session
Symmetric == Permutations(Session) \cup Permutations(Conn)
==============================================================================
