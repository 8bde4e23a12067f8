-------------------------------- MODULE MCWal --------------------------------
(* Instances of Wal for TLC.                                                  *)
EXTENDS Wal

\* The connections that only read are interchangeable.
Readers == Permutations(Conn \ (Writers \cup Checkpointers))
==============================================================================
