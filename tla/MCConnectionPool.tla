-------------------------- MODULE MCConnectionPool --------------------------
(* Instances of ConnectionPool for TLC. *)
EXTENDS ConnectionPool

Config(flags, fk, size) == [openFlags |-> flags, foreignKeys |-> fk, cacheSize |-> size]
Request(wantPrimary, priority, sig) ==
  [wantPrimary |-> wantPrimary, priority |-> priority, signal |-> sig]

WalConfig == {Config({"WAL"}, FALSE, 1)}
NonWalConfig == {Config({}, FALSE, 1)}
\* New open flags, a new cache size and a WAL switch can each be reached from each other.
ManyConfigs == {Config({"WAL"}, FALSE, 1), Config({"WAL"}, FALSE, 2),
                Config({"WAL", "READWRITE"}, FALSE, 1), Config({}, TRUE, 1)}

PlainRequests == {Request(FALSE, 0, FALSE), Request(TRUE, 0, FALSE)}
PriorityRequests == PlainRequests \cup {Request(TRUE, 1, FALSE)}
CancelRequests == {Request(FALSE, 0, TRUE), Request(TRUE, 0, FALSE)}

Symmetric == Permutations(Thread)
=============================================================================
