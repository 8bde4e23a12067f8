------------------------------ MODULE FileLock ------------------------------
(* What the lock on a database file promises the pager: each connection holds *)
(* a set of tokens.  "S" lets it read, "R" announces that it will write, "P"  *)
(* keeps new readers out, "X" lets it change the file.  A level of the code   *)
(* is a set of tokens: SHARED is {S}, RESERVED {S,R}, PENDING {S,P} or        *)
(* {S,R,P}, EXCLUSIVE the tokens of PENDING and X.                            *)
EXTENDS FiniteSets

CONSTANTS
  File,   \* connections to one database file
  Home    \* File -> the process it belongs to

VARIABLE held   \* File -> the tokens it holds

Tokens == {"S", "R", "P", "X"}

HeldByOther(f, t) == \E g \in File \ {f} : t \in held[g]

Init == held = [f \in File |-> {}]

Gain(f, more) == held' = [held EXCEPT ![f] = @ \cup more]

\* No process starts to read while a writer is pending.  A process that reads
\* already is not held up: its further connections join the first.
Shared(f) ==
  /\ held[f] = {}
  /\ \A g \in File \ {f} : "P" \in held[g] =>
       /\ Home[g] # Home[f]
       /\ \E h \in File \ {f} : Home[h] = Home[f] /\ "S" \in held[h]
  /\ Gain(f, {"S"})

\* One connection at a time prepares to write.
Reserved(f) == held[f] = {"S"} /\ ~HeldByOther(f, "R") /\ Gain(f, {"R"})

\* One connection at a time waits for the readers to leave.
Pending(f) ==
  "S" \in held[f] /\ "P" \notin held[f] /\ ~HeldByOther(f, "P") /\ Gain(f, {"P"})

\* The file is changed while nobody else reads it.  The step from SHARED or
\* RESERVED to EXCLUSIVE passes through PENDING unseen.
Exclusive(f) ==
  /\ "S" \in held[f] /\ "X" \notin held[f]
  /\ ~HeldByOther(f, "S")
  /\ Gain(f, {"P", "X"})

\* Connections give up their locks; several at once when their process dies.
Release ==
  /\ \A f \in File : held'[f] \subseteq held[f] /\ held'[f] \in {{}, {"S"}, held[f]}
  /\ held' \in [File -> SUBSET Tokens]

Next ==
  \/ \E f \in File : Shared(f) \/ Reserved(f) \/ Pending(f) \/ Exclusive(f)
  \/ Release

Spec == Init /\ [][Next]_held
=============================================================================
