------------------------------- MODULE MCRTree -------------------------------
(* Instances of RTree for TLC.                                                *)
EXTENDS RTree

CONSTANT Size   \* rows that the script inserts and deletes again

\* A box of a track that is scattered around zero.
Track(i) == LET x == 4 * ((i * 29) % 64) - 128 + (i % 4)
                y == 4 * ((i * 43) % 50) - 100 + (i % 3)
            IN <<<<x, x + 3 * (i % 7)>>, <<y, y + 5 * (i % 5)>>>>

\* The rows are deleted in order, or from both ends of the track.
GrowAndShrink(order(_)) ==
  [i \in 1..(2 * Size) |-> IF i <= Size THEN [op |-> "INSERT", box |-> Track(i)]
                          ELSE [op |-> "DELETE", id |-> order(i - Size)]]
TwoScripts == {GrowAndShrink(LAMBDA i : i),
               GrowAndShrink(LAMBDA i : IF i % 2 = 0 THEN i \div 2 ELSE Size - (i \div 2))}

\* A box that rounding moves, flat in one dimension and meeting many others.
SomeBoxes == {<<<<-45, -45>>, <<-67, 77>>>>}

SomeQueries ==
  {{Constraint(op, d, side, 20)} : op \in {"LE", "LT", "GE", "GT", "EQ"}, d \in 1..2, side \in 1..2}
  \cup {{Constraint("GE", 1, 1, -66), Constraint("LE", 1, 2, 36), Constraint("GE", 2, 1, -40),
         Constraint("LE", 2, 2, 90)}}

SomeWindows == {<<<<-67, 37>>, <<-39, 90>>>>}
==============================================================================
