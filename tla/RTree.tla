-------------------------------- MODULE RTree --------------------------------
(* The R*-tree virtual table that holds the location history.  Its three      *)
(* backing tables (_node, _parent, _rowid) are the state; a statement is one  *)
(* action.  Within a statement the nodes in memory point to their parents, and *)
(* these pointers are kept apart from the _parent table: a later statement    *)
(* knows only what the tables say.                                            *)
EXTENDS Integers, Sequences, FiniteSets, FiniteSetsExt, SequencesExt, Functions, TLC

CONSTANTS
  Dims,       \* number of dimensions
  MaxCells,   \* cells that fit in a node: (iNodeSize-4)/nBytesPerCell
  FloatBits,  \* digits of a float's significand: 24
  DoubleBits, \* digits of a double's significand: 53
  Subnormal,  \* distance of the floats next to zero, in units of coordinates
  Largest,    \* FLT_MAX, in the same units
  Scripts,    \* sequences of INSERTs (of a box) and DELETEs (of a rowid)
  Boxes,      \* boxes that other statements insert
  Queries,    \* sets of constraints that are asked
  Windows,    \* boxes that are searched, next to those around the rows
  Rowids,     \* rowids that other statements name
  MaxOps      \* bound: statements in between those of the script

ASSUME RTreeAssumption ==
  /\ {Dims, FloatBits, DoubleBits, Subnormal, Largest} \subseteq Nat \ {0}
  /\ FloatBits < DoubleBits
  /\ \E k \in 0..DoubleBits : Subnormal = 2^k
  /\ MaxCells \in Nat /\ MaxCells >= 6
  /\ MaxOps \in Nat

VARIABLES
  t,     \* the backing tables, the depth and Rtree.iReinsertHeight
  rows,  \* rowid -> the box that the SQL statements gave it
  todo,  \* what is left of the script
  ops    \* other statements so far

vars == <<t, rows, todo, ops>>

MinCells == MaxCells \div 3

Root == 1
NoRowid == 0

-----------------------------------------------------------------------------
(* Cells.  A box has an interval <<low, high>> in each dimension.             *)

Cell(id, box) == [id |-> id, box |-> box]

Min2(x, y) == IF x < y THEN x ELSE y
Max2(x, y) == IF x > y THEN x ELSE y

\* Binary numbers.  A coordinate that a statement gives is an integer, which a
\* double holds exactly; what is computed on the way to a float is counted in
\* parts of 1/Scale, where RNDTOWARDS and RNDAWAY are 1 - 1/Scale and 1 + 1/Scale.
Scale      == 2^(FloatBits - 1)
RNDTOWARDS == Scale - 1
RNDAWAY    == Scale + 1

Abs(n) == IF n < 0 THEN -n ELSE n

\* The distance of two numbers that have so many digits, at n >= 0.
RECURSIVE Spacing(_, _)
Spacing(n, bits) == IF n < 2^bits THEN 1 ELSE 2 * Spacing(n \div 2, bits)

\* The nearest multiple of s, ties to the even one.
Nearest(n, s) ==
  LET low == n \div s
      off == 2 * (n % s)
  IN s * (IF off < s \/ (off = s /\ low % 2 = 0) THEN low ELSE low + 1)

\* The product as a double, and the cast of a double to a float.  Next to zero
\* the floats come no closer to each other, and beyond the largest is infinity.
Infinity  == 2 * Largest
Double(n) == Nearest(n, Spacing(Abs(n), DoubleBits))
Float(n)  ==
  LET f == Nearest(n, Max2(Spacing(Abs(n), FloatBits), Subnormal * Scale)) \div Scale
  IN CASE f > Largest  -> Infinity
       [] f < -Largest -> -Infinity
       [] OTHER        -> f

\* Mutant of rtreeValueDown: towards zero, whatever the sign.
ValueTowardsZero(d) ==
  LET f == Float(d * Scale)
  IN IF f > d THEN Float(Double(d * RNDTOWARDS)) ELSE f

rtreeValueDown(d) ==
  LET f == Float(d * Scale)
  IN IF f > d THEN Float(Double(d * (IF d < 0 THEN RNDAWAY ELSE RNDTOWARDS))) ELSE f

rtreeValueUp(d) ==
  LET f == Float(d * Scale)
  IN IF f < d THEN Float(Double(d * (IF d < 0 THEN RNDTOWARDS ELSE RNDAWAY))) ELSE f

Coordinates(boxes) == UNION {UNION {Range(box[d]) : d \in 1..Dims} : box \in boxes}

\* No statement gives a coordinate that is stored as an infinity: the areas and
\* distances of such boxes are not modelled.
ASSUME FiniteAssumption ==
  LET given == UNION {{s[i].box : i \in {j \in DOMAIN s : s[j].op = "INSERT"}} : s \in Scripts}
  IN \A x \in Coordinates(given \cup Boxes) :
       -Infinity < rtreeValueDown(x) /\ rtreeValueUp(x) < Infinity

\* What f gives for each dimension: multiplied, added, or as a sequence, which
\* Append builds one element at a time so that TLC computes each only once.
Product(f(_)) == LET p[d \in 0..Dims] == IF d = 0 THEN 1 ELSE p[d - 1] * f(d) IN p[Dims]
Total(f(_))   == LET p[d \in 0..Dims] == IF d = 0 THEN 0 ELSE p[d - 1] + f(d) IN p[Dims]
Each(f(_))    == LET p[d \in 0..Dims] == IF d = 0 THEN <<>> ELSE Append(p[d - 1], f(d)) IN p[Dims]

Stored(box) == Each(LAMBDA d : <<rtreeValueDown(box[d][1]), rtreeValueUp(box[d][2])>>)

cellUnion(a, b) == Each(LAMBDA d : <<Min2(a[d][1], b[d][1]), Max2(a[d][2], b[d][2])>>)

cellArea(b)      == Product(LAMBDA d : b[d][2] - b[d][1])
cellMargin(b)    == Total(LAMBDA d : b[d][2] - b[d][1])
cellGrowth(b, c) == cellArea(cellUnion(b, c)) - cellArea(b)

cellOverlap(a, b) ==
  LET x1(d) == Max2(a[d][1], b[d][1])
      x2(d) == Min2(a[d][2], b[d][2])
  IN IF \E d \in 1..Dims : x2(d) < x1(d) THEN 0 ELSE Product(LAMBDA d : x2(d) - x1(d))

BoxOf(cells) == FoldLeft(LAMBDA b, c : cellUnion(b, c.box), cells[1].box, cells)

\* Lexicographic order of pairs.
Before(p, q) == p[1] < q[1] \/ (p[1] = q[1] /\ p[2] < q[2])

\* The merge sort of SortByDistance and SortByDimension: of two equal elements
\* the one from the right half comes first.
RECURSIVE Merge(_, _)
Merge(l, r) ==
  IF l = <<>> THEN r
  ELSE IF r = <<>> THEN l
  ELSE IF Before(l[1].key, r[1].key) THEN <<l[1]>> \o Merge(Tail(l), r)
  ELSE <<r[1]>> \o Merge(l, Tail(r))

RECURSIVE MergeSort(_)
MergeSort(s) ==
  IF Len(s) <= 1 THEN s
  ELSE LET half == Len(s) \div 2
       IN Merge(MergeSort(SubSeq(s, 1, half)), MergeSort(SubSeq(s, half + 1, Len(s))))

Sorted(cells, key(_)) ==
  LET keyed  == [i \in DOMAIN cells |-> [key |-> key(cells[i]), cell |-> cells[i]]]
      sorted == MergeSort(keyed)
  IN [i \in DOMAIN sorted |-> sorted[i].cell]

SortByDimension(cells, d) == Sorted(cells, LAMBDA c : c.box[d])

\* Distances are scaled by 2 * Len(cells) to stay integers.  What is compared
\* with the centre is the extent of a cell, as in the code.
SortByDistance(cells) ==
  LET n         == 2 * Len(cells)
      centre(d) == FoldLeft(LAMBDA s, c : s + c.box[d][1] + c.box[d][2], 0, cells)
      dist(c)   == Total(LAMBDA d : (n * (c.box[d][2] - c.box[d][1]) - centre(d))
                                  * (n * (c.box[d][2] - c.box[d][1]) - centre(d)))
  IN Sorted(cells, LAMBDA c : <<dist(c), 0>>)

\* Of tuples <<measure, measure, index, ...>> the least: a tie goes to the first.
Least(S) ==
  CHOOSE x \in S : \A y \in S :
    Before(x, y) \/ (x[1] = y[1] /\ x[2] = y[2] /\ x[3] <= y[3])

\* How good it is to split after cell k into the boxes l and r: the smallest
\* overlap, then the smallest area; the margin rates the dimension.
Rated(l, r, k) ==
  <<cellOverlap(l, r), cellArea(l) + cellArea(r), k, cellMargin(l) + cellMargin(r)>>

Halves(cells, k) == [left |-> SubSeq(cells, 1, k), right |-> SubSeq(cells, k + 1, Len(cells))]

Splits(sorted) == {Rated(BoxOf(SubSeq(sorted, 1, k)), BoxOf(SubSeq(sorted, k + 1, Len(sorted))), k)
                   : k \in MinCells..(Len(sorted) - MinCells)}

\* The sum of the margins of all the splits, and the best of them.
Best(sorted, splits, d) ==
  <<FoldSet(LAMBDA e, sum : sum + e[4], 0, splits), 0, d, Halves(sorted, Least(splits)[3])>>

SplitAlong(sorted, d) == Best(sorted, Splits(sorted), d)

splitNodeStartree(cells) ==
  Least({SplitAlong(SortByDimension(cells, d), d) : d \in 1..Dims})[4]

-----------------------------------------------------------------------------
(* The tree.  s.up holds the parent pointers of the nodes in memory, s.del    *)
(* the list Rtree.pDeleted.                                                   *)

EmptyTree == [node |-> (Root :> <<>>), parent |-> <<>>, rowid |-> <<>>, depth |-> 0, rh |-> 0]
Loaded(x) == x @@ [up |-> <<>>, del |-> <<>>]
Tables(s) == [node |-> s.node, parent |-> s.parent, rowid |-> s.rowid,
              depth |-> s.depth, rh |-> s.rh]

Without(f, x) == Restrict(f, DOMAIN f \ {x})
With(f, x, y) == (x :> y) @@ f

nodeRowidIndex(s, n, id) == CHOOSE i \in DOMAIN s.node[n] : s.node[n][i].id = id
nodeParentIndex(s, n)    == nodeRowidIndex(s, s.up[n], n)
Overwrite(s, n, i, c)    == [s EXCEPT !.node[n][i] = c]
NewId(s)                 == Max(DOMAIN s.node) + 1

\* rowidWrite or parentWrite
SetMapping(s, id, n, h) == IF h = 0 THEN [s EXCEPT !.rowid = With(@, id, n)]
                           ELSE [s EXCEPT !.parent = With(@, id, n)]

\* A node in memory learns its new parent.
SetParent(s, id, n, h) == IF h > 0 /\ id \in DOMAIN s.up THEN [s EXCEPT !.up[id] = n] ELSE s

updateMapping(s, id, n, h) == SetMapping(SetParent(s, id, n, h), id, n, h)

\* The walk from n down k levels that ChooseLeaf makes.
RECURSIVE Descend(_, _, _, _)
Descend(s, n, box, k) ==
  IF k <= 0 THEN [s |-> s, n |-> n]
  ELSE LET cells == s.node[n]
           child == Least({<<cellGrowth(cells[i].box, box), cellArea(cells[i].box), i, cells[i].id>>
                           : i \in DOMAIN cells})[4]
       IN Descend(IF child \in DOMAIN s.up THEN s ELSE [s EXCEPT !.up = With(@, child, n)],
                  child, box, k - 1)

ChooseLeaf(s, box, h) == Descend(s, Root, box, s.depth - h)

RECURSIVE AdjustTree(_, _, _)
AdjustTree(s, n, box) ==
  IF n \notin DOMAIN s.up THEN s
  ELSE LET p == s.up[n]
           i == nodeParentIndex(s, n)
       IN AdjustTree(Overwrite(s, p, i, Cell(n, cellUnion(s.node[p][i].box, box))), p, box)

RECURSIVE fixBoundingBox(_, _)
fixBoundingBox(s, n) ==
  IF n \notin DOMAIN s.up THEN s
  ELSE fixBoundingBox(Overwrite(s, s.up[n], nodeParentIndex(s, n), Cell(n, BoxOf(s.node[n]))),
                      s.up[n])

RECURSIVE rtreeInsertCell(_, _, _, _), SplitNode(_, _, _, _), InsertAnew(_, _, _), Reinsert(_, _, _, _)

\* Mutant of MovedCells: the cell that made the node overflow is forgotten.
MovedOnly(left, right, cell) == <<>>

\* The cells of the old node whose mapping is rewritten: the new one, if it
\* stayed.
MovedCells(left, right, cell) ==
  IF \E i \in DOMAIN right : right[i].id = cell.id THEN <<>> ELSE <<cell>>

\* The cells of one half learn where they are.
Remap(s, cells, n, h) == FoldLeft(LAMBDA x, c : updateMapping(x, c.id, n, h), s, cells)

SplitRoot(s, halves, l, r, h) ==
  LET apart == [s EXCEPT !.node = (Root :> <<>>) @@ (r :> halves.right) @@ (l :> halves.left) @@ @,
                         !.depth = @ + 1,
                         !.up = (r :> Root) @@ (l :> Root) @@ @]
      one   == rtreeInsertCell(apart, Root, Cell(l, BoxOf(halves.left)), h + 1)
      two   == rtreeInsertCell(one, Root, Cell(r, BoxOf(halves.right)), h + 1)
  IN Remap(Remap(two, halves.right, r, h), halves.left, l, h)

SplitOther(s, n, cell, halves, r, h) ==
  LET p     == s.up[n]
      box   == BoxOf(halves.left)
      apart == [s EXCEPT !.node = (n :> halves.left) @@ (r :> halves.right) @@ @,
                         !.up = With(@, r, p)]
      one   == AdjustTree(Overwrite(apart, p, nodeParentIndex(s, n), Cell(n, box)), p, box)
      two   == rtreeInsertCell(one, p, Cell(r, BoxOf(halves.right)), h + 1)
  IN Remap(Remap(two, halves.right, r, h), MovedCells(halves.left, halves.right, cell), n, h)

SplitNode(s, n, cell, h) ==
  LET halves == splitNodeStartree(Append(s.node[n], cell))
  IN IF n = Root THEN SplitRoot(s, halves, NewId(s) + 1, NewId(s), h)
                 ELSE SplitOther(s, n, cell, halves, NewId(s), h)

InsertAnew(s, cell, h) ==
  LET leaf == ChooseLeaf(s, cell.box, h)
  IN rtreeInsertCell(leaf.s, leaf.n, cell, h)

\* Mutant of Shrunk: the ancestors keep the old boxes.
ShrunkUnseen(s, n) == s

Shrunk(s, n) == fixBoundingBox(s, n)

\* A third of the cells leave the full node and look for a better place.
Reinsert(s, n, cell, h) ==
  LET cells == SortByDistance(Append(s.node[n], cell))
      keep  == Len(cells) - (MinCells + 1)
      kept  == SubSeq(cells, 1, keep)
      left  == [s EXCEPT !.node[n] = kept]
      own   == IF \E i \in 1..keep : kept[i].id = cell.id
               THEN SetMapping(left, cell.id, n, h) ELSE left
  IN FoldLeft(LAMBDA x, c : InsertAnew(x, c, h), Shrunk(own, n),
              SubSeq(cells, keep + 1, Len(cells)))

rtreeInsertCell(s, n, cell, h) ==
  LET known == SetParent(s, cell.id, n, h)
  IN IF Len(s.node[n]) = MaxCells
     THEN IF h <= s.rh \/ n = Root
          THEN SplitNode(known, n, cell, h)
          ELSE Reinsert([known EXCEPT !.rh = h], n, cell, h)
     ELSE SetMapping(AdjustTree([known EXCEPT !.node[n] = Append(@, cell)], n, cell.box),
                     cell.id, n, h)

-----------------------------------------------------------------------------
(* Deletion.                                                                  *)

\* The parents of a leaf that was found by rowid come from the _parent table.
RECURSIVE fixLeafParent(_, _)
fixLeafParent(s, n) ==
  IF n = Root \/ n \in DOMAIN s.up THEN s
  ELSE fixLeafParent([s EXCEPT !.up = With(@, n, s.parent[n])], s.parent[n])

RECURSIVE deleteCell(_, _, _, _), removeNode(_, _, _)

\* The node leaves the tree; its cells wait in s.del to be inserted again.
removeNode(s, n, h) ==
  LET p    == s.up[n]
      i    == nodeParentIndex(s, n)
      gone == deleteCell([s EXCEPT !.up = Without(@, n)], p, i, h + 1)
  IN [gone EXCEPT !.node = Without(@, n), !.parent = Without(@, n),
                  !.del = <<[h |-> h, cells |-> gone.node[n]]>> \o @]

Underfull(cells) == Len(cells) < MinCells

deleteCell(s, n, i, h) ==
  LET found == fixLeafParent(s, n)
      less  == [found EXCEPT !.node[n] = RemoveAt(@, i)]
  IN IF n \notin DOMAIN less.up THEN less
     ELSE IF Underfull(less.node[n]) THEN removeNode(less, n, h)
     ELSE fixBoundingBox(less, n)

reinsertNodeContent(s, d) == FoldLeft(LAMBDA x, c : InsertAnew(x, c, d.h), s, d.cells)

\* Mutant of Collapse: the tree never becomes lower.
CollapseNever(s) == s

\* The root has a single child left: the tree loses a level.
Collapse(s) ==
  IF s.depth = 0 \/ Len(s.node[Root]) # 1 THEN s
  ELSE LET child == s.node[Root][1].id
           held  == [s EXCEPT !.up = IF child \in DOMAIN @ THEN @ ELSE With(@, child, Root)]
       IN [removeNode(held, child, s.depth - 1) EXCEPT !.depth = @ - 1]

RECURSIVE Condense(_)
Condense(s) ==
  IF s.del = <<>> THEN s
  ELSE Condense(reinsertNodeContent([s EXCEPT !.del = Tail(@)], Head(s.del)))

rtreeDeleteRowid(s, id) ==
  LET leaf    == s.rowid[id]
      deleted == deleteCell(s, leaf, nodeRowidIndex(s, leaf, id), 0)
  IN Condense(Collapse([deleted EXCEPT !.rowid = Without(@, id)]))

InsertRow(s, id, box) == InsertAnew([s EXCEPT !.rh = -1], Cell(id, Stored(box)), 0)

\* newRowid
NewRowid(x) == IF x.rowid = <<>> THEN 1 ELSE Max(DOMAIN x.rowid) + 1

-----------------------------------------------------------------------------
(* Queries: rtreeFilter and rtreeStepToLeaf.  A constraint compares the low   *)
(* (side 1) or high (side 2) coordinate of a dimension with a value.          *)

Constraint(op, dim, side, val) == [op |-> op, dim |-> dim, side |-> side, val |-> val]

rtreeLeafConstraint(c, box) ==
  LET x == box[c.dim][c.side]
  IN CASE c.op = "LE" -> x <= c.val
       [] c.op = "LT" -> x < c.val
       [] c.op = "GE" -> x >= c.val
       [] c.op = "GT" -> x > c.val
       [] c.op = "EQ" -> x = c.val

\* Mutant of rtreeNonleafConstraint: the coordinate of the constraint itself is
\* compared, not the bound that includes all the children.
NonleafLikeLeaf(c, box) == rtreeLeafConstraint(c, box)

\* Whether a node with this box may hold a row that satisfies the constraint.
rtreeNonleafConstraint(c, box) ==
  \/ c.op \in {"LE", "LT", "EQ"} /\ c.val >= box[c.dim][1]
  \/ c.op \in {"GE", "GT", "EQ"} /\ c.val <= box[c.dim][2]

RECURSIVE StepToLeaf(_, _, _, _)
StepToLeaf(x, n, level, q) ==
  LET hit(c) == \A k \in q : IF level = 1 THEN rtreeLeafConstraint(k, c.box)
                             ELSE rtreeNonleafConstraint(k, c.box)
      hits   == {i \in DOMAIN x.node[n] : hit(x.node[n][i])}
  IN IF level = 1 THEN {x.node[n][i].id : i \in hits}
     ELSE UNION {StepToLeaf(x, x.node[n][i].id, level - 1, q) : i \in hits}

rtreeFilter(x, q) == StepToLeaf(x, Root, x.depth + 1, q)

-----------------------------------------------------------------------------
(* The statements.                                                            *)

Init ==
  /\ todo \in Scripts
  /\ t = EmptyTree
  /\ rows = <<>>
  /\ ops = 0

Statement(s, r) == t' = Tables(s) /\ rows' = r

Ordered(box) == \A d \in 1..Dims : Stored(box)[d][1] <= Stored(box)[d][2]

\* xUpdate with a record: a row that is in the way of the new rowid is replaced,
\* the old row is deleted, the new one inserted.
Removed(x, id) == Tables(rtreeDeleteRowid(Loaded(x), id))

rtreeUpdate(x, old, id, box) ==
  LET inTheWay == IF id # old /\ id \in DOMAIN x.rowid THEN <<id>> ELSE <<>>
      gone     == inTheWay \o (IF old = NoRowid THEN <<>> ELSE <<old>>)
  IN InsertRow(Loaded(FoldLeft(Removed, x, gone)), id, box)

Insert(box) ==
  /\ Ordered(box)
  /\ Statement(rtreeUpdate(t, NoRowid, NewRowid(t), box), With(rows, NewRowid(t), box))

\* INSERT OR REPLACE
Replace(id, box) ==
  /\ Ordered(box)
  /\ Statement(rtreeUpdate(t, NoRowid, id, box), With(rows, id, box))

\* UPDATE OR REPLACE
Update(old, id, box) ==
  /\ Ordered(box)
  /\ old \in DOMAIN t.rowid
  /\ Statement(rtreeUpdate(t, old, id, box), With(Without(rows, old), id, box))

Delete(id) ==
  /\ id \in DOMAIN t.rowid
  /\ Statement(rtreeDeleteRowid(Loaded(t), id), Without(rows, id))

Scripted ==
  /\ todo # <<>>
  /\ \/ Head(todo).op = "INSERT" /\ Insert(Head(todo).box)
     \/ Head(todo).op = "DELETE" /\ Delete(Head(todo).id)
     \/ Head(todo).op = "DELETE" /\ Head(todo).id \notin DOMAIN t.rowid /\ UNCHANGED <<t, rows>>
  /\ todo' = Tail(todo)
  /\ UNCHANGED ops

Other ==
  /\ ops < MaxOps
  /\ ops' = ops + 1
  /\ \/ \E box \in Boxes : Insert(box)
     \/ \E id \in Rowids : Delete(id)
     \/ \E id \in Rowids, box \in Boxes : Replace(id, box)
     \/ \E old, id \in Rowids, box \in Boxes : Update(old, id, box)
  /\ UNCHANGED todo

Next == Scripted \/ Other

Spec == Init /\ [][Next]_vars

-----------------------------------------------------------------------------
(* Properties.                                                                *)

CellsOf(n)    == Range(t.node[n])
ChildrenOf(n) == {c.id : c \in CellsOf(n)}

\* The nodes at a height above the leaves, as the root reaches them.
RECURSIVE AtHeight(_)
AtHeight(h) == IF h >= t.depth THEN {Root} ELSE UNION {ChildrenOf(n) : n \in AtHeight(h + 1)}

Internal == UNION {AtHeight(h) : h \in 1..t.depth}

\* The tree is balanced and has no node that the root does not reach, none that
\* two cells claim, none that is too full or too empty.
Shape ==
  /\ DOMAIN t.node = UNION {AtHeight(h) : h \in 0..t.depth}
  /\ t.depth > 0 => Len(t.node[Root]) >= 2
  /\ \A n \in DOMAIN t.node : Len(t.node[n]) <= MaxCells /\ (n # Root => Len(t.node[n]) >= MinCells)
  /\ \A m, n \in DOMAIN t.node :
       (m \in Internal /\ n \in Internal /\ m # n) => ChildrenOf(m) \cap ChildrenOf(n) = {}

\* After every statement the _parent and _rowid tables lead to the node that
\* holds the cell: the next deletion relies on nothing else (findLeafNode,
\* fixLeafParent).
Mappings ==
  /\ DOMAIN t.parent = DOMAIN t.node \ {Root}
  /\ \A n \in DOMAIN t.parent : n \in ChildrenOf(t.parent[n]) /\ t.parent[n] \in Internal
  /\ DOMAIN t.rowid = DOMAIN rows
  /\ \A r \in DOMAIN rows :
       t.rowid[r] \in AtHeight(0) /\ Cell(r, Stored(rows[r])) \in CellsOf(t.rowid[r])

\* The box in a parent is exactly the box of the child's cells, whatever
\* combination of splits, reinsertions and removals led there.
BoundingBoxes == \A n \in Internal : \A c \in CellsOf(n) : c.box = BoxOf(t.node[c.id])

\* A query finds the rows that satisfy its constraints, all of them and no
\* others: pruning by bounding boxes never loses a row.
QueryExact ==
  LET cells == {Cell(r, Stored(rows[r])) : r \in DOMAIN rows}
  IN \A q \in Queries :
       rtreeFilter(t, q) = {e.id : e \in {c \in cells : \A k \in q : rtreeLeafConstraint(k, c.box)}}

\* What SQLiteRTree.range asks of a window: minX >= low AND maxX <= high.
range(w) == UNION {{Constraint("GE", d, 1, w[d][1]), Constraint("LE", d, 2, w[d][2])} : d \in 1..Dims}

Inside(box, w) == \A d \in 1..Dims : w[d][1] <= box[d][1] /\ box[d][2] <= w[d][2]

\* Zero, the floats and what has the size of a normal float: subnormal doubles
\* are left out, for which rtreeValueDown and rtreeValueUp may round the wrong way.
Normal(x) == Float(x * Scale) = x \/ Abs(x) >= Scale * Subnormal

\* How far rounding may move a coordinate: 2/Scale of it, or not at all.
Slack(x)     == IF Float(x * Scale) = x THEN 0 ELSE (2 * Abs(x)) \div Scale
Widened(box) == Each(LAMBDA d : <<box[d][1] - Slack(box[d][1]), box[d][2] + Slack(box[d][2])>>)

\* The windows in which a row is just found, and those that just cut it.
Near(box) ==
  LET w == Widened(box)
  IN {w} \cup {[w EXCEPT ![d][1] = box[d][1] + 1] : d \in 1..Dims}
         \cup {[w EXCEPT ![d][2] = box[d][2] - 1] : d \in 1..Dims}

\* A window (SQLiteRTree.range) is asked of the boxes as they were rounded, but it
\* answers for those that were inserted: it finds no row that sticks out of it,
\* not even by the least, and every row that keeps its rounding's distance from
\* the edges, which is none at all for a row of floats.
WindowExact ==
  LET normal == {r \in DOMAIN rows : \A x \in Coordinates({rows[r]}) : Normal(x)}
      wide   == {Cell(r, Widened(rows[r])) : r \in normal}
  IN \A w \in Windows \cup UNION {Near(rows[r]) : r \in DOMAIN rows} :
       LET found == rtreeFilter(t, range(w))
       IN /\ \A r \in found \cap normal : Inside(rows[r], w)
          /\ \A c \in wide : Inside(c.box, w) => c.id \in found
==============================================================================
