------------------------- MODULE MCPositionalDelete -------------------------
(***************************************************************************)
(* Two delete files of partition 1 (none of partition 2), data files with  *)
(* paths 1 and 2, read in batches of two rows; the delete files also name  *)
(* paths 0 and 3, which are not read.                                      *)
(***************************************************************************)
EXTENDS PositionalDelete, TLC

CONSTANTS f1, f2

MCFile == {f1, f2}

Data(p, l, path, pos) == [partition |-> p, layer |-> l, path |-> path, pos |-> pos, num |-> 2,
                         selected |-> IF pos = 2 THEN {1} ELSE {0, 1}]
MCBatch == {Data(1, 1, 1, 0), Data(1, 1, 1, 2), Data(1, 2, 2, 0), Data(2, 1, 1, 0)}

Paths(rs) == {rs[i][1] : i \in DOMAIN rs}
Poss(rs) == {rs[i][2] : i \in DOMAIN rs}
Least(S) == CHOOSE x \in S : \A y \in S : x <= y
Most(S) == CHOOSE x \in S : \A y \in S : y <= x

(* A row group with no statistics, with those of the path, with both.      *)
Cut(rs, stats) ==
  [rows |-> rs,
   path |-> IF stats = "none" \/ rs = <<>> THEN None ELSE <<Least(Paths(rs)), Most(Paths(rs))>>,
   pos  |-> IF stats # "full" \/ rs = <<>> THEN None ELSE <<Least(Poss(rs)), Most(Poss(rs))>>]

(* Sorted records cut into row groups.                                     *)
Cuts(a, b) ==
  {<<Cut(a, "full"), Cut(b, "full")>>, <<Cut(a, "none"), Cut(b, "full")>>,
   <<Cut(a, "path"), Cut(b, "none")>>, <<Cut(a \o b, "full")>>, <<Cut(a \o b, "path")>>}

Shapes1 ==
  Cuts(<<<<0, 1>>, <<1, 1>>>>, <<<<1, 2>>, <<2, 0>>>>)
  \cup Cuts(<<<<1, 0>>>>, <<<<1, 1>>, <<1, 1>>, <<1, 3>>>>)
  \cup Cuts(<<<<1, 1>>, <<1, 2>>>>, <<<<2, 1>>, <<3, 0>>>>)
Shapes2 ==
  {<<>>} \cup Cuts(<<>>, <<<<1, 1>>, <<2, 0>>>>) \cup Cuts(<<<<0, 0>>, <<1, 2>>>>, <<<<1, 3>>>>)

MCContents ==
  {(f1 :> [partition |-> 1, layer |-> l, groups |-> s]) @@
   (f2 :> [partition |-> 1, layer |-> 3 - l, groups |-> t]) : l \in {1, 2}, s \in Shapes1, t \in Shapes2}

=============================================================================
