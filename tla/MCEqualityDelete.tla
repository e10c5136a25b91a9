-------------------------- MODULE MCEqualityDelete --------------------------
(***************************************************************************)
(* Three delete files: on column 1, on columns 1 and 2, and on one of      *)
(* several sets of columns, some of them of another type, or missing.      *)
(* Partition 2 has only a delete of column 3, a string, which one of its   *)
(* data files does not have.                                               *)
(***************************************************************************)
EXTENDS EqualityDelete, TLC

CONSTANTS f1, f2, f3

MCFile == {f1, f2, f3}

V(n) == [null |-> FALSE, bits |-> n]
N(n) == [null |-> TRUE, bits |-> n]

MCConfigs == {[use_specialized |-> s, max_rows |-> m, retrieved |-> r] :
                s \in BOOLEAN, m \in {3, 5}, r \in {{1, 2, 3, 4}, {2, 3, 4}}}

(* The columns of the data: INT32, INT64, STRING, TIMESTAMP.               *)
Data(p, l, rows) ==
  [partition |-> p, layer |-> l, columns |-> DOMAIN rows[1], rows |-> rows]
MCBatch ==
  {Data(1, 1, <<<<V(1), V(1), V(1), V(1)>>, <<N(0), V(1), V(1), V(1)>>, <<V(2), V(1), V(2), V(1)>>>>),
   Data(1, 2, <<<<V(1), V(1), V(1), V(1)>>, <<N(1), N(0), N(0), N(0)>>, <<V(2), V(2), N(1), V(1)>>>>),
   Data(2, 1, <<<<V(1), V(1), V(1)>>, <<V(1), V(1), N(1)>>>>),
   Data(2, 1, <<<<V(1), V(1)>>>>)}

Del(p, l, fields, types, rows) ==
  [partition |-> p, layer |-> l, fields |-> fields, types |-> types, rows |-> rows]

One(l, t, rows) == Del(1, l, {1}, (1 :> t), [i \in DOMAIN rows |-> (1 :> rows[i])])
Two(l, t, rows) == Del(1, l, {1, 2}, (1 :> t @@ 2 :> "INT64"), rows)
Text(p, l, rows) == Del(p, l, {3}, (3 :> "STRING"), [i \in DOMAIN rows |-> (3 :> rows[i])])
(* 32 + 64 + 64 bits do not fit a specialized set.                         *)
Wide(l, row) == Del(1, l, {1, 2, 4}, (1 :> "INT32" @@ 2 :> "INT64" @@ 4 :> "TIMESTAMP"), <<row>>)

Ones == {One(l, "INT32", rows) : l \in {1, 2}, rows \in {<<V(1)>>, <<V(1), N(1)>>, <<>>}}
Twos == {Two(l, "INT32", rows) :
           l \in {1, 2}, rows \in {<<<<V(2), V(1)>>>>, <<<<N(0), V(1)>>, <<N(0), N(0)>>>>,
                                  <<<<V(1), V(1)>>, <<V(2), V(2)>>>>}}
(* The bits of another type (11, 12) differ from those of the data.        *)
Others ==
  {One(2, "INT32", <<V(2), V(1)>>), One(2, "INT64", <<V(12)>>), One(1, "INT64", <<>>),
   Text(1, 1, <<V(2), N(0)>>), Text(2, 1, <<V(1), N(0)>>), Text(2, 0, <<V(1)>>),
   Two(1, "STRING", <<<<V(11), V(1)>>>>),
   Wide(2, (1 :> N(0) @@ 2 :> N(1) @@ 4 :> N(1))), Wide(1, (1 :> V(2) @@ 2 :> V(1) @@ 4 :> V(1))),
   Del(1, 2, {1, 3}, (1 :> "INT32"), <<>>)}

MCContents == {f1 :> a @@ f2 :> b @@ f3 :> c : a \in Ones, b \in Twos, c \in Others}

=============================================================================
