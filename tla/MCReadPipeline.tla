--------------------------- MODULE MCReadPipeline ---------------------------
(***************************************************************************)
(* ReadPipeline with two data files: one of three row groups, split into   *)
(* two entries of the plan, and one of a single row group.                 *)
(***************************************************************************)
EXTENDS ReadPipeline

MCMaxInt32 == 12
MCMaxInt64 == 30
MCWord64 == 64

Seg(o, l) == [offset |-> o, length |-> l]
(* Sorted lists of at most two segments.                                   *)
AllSegments == {Seg(o, l) : o \in {0, 1, 3, 4}, l \in 0 .. 3}
Segmentations ==
  {<<a>> : a \in AllSegments} \cup {<<a, b>> : a, b \in {s \in AllSegments : s.offset # 4 \/ s.length < 2}}
SortedSegmentations == {s \in Segmentations : ValidateSegments(s)}

Names == <<<<"x">>, <<"b">>, <<"c">>, <<"d">>, GeneratedName(5, 0)>>
Schema == [id \in {1, 2, 3, 4, 6} |-> IF id = 6 THEN Names[5] ELSE Names[id]]
Mapping == <<[id |-> 2, names |-> <<"b", "bb">>], [id |-> None, names |-> <<"z">>]>>

Column(id, name, chunks) == [id |-> id, name |-> name, chunks |-> chunks]
Groups1 == <<[offset |-> 1, rows |-> 2], [offset |-> 4, rows |-> 1], [offset |-> 6, rows |-> 3]>>
Chunks(inner, c) == <<{}, {}, IF c \in inner THEN {1} ELSE {}>>
(* A chunk of the columns inner ends inside of the last row group; twice:  *)
(* two columns claim field 2.                                              *)
File1(inner, twice, matching, skip) ==
  [groups |-> Groups1,
   columns |-> <<Column(1, "a", Chunks(inner, 1)), Column(-1, "bb", Chunks(inner, 2)),
                 Column(IF twice THEN 2 ELSE 3, "c", Chunks(inner, 3)), Column(-1, "z", Chunks(inner, 4))>>,
   matching |-> matching,
   skippable |-> IF skip THEN {g \in 1 .. 3 : \A r \in matching :
                                 ~(RowsBefore([groups |-> Groups1], g) <= r
                                   /\ r < RowsBefore([groups |-> Groups1], g + 1))}
                 ELSE {}]
File2 == [groups |-> <<[offset |-> 1, rows |-> 2]>>, columns |-> <<Column(3, "c", <<{}>>), Column(5, "e", <<{}>>)>>,
          matching |-> {0, 1}, skippable |-> {}]

Blobs(rows) ==
  <<[data |-> GetBlob({0}), properties |-> DeletionVectorProperties(2, {0}), fields |-> <<1>>,
     type |-> "deletion-vector-v1"],
    [data |-> GetBlob(rows), properties |-> DeletionVectorProperties(1, rows), fields |-> <<1>>,
     type |-> "deletion-vector-v1"]>>
Whole(rows) == [pieces |-> PuffinBuild(Blobs(rows), 7, 3), blobs |-> Blobs(rows), intact |-> TRUE]
(* Damaged files: cut short, a bit of the bitmap lost, a compressed or     *)
(* foreign blob, a compressed footer.                                      *)
Damages == {"cut", "bit", "type", "codec", "flags", "count"}
Damaged(rows, how) ==
  LET whole == Whole(rows).pieces
      blobs == CASE how = "bit" -> [Blobs(rows) EXCEPT ![2].data.rows = {}]
                 [] how = "type" -> [Blobs(rows) EXCEPT ![2].type = "theta-sketch"]
                 [] how = "codec" -> [Blobs(rows) EXCEPT ![2].properties =
                       [referenced_data_file |-> 1, cardinality |-> Decimal(Cardinality(rows)),
                        compression_codec |-> "lz4"]]
                 [] how = "count" -> [Blobs(rows) EXCEPT ![2].properties = DeletionVectorProperties(1, {})]
                 [] OTHER -> Blobs(rows)
  IN [pieces |-> CASE how = "cut" -> SubSeq(whole, 1, Len(whole) - 1)
                   [] how = "flags" -> [whole EXCEPT ![Len(whole) - 1].value = 1]
                   [] OTHER -> PuffinBuild(blobs, 7, 3),
      blobs |-> blobs, intact |-> FALSE]

DvInfo(rows, i) == [path |-> 1, offset |-> PuffinOffset(Blobs(rows), i), length |-> Blobs(rows)[i].data.size,
                    meaning |-> IF i = 1 THEN {0} ELSE rows]
World(file, dv, puffin, s, t, filter) ==
  [files |-> <<file, File2>>, puffin |-> <<puffin>>, mapping |-> Mapping, schema |-> Schema, defaults |-> {4},
   retrieve |-> {1, 2, 4}, filter |-> filter, eqdel |-> <<{5}, {3}>>,
   plan |-> <<<<<<[path |-> 2, parts |-> <<Seg(0, 0)>>, dv |-> IF dv = None THEN None ELSE DvInfo(dv, 1)]>>,
                <<[path |-> 1, parts |-> t, dv |-> IF dv = None THEN None ELSE DvInfo(dv, 2)],
                  [path |-> 1, parts |-> s, dv |-> IF dv = None THEN None ELSE DvInfo(dv, 2)]>>>>>>]

Others == {<<>>, <<Seg(0, 1), Seg(2, 1)>>, <<Seg(1, 2)>>, <<Seg(0, 3), Seg(4, 0)>>, <<Seg(2, 0)>>}
Splits == {<<<<Seg(4, 4)>>, <<Seg(0, 3)>>>>, <<<<Seg(4, 0)>>, <<Seg(0, 4)>>>>, <<<<Seg(0, 0)>>, <<>>>>,
           <<<<Seg(0, 2), Seg(5, 3)>>, <<Seg(2, 3)>>>>}
Dvs == {None, {}, {1}, {0, 2, 5}}
WholeOf(dv) == Whole(IF dv = None THEN {} ELSE dv)

Rows == {World(File1(u, FALSE, m, k), dv, WholeOf(dv), s[1], s[2], {3}) :
           u \in {{}, {3}, 1 .. 4}, k \in BOOLEAN, m \in {{}} \cup {1 .. 4, 0 .. 5, {0, 5}, {2}, {3}, {1, 4}, {0, 2, 3}}, dv \in Dvs, s \in Splits}
NoFilter == {World(File1(u, FALSE, 0 .. 5, FALSE), dv, WholeOf(dv), s[1], s[2], {}) :
               u \in {{}, {3}, 1 .. 4}, dv \in Dvs, s \in Splits}
Cuts == {World(File1({}, FALSE, 0 .. 5, FALSE), None, Whole({}), s, t, {}) : s \in SortedSegmentations, t \in Others}
Broken == {World(File1({}, FALSE, 0 .. 5, FALSE), {2}, Damaged({2}, h), s[1], s[2], {3}) :
             h \in Damages, s \in Splits}
          \cup {World(File1({}, TRUE, 0 .. 5, FALSE), None, Whole({}), s[1], s[2], {3}) : s \in Splits}
          \cup {[World(File1({}, FALSE, 0 .. 5, FALSE), None, Whole({}), <<>>, <<Seg(0, 0)>>, {3}) EXCEPT !.mapping = m] :
                  m \in {None, Append(Mapping, [id |-> 3, names |-> <<"b">>])}}
MCWorlds == Rows \cup NoFilter \cup Cuts \cup Broken
=============================================================================
