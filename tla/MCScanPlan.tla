----------------------------- MODULE MCScanPlan -----------------------------
(***************************************************************************)
(* Tables for ScanPlan: two data files (paths 2 and 4), then two entries   *)
(* that are delete files of any kind or entries the planner skips or       *)
(* rejects.  Path 3 has no data file: deletes that name it are dangling.   *)
(***************************************************************************)
EXTENDS ScanPlan

CONSTANTS U, P

MCPartition == {U, P}

Base(content, k, n) ==
  [status |-> "kAdded", content |-> content, puffin |-> FALSE, partition |-> k,
   specs |-> 1, sequence_number |-> n, manifest_sequence_number |-> 2, path |-> 0,
   bounds |-> None, referenced_data_file |-> None, refs |-> {}]

DataFiles(p) == {[Base("kData", k, n) EXCEPT !.path = p] : k \in MCPartition, n \in {1, 3}}

(* refs, bounds and referenced_data_file of position delete files.         *)
Contents ==
  {<<{2}, b, r>> : b \in {None, <<2, 2>>, <<2, 3>>, <<1, 4>>}, r \in {None, 2}}
  \cup {<<{4}, b, r>> : b \in {<<4, 4>>, <<3, 5>>}, r \in {None, 4}}
  \cup {<<{3}, b, r>> : b \in {<<3, 3>>}, r \in {None, 3}}
  \cup {<<{2, 4}, b, None>> : b \in {None, <<2, 4>>}}

PosDeletes(p, seqs) ==
  {[Base("kPositionDeletes", k, n) EXCEPT
      !.path = p, !.refs = c[1], !.bounds = c[2], !.referenced_data_file = c[3]] :
     k \in MCPartition, n \in seqs, c \in Contents}

EqDeletes(seqs) == {Base("kEqualityDeletes", k, n) : k \in MCPartition, n \in seqs}

DVs(seqs) ==
  {[Base("kPositionDeletes", k, n) EXCEPT
     !.puffin = TRUE, !.refs = {2}, !.referenced_data_file = 2] :
     k \in MCPartition, n \in seqs}

(* Skipped and rejected entries, an inherited sequence number, a second    *)
(* entry for data file 2.                                                  *)
Oddities ==
  {[Base("kData", P, 1) EXCEPT !.path = 2],
   [Base("kData", P, None) EXCEPT !.path = 3],
   [Base("kData", P, 2) EXCEPT !.path = 3, !.status = "kDeleted"],
   [Base("kData", P, None) EXCEPT !.path = 3, !.status = "kExisting"],
   [Base("kData", P, 2) EXCEPT !.path = 3, !.specs = 0],
   [Base("kData", P, 2) EXCEPT !.path = 3, !.specs = 2],
   [Base("kPositionDeletes", P, 2) EXCEPT !.puffin = TRUE]}

Rest(p, seqs) == PosDeletes(p, seqs) \cup EqDeletes(seqs) \cup DVs(seqs)

MCInput ==
  <<DataFiles(2), DataFiles(4) \cup Oddities,
    Rest(10, 1..3) \cup Oddities, Rest(11, {2}) \cup PosDeletes(10, {3})>>

=============================================================================
