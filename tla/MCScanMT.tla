------------------------------ MODULE MCScanMT ------------------------------
(***************************************************************************)
(* Model-checking instance of ScanMT: two workers, two manifests with two  *)
(* entries and one entry; the first entry is a delete file.                *)
(***************************************************************************)
EXTENDS ScanMT

MCCount == <<2, 1>>
MCDeletes == {<<1, 1>>}

=============================================================================
