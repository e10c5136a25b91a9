----------------------------- MODULE MetadataTree ----------------------------
(***************************************************************************)
(* All files of a table, read from a directory (tools/metadata_tree.cpp),  *)
(* and written to another one with their locations changed                 *)
(* (tools/fix_location.cpp).                                               *)
(*                                                                         *)
(* A path is a directory and a file name; a file is found by its name,     *)
(* beside the metadata file.  files maps paths to [complete, content].     *)
(***************************************************************************)
EXTENDS Manifest

Path(dir, name) == [dir |-> dir, name |-> name]
Exists(files, path) == path \in DOMAIN files

-----------------------------------------------------------------------------
(* MetadataFile.                                                           *)
ReadMetadataFile(files, path) ==
  IF ~Exists(files, path) \/ ~files[path].complete THEN Failed
  ELSE IF ~IsObject(files[path].content) THEN Failed ELSE ReadTableMetadataV2(files[path].content)

(* The log keeps its entries when none is about the snapshot.              *)
RemoveOtherSnapshots(m, snapshot_id, switch_main) ==
  LET snap == FirstWith(m.snapshots, LAMBDA s : s.snapshot_id = snapshot_id)
      schema == FirstWith(m.schemas, LAMBDA s : s.schema_id = snap.schema_id)
      log == FirstWith(m.snapshot_log, LAMBDA e : e.snapshot_id = snapshot_id)
      kept == Restrict(m.refs, {n \in DOMAIN m.refs : m.refs[n].snapshot_id = snapshot_id})
      main == [main |-> [snapshot_id |-> snapshot_id, type |-> "branch", min_snapshots_to_keep |-> None,
                         max_snapshot_age_ms |-> None, max_ref_age_ms |-> None]]
  IN IF snap = None THEN Failed
     ELSE IF snap.schema_id = None THEN Failed
     ELSE IF schema = None THEN Failed
     ELSE [m EXCEPT !.current_snapshot_id = snapshot_id, !.snapshots = <<snap>>, !.current_schema_id = snap.schema_id,
                    !.schemas = <<schema>>, !.snapshot_log = IF log = None THEN @ ELSE <<log>>,
                    !.refs = IF switch_main THEN kept @@ main ELSE kept]

-----------------------------------------------------------------------------
(* Reading the tree: the lists of the snapshots and their manifests.       *)
ListPath(dir, snap) == Path(dir, snap.manifest_list.name)
ListIn(files, path) == ReadManifestList(files[path].content)
(* The manifests AddSnapshot comes to: up to the first that is missing.    *)
Reached(files, dir, list) ==
  {list[k].path.name : k \in {k \in DOMAIN list : \A j \in 1 .. k : Exists(files, Path(dir, list[j].path.name))}}
AllThere(files, dir, list) == \A k \in DOMAIN list : Exists(files, Path(dir, list[k].path.name))

(* Whether AddSnapshot adds the i-th snapshot; a list read before is not   *)
(* looked into again.                                                      *)
AddSnapshot(files, dir, snaps, i) ==
  LET path == ListPath(dir, snaps[i])
  IN /\ Exists(files, path)
     /\ \/ \E j \in 1 .. i - 1 : snaps[j].manifest_list.name = path.name
        \/ AllThere(files, dir, ListIn(files, path))

ReadManifestFile(files, path) ==
  IF files[path].complete THEN ReadManifestEntries(files[path].content, <<>>, AllExtracted, FALSE) ELSE Failed

TreeWith(manifests, lists, added, metadata, ignore_missing) ==
  IF AllOrFailed(manifests) = Failed \/ (~ignore_missing /\ added # DOMAIN metadata.snapshots) THEN Failed
  ELSE [metadata |-> [metadata EXCEPT !.snapshots = [k \in 1 .. Cardinality(added) |->
                        @[CHOOSE i \in added : Cardinality({j \in added : j <= i}) = k]]],
        lists |-> lists, manifests |-> manifests]
Tree(files, dir, metadata, ignore_missing) ==
  LET snaps == metadata.snapshots
      lists == {snaps[i].manifest_list.name : i \in {j \in DOMAIN snaps : Exists(files, ListPath(dir, snaps[j]))}}
      names == UNION {Reached(files, dir, ListIn(files, Path(dir, n))) : n \in lists}
  IN IF \E n \in lists : ~files[Path(dir, n)].complete THEN Failed
     ELSE TreeWith([n \in names |-> ReadManifestFile(files, Path(dir, n))],
                   [n \in lists |-> ListIn(files, Path(dir, n))],
                   {i \in DOMAIN snaps : AddSnapshot(files, dir, snaps, i)}, metadata, ignore_missing)

TreeIfRead(files, dir, metadata, ignore_missing) ==
  IF metadata = Failed THEN Failed ELSE Tree(files, dir, metadata, ignore_missing)
MetadataTree(files, path, ignore_missing) ==
  TreeIfRead(files, path.dir, ReadMetadataFile(files, path), ignore_missing)
OneSnapshot(metadata, snapshot_id) ==
  IF metadata = Failed THEN Failed ELSE RemoveOtherSnapshots(metadata, snapshot_id, TRUE)
MetadataTreeOfSnapshot(files, path, snapshot_id) ==
  TreeIfRead(files, path.dir, OneSnapshot(ReadMetadataFile(files, path), snapshot_id), FALSE)
OneRef(metadata, ref) ==
  IF metadata = Failed THEN Failed ELSE IF ref \notin DOMAIN metadata.refs THEN Failed
  ELSE OneSnapshot(metadata, metadata.refs[ref].snapshot_id)
MetadataTreeOfRef(files, path, ref) ==
  TreeIfRead(files, path.dir, OneRef(ReadMetadataFile(files, path), ref), FALSE)

(* The trees of the earlier metadata files: one for each time in the log.  *)
MetadataLog(m) ==
  LET times == {m.metadata_log[i].timestamp_ms : i \in DOMAIN m.metadata_log}
  IN [t \in times |-> FirstWith(m.metadata_log, LAMBDA e : e.timestamp_ms = t).metadata_file]
LoadTree(files, dir, m) ==
  LET log == MetadataLog(m)
      Earlier(t) == [name |-> log[t].name, tree |-> MetadataTree(files, Path(dir, log[t].name), FALSE)]
  IN Mapped(Earlier, SetToSortSeq(DOMAIN log, <))

-----------------------------------------------------------------------------
(* FixLocation replaces what comes before the name.                        *)
FixString(path, fix) == IF path.dir = fix.from THEN [path EXCEPT !.dir = fix.to] ELSE path
FixLocation(tree, fix) ==
  LET FixSnapshot(s) == [s EXCEPT !.manifest_list = FixString(@, fix)]
      FixLog(e) == [e EXCEPT !.metadata_file = FixString(@, fix)]
      FixManifest(f) == [f EXCEPT !.path = FixString(@, fix)]
      FixEntry(e) == [e EXCEPT !.data_file.file_path = FixString(@, fix)]
  IN [metadata |-> [tree.metadata EXCEPT !.location = FixString(@, fix), !.snapshots = Mapped(FixSnapshot, @),
                                         !.metadata_log = Mapped(FixLog, @)],
      lists |-> [n \in DOMAIN tree.lists |-> Mapped(FixManifest, tree.lists[n])],
      manifests |-> [n \in DOMAIN tree.manifests |->
                       [tree.manifests[n] EXCEPT !.entries = Mapped(FixEntry, @)]]]

Complete(content) == [complete |-> TRUE, content |-> content]

(* What WriteFiles writes, in its order: the metadata file, the lists, the *)
(* manifests; the lists and the manifests among each other in the order of *)
(* a hash table.                                                           *)
File(path, content) == [path |-> path, content |-> content]
WriteFiles(tree, dir, name) ==
  LET List(n) == File(Path(dir, n), WriteManifestList(tree.lists[n]))
      Manifest(n) == File(Path(dir, n), WriteManifestEntries(tree.manifests[n], <<>>))
  IN <<File(Path(dir, name), WriteTableMetadataV2(tree.metadata))>>
     \o Mapped(List, SetToSeq(DOMAIN tree.lists)) \o Mapped(Manifest, SetToSeq(DOMAIN tree.manifests))

(* fix_location reads the tree it is given and all earlier ones, and       *)
(* writes the earlier ones first.                                          *)
AllRead(trees) == IF \E i \in DOMAIN trees : trees[i].tree = Failed THEN Failed ELSE trees
TreesWith(files, tree, path) ==
  IF tree = Failed THEN Failed
  ELSE AllRead(Append(LoadTree(files, path.dir, tree.metadata), [name |-> path.name, tree |-> tree]))
TreesToFix(files, path) == TreesWith(files, MetadataTree(files, path, FALSE), path)
FixAll(trees, fix, out_dir) ==
  FlattenSeq([i \in DOMAIN trees |-> WriteFiles(FixLocation(trees[i].tree, fix), out_dir, trees[i].name)])
=============================================================================
