------------------------------- MODULE Puffin -------------------------------
(***************************************************************************)
(* Puffin files (iceberg/puffin.cpp, iceberg/puffin.h) and the deletion    *)
(* vectors they hold (iceberg/deletion_vector.cpp).                        *)
(*                                                                         *)
(* A file is a sequence of pieces, each with its size in bytes; a read of  *)
(* a range that does not end on the borders of pieces yields a torn piece. *)
(* The checksum of a blob is an injective function of what it covers.      *)
(***************************************************************************)
EXTENDS Json, SequencesExt

Failed == [error |-> TRUE]         \* a status other than OK, or an exception
Ok(v) == [error |-> FALSE, value |-> v]

Magic == [kind |-> "magic", size |-> 4]                 \* kPuffinMagicBytes
Torn(n) == [kind |-> "torn", size |-> n]
Word(kind, n) == [kind |-> kind, size |-> 4, value |-> n]

(* Where the pieces of a file end.                                         *)
Ends(file) ==
  LET end[i \in 0 .. Len(file)] == IF i = 0 THEN 0 ELSE end[i - 1] + file[i].size IN end
Size(file) == Ends(file)[Len(file)]

(* RandomAccessFile::ReadAt and std::string::substr.                       *)
ReadAt(file, offset, length) ==
  LET ends == Ends(file)
      first == {i \in 0 .. Len(file) : ends[i] = offset}
      last == {i \in 0 .. Len(file) : ends[i] = offset + length}
  IN IF first = {} \/ last = {} THEN <<Torn(length)>> ELSE SubSeq(file, Max(first) + 1, Max(last))

-----------------------------------------------------------------------------
(* The footer as a document.                                               *)
SerializeProperties(props) == JObject([p \in DOMAIN props |-> JString(props[p])])
SerializeBlobMetadata(blob) ==
  JObject([fields |-> JArray([i \in DOMAIN blob.fields |-> JNumber(blob.fields[i])]),
           type |-> JString(blob.type),
           compression_codec |-> IF blob.compression_codec = None THEN JNull
                                 ELSE JString(blob.compression_codec),
           length |-> JNumber(blob.length), offset |-> JNumber(blob.offset),
           properties |-> SerializeProperties(blob.properties),
           sequence_number |-> JNumber(blob.sequence_number),
           snapshot_id |-> JNumber(blob.snapshot_id)])
CreateFooter(footer) ==
  JObject([blobs |-> JArray([i \in DOMAIN footer.blobs |-> SerializeBlobMetadata(footer.blobs[i])]),
           properties |-> SerializeProperties(footer.properties)])

(* Members that are not strings are passed over.                           *)
DeserializeProperties(doc) ==
  LET strings == {p \in DOMAIN doc.value : IsString(doc.value[p])}
  IN [p \in strings |-> doc.value[p].value]
BlobMetadataReadable(doc) ==
  /\ IsObject(doc)
  /\ {"type", "fields", "snapshot_id", "sequence_number", "offset", "length", "properties"}
       \subseteq DOMAIN doc.value
  /\ IsString(doc.value.type) /\ IsObject(doc.value.properties)
  /\ IsArray(doc.value.fields) /\ \A i \in DOMAIN doc.value.fields.value : IsInt(doc.value.fields.value[i])
  /\ \A n \in {"snapshot_id", "sequence_number", "offset", "length"} : IsInt64(doc.value[n])
  /\ HasMember(doc, "compression_codec") =>
       IsNull(doc.value.compression_codec) \/ IsString(doc.value.compression_codec)
DeserializeBlobMetadata(doc) ==
  [type |-> doc.value.type.value,
   fields |-> [i \in DOMAIN doc.value.fields.value |-> doc.value.fields.value[i].value],
   snapshot_id |-> doc.value.snapshot_id.value, sequence_number |-> doc.value.sequence_number.value,
   offset |-> doc.value.offset.value, length |-> doc.value.length.value,
   compression_codec |-> IF ~HasMember(doc, "compression_codec") THEN None
                         ELSE IF IsNull(doc.value.compression_codec) THEN None
                         ELSE doc.value.compression_codec.value,
   properties |-> DeserializeProperties(doc.value.properties)]

(* PuffinFile::Footer::GetDeserializedFooter, whose cache is never stale:  *)
(* the payload of a footer does not change.                                *)
GetDeserializedFooter(doc) ==
  IF /\ IsObject(doc) /\ {"blobs", "properties"} \subseteq DOMAIN doc.value
     /\ IsArray(doc.value.blobs) /\ IsObject(doc.value.properties)
     /\ \A i \in DOMAIN doc.value.blobs.value : BlobMetadataReadable(doc.value.blobs.value[i])
  THEN Ok([blobs |-> [i \in DOMAIN doc.value.blobs.value |->
                        DeserializeBlobMetadata(doc.value.blobs.value[i])],
           properties |-> DeserializeProperties(doc.value.properties)])
  ELSE Failed

-----------------------------------------------------------------------------
(* The trailer is <payload size> <flags> <magic>; bit 0 of the flags marks *)
(* a compressed payload.                                                   *)
ParseTrailerView(trailer) ==
  IF /\ Len(trailer) = 3 /\ trailer[3] = Magic
     /\ trailer[1].kind = "size" /\ trailer[2].kind = "flags" /\ trailer[2].value % 2 = 0
  THEN Ok(trailer[1].value)
  ELSE Failed

ExtractPayload(pieces) ==
  IF Len(pieces) = 2 /\ pieces[1] = Magic /\ pieces[2].kind = "footer" THEN Ok(pieces[2].value) ELSE Failed

(* PuffinFile::ReadFooter, and MakeFooter, which does the same in memory.  *)
ReadFooter(file) ==
  LET size == Size(file)
      trailer == ParseTrailerView(ReadAt(file, size - 12, 12))
  IN IF size < 16 \/ trailer.error \/ size < 16 + trailer.value THEN Failed
     ELSE ExtractPayload(ReadAt(file, size - 16 - trailer.value, 4 + trailer.value))

FooterBytes == 10                   \* how long a printed footer is
UncompressedFlags == 808464432      \* the four characters "0000", read as a number

(* PuffinFileBuilder::Build.  A blob is appended with its data, a piece,   *)
(* its properties, fields and type.                                        *)
PuffinOffset(blobs, i) == 4 + Size([j \in 1 .. i - 1 |-> blobs[j].data])
PuffinMetadata(blobs, sequence_number, snapshot_id) ==
  [i \in DOMAIN blobs |->
     [fields |-> blobs[i].fields, length |-> blobs[i].data.size, offset |-> PuffinOffset(blobs, i),
      properties |-> blobs[i].properties, sequence_number |-> sequence_number,
      snapshot_id |-> snapshot_id, type |-> blobs[i].type, compression_codec |-> None]]
PuffinBuild(blobs, sequence_number, snapshot_id) ==
  LET footer == CreateFooter([blobs |-> PuffinMetadata(blobs, sequence_number, snapshot_id),
                              properties |-> [created_by |-> "iceberg-cpp"]])
  IN <<Magic>> \o [i \in DOMAIN blobs |-> blobs[i].data] \o
     <<Magic, [kind |-> "footer", size |-> FooterBytes, value |-> footer],
       Word("size", FooterBytes), Word("flags", UncompressedFlags), Magic>>

(* PuffinFile::GetBlob(blob_number) of a file kept in memory, which Make   *)
(* accepts when it starts with the magic bytes and its footer is in order. *)
PuffinGetBlob(file, i) ==
  LET footer == GetDeserializedFooter(ReadFooter(file).value).value
      meta == footer.blobs[i]
  IN IF /\ file[1] = Magic /\ i \in DOMAIN footer.blobs
        /\ meta.offset >= 0 /\ meta.length >= 0 /\ meta.offset + meta.length < Size(file)
     THEN Ok(ReadAt(file, meta.offset, meta.length))
     ELSE Failed

-----------------------------------------------------------------------------
(* A deletion vector is a set of row positions.  Its blob is the length of *)
(* what follows without the checksum, the magic sequence, the bitmap and   *)
(* the checksum of the two.                                                *)
Decimal(n) == <<"decimal", n>>                         \* std::to_string, read by std::stoull
DeletionVectorProperties(path, rows) ==
  [referenced_data_file |-> path, cardinality |-> Decimal(Cardinality(rows))]
BitmapBytes(rows) == 8 + 2 * Cardinality(rows)         \* Roaring64Map::getSizeInBytes
Crc32(magic, rows) == <<magic, rows>>
GetBlob(rows) ==
  [kind |-> "blob", size |-> 12 + BitmapBytes(rows), length |-> 4 + BitmapBytes(rows),
   magic |-> "d1d33964", rows |-> rows, checksum |-> Crc32("d1d33964", rows)]

(* DeletionVector::DeletionVector(metadata, blob).                         *)
BlobAccepted(meta, blob) ==
  /\ meta.type = "deletion-vector-v1"
  /\ "referenced_data_file" \in DOMAIN meta.properties
  /\ "compression_codec" \notin DOMAIN meta.properties /\ meta.compression_codec = None
  /\ meta.length = blob.size /\ blob.size >= 12
  /\ blob.length + 8 = blob.size
  /\ blob.magic = "d1d33964"
  /\ "cardinality" \in DOMAIN meta.properties
  /\ meta.properties.cardinality = Decimal(Cardinality(blob.rows))
  /\ blob.checksum = Crc32(blob.magic, blob.rows)

(* FileReaderProvider::OpenDeletionVector(path, offset, length).           *)
OpenDeletionVector(file, offset, length) ==
  LET payload == ReadFooter(file)
      footer == IF payload.error THEN Failed ELSE GetDeserializedFooter(payload.value)
      found == IF footer.error THEN {}
               ELSE {i \in DOMAIN footer.value.blobs :
                       footer.value.blobs[i].offset = offset /\ footer.value.blobs[i].length = length}
      meta == footer.value.blobs[CHOOSE i \in found : \A j \in found : i <= j]
      data == ReadAt(file, offset, length)
  IN IF found # {} /\ Len(data) = 1 /\ data[1].kind = "blob" /\ BlobAccepted(meta, data[1])
     THEN Ok(data[1].rows)
     ELSE Failed

(* DeletionVector::GetElems(l, r): move to l, read on until past r.        *)
GetElems(rows, l, r) == SelectSeq([i \in 1 .. r + 1 - l |-> l + i - 1], LAMBDA x : x \in rows)
=============================================================================
